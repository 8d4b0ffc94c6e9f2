------------------------------ MODULE Migrator ------------------------------
(***************************************************************************)
(* The schema migrator, database/migrator.go, run by console processes     *)
(* that nothing keeps from running at the same time.  Each statement is a  *)
(* step; a transaction's effects appear when it commits.  Postgres itself  *)
(* is modelled by what the code relies on: transactions, IF [NOT] EXISTS,  *)
(* foreign keys, the UNIQUE name, and the locks that make one transaction  *)
(* wait for another.  A lost connection, a killed process and a statement  *)
(* timeout are all the same to the database: the transaction is undone.    *)
(***************************************************************************)
EXTENDS Integers, Sequences, FiniteSets

CONSTANTS
  Process,        (* Console processes.                                    *)
  Registered,     (* The registered migrations, in the order they run.     *)
  Refers,         (* Name -> the tables its table has a foreign key to.    *)
  Commands,       (* The commands operators give.                          *)
  Disciplined,    (* Whether they roll back and rebuild only while nothing *)
                  (* else runs; the code does not see to it.               *)
  MaxCommands,    (* Bound: how many commands are given in all.            *)
  MayFail         (* Whether statements and processes fail at random.      *)

Name  == {Registered[i] : i \in DOMAIN Registered}
Ledger == "migrations"       (* The table that records what was applied.   *)

ASSUME MigrationAssumption ==
  /\ Registered \in Seq(Name)
  /\ \A i, j \in DOMAIN Registered : Registered[i] = Registered[j] => i = j
  /\ \A i \in DOMAIN Registered :
       Refers[Registered[i]] \subseteq {Registered[j] : j \in 1 .. (i - 1)}
  /\ Ledger \notin Name
  /\ Commands \subseteq {"migrate", "migrate:fresh", "migrate:refresh"}
  /\ MayFail \in BOOLEAN /\ Disciplined \in BOOLEAN

VARIABLES
  tables,         (* The tables that exist, as committed.                  *)
  keys,           (* Foreign keys that exist: <<from, to>>.                *)
  recorded,       (* Rows of the migrations table: name -> [batch, by].    *)
  given,          (* Commands given so far.                                *)
  pc,             (* Process -> the statement it executes next.            *)
  phase,          (* Process -> migrating anew, rolling back or migrating. *)
  self,           (* Process -> the command it executes, by number.        *)
  listed,         (* Process -> tables dropAllTables found.                *)
  applied,        (* Process -> names appliedMigrations read.              *)
  batch,          (* Process -> what nextBatch returned.                   *)
  at,             (* Process -> index of the migration in hand.            *)
  tx              (* Process -> what its open transaction has done.        *)

database == <<tables, keys, recorded>>
vars == <<tables, keys, recorded, given, pc, phase, self, listed, applied, batch, at, tx>>

NoTx == [schema |-> "none", row |-> "none"]

Active(p) == pc[p] \notin {"idle", "done", "failed"}
InHand(p) == Registered[at[p]]

Init ==
  /\ tables = {} /\ keys = {} /\ recorded = [n \in {} |-> 0]
  /\ given = 0
  /\ pc = [p \in Process |-> "idle"]
  /\ phase = [p \in Process |-> "run"]
  /\ self = [p \in Process |-> 0]
  /\ listed = [p \in Process |-> {}]
  /\ applied = [p \in Process |-> {}]
  /\ batch = [p \in Process |-> 0]
  /\ at = [p \in Process |-> 0]
  /\ tx = [p \in Process |-> NoTx]

-----------------------------------------------------------------------------
(* Postgres: what an open transaction keeps others from changing.          *)
Locks(p) ==
  (CASE tx[p].schema = "created" -> Refers[InHand(p)]
     [] tx[p].schema = "dropped" -> {InHand(p)} \cup Refers[InHand(p)]
     [] OTHER                    -> {})
  \cup (IF tx[p].row = "none" THEN {} ELSE {Ledger})

Free(p, names) == \A q \in Process \ {p} : Locks(q) \cap names = {}

(* Another open transaction has done one of these to the same migration.   *)
Contended(p, doings) ==
  \E q \in Process \ {p} :
    /\ tx[q].schema \in doings \/ tx[q].row \in doings
    /\ InHand(q) = InHand(p)

(* The statement p is about to execute is one Postgres rejects.            *)
Rejected(p) ==
  \/ pc[p] \in {"applied", "batch", "record", "forget"} /\ Ledger \notin tables
  \/ pc[p] = "record" /\ InHand(p) \in DOMAIN recorded
  \/ pc[p] = "up" /\ InHand(p) \notin tables /\ ~(Refers[InHand(p)] \subseteq tables)
  \/ pc[p] = "down" /\ \E k \in keys : k[2] = InHand(p)

-----------------------------------------------------------------------------
(* The process goes on to statement l; the database is as it was.          *)
Goto(p, l) == pc' = [pc EXCEPT ![p] = l]

(* Mutant: rollback goes from the oldest.                                  *)
NextDownFirst(from, done) ==
  LET left == {i \in DOMAIN Registered : Registered[i] \in done \cap DOMAIN recorded}
  IN  IF left = {} THEN 0 ELSE CHOOSE i \in left : \A j \in left : i <= j

(* Run's loop passes over what it read as applied; Reset's, going down,    *)
(* over what it did not.                                                   *)
NextUp(from, done) ==
  LET left == {i \in DOMAIN Registered : i >= from /\ Registered[i] \notin done}
  IN  IF left = {} THEN 0 ELSE CHOOSE i \in left : \A j \in left : i <= j

NextDown(from, done) ==
  LET left == {i \in DOMAIN Registered : i <= from /\ Registered[i] \in done}
  IN  IF left = {} THEN 0 ELSE CHOOSE i \in left : \A j \in left : i >= j

(* A command is given to a process, confirmed where it asks.               *)
Admissible(command) ==
  \A q \in Process :
    Active(q) /\ Disciplined => command = "migrate" /\ phase[q] = "run"

Start(p, command) ==
  /\ ~Active(p)
  /\ Admissible(command)
  /\ given < MaxCommands
  /\ given' = given + 1
  /\ self' = [self EXCEPT ![p] = given + 1]
  /\ Goto(p, IF command = "migrate:fresh" THEN "list" ELSE "ensure")
  /\ phase' = [phase EXCEPT ![p] = CASE command = "migrate:fresh"   -> "fresh"
                                     [] command = "migrate:refresh" -> "reset"
                                     [] command = "migrate"         -> "run"]
  /\ UNCHANGED <<database, listed, applied, batch, at, tx>>

(* dropAllTables: the catalogue is read in one statement ...               *)
ListTables(p) ==
  /\ pc[p] = "list"
  /\ listed' = [listed EXCEPT ![p] = tables]
  /\ Goto(p, IF tables = {} THEN "ensure" ELSE "drop")
  /\ UNCHANGED <<database, given, phase, self, applied, batch, at, tx>>

(* Mutant: the table of rows is spared.                                    *)
DropListedSparesLedger(p) ==
  /\ pc[p] = "drop"
  /\ tables' = tables \ (listed[p] \ {Ledger})
  /\ keys' = {k \in keys : k[1] \notin listed[p] /\ k[2] \notin listed[p]}
  /\ listed' = [listed EXCEPT ![p] = {}]
  /\ Goto(p, "ensure")
  /\ UNCHANGED <<recorded, given, phase, self, applied, batch, at, tx>>

(* ... and what it named is dropped, with CASCADE, in a transaction.       *)
DropListed(p) ==
  /\ pc[p] = "drop"
  /\ Free(p, listed[p])
  /\ tables' = tables \ listed[p]
  /\ keys' = {k \in keys : k[1] \notin listed[p] /\ k[2] \notin listed[p]}
  /\ recorded' = IF Ledger \in listed[p] THEN [n \in {} |-> 0] ELSE recorded
  /\ listed' = [listed EXCEPT ![p] = {}]
  /\ Goto(p, "ensure")
  /\ UNCHANGED <<given, phase, self, applied, batch, at, tx>>

EnsureRepository(p) ==
  /\ pc[p] = "ensure"
  /\ tables' = tables \cup {Ledger}
  /\ Goto(p, "applied")
  /\ UNCHANGED <<keys, recorded, given, phase, self, listed, applied, batch, at, tx>>

(* appliedMigrations; Reset enters its loop at once, Run asks for a batch. *)
AppliedMigrations(p) ==
  LET last == NextDown(Len(Registered), DOMAIN recorded) IN
  /\ pc[p] = "applied"
  /\ Ledger \in tables
  /\ applied' = [applied EXCEPT ![p] = DOMAIN recorded]
  /\ \/ /\ phase[p] # "reset"
        /\ Goto(p, "batch")
        /\ UNCHANGED <<phase, at>>
     \/ /\ phase[p] = "reset" /\ last # 0
        /\ Goto(p, "down")
        /\ at' = [at EXCEPT ![p] = last]
        /\ UNCHANGED phase
     \/ /\ phase[p] = "reset" /\ last = 0
        /\ Goto(p, "ensure")
        /\ phase' = [phase EXCEPT ![p] = "run"]
        /\ UNCHANGED at
  /\ UNCHANGED <<database, given, self, listed, batch, tx>>

LastBatch ==
  CHOOSE b \in {0} \cup {recorded[n].batch : n \in DOMAIN recorded} :
    \A n \in DOMAIN recorded : recorded[n].batch <= b

(* Run goes on to the first migration left from index i, or is done.       *)
RunFrom(p, i) ==
  LET next == NextUp(i, applied[p]) IN
  /\ Goto(p, IF next = 0 THEN "done" ELSE "up")
  /\ at' = [at EXCEPT ![p] = next]

(* Mutant: the run takes the batch of the last one.                        *)
NextBatchReused(p) ==
  /\ pc[p] = "batch"
  /\ Ledger \in tables
  /\ batch' = [batch EXCEPT ![p] = IF LastBatch = 0 THEN 1 ELSE LastBatch]
  /\ RunFrom(p, 1)
  /\ UNCHANGED <<database, given, phase, self, listed, applied, tx>>

NextBatch(p) ==
  /\ pc[p] = "batch"
  /\ Ledger \in tables
  /\ batch' = [batch EXCEPT ![p] = LastBatch + 1]
  /\ RunFrom(p, 1)
  /\ UNCHANGED <<database, given, phase, self, listed, applied, tx>>

(* apply: CREATE TABLE IF NOT EXISTS, which finds the table there ...      *)
UpSkips(p) ==
  /\ pc[p] = "up"
  /\ InHand(p) \in tables
  /\ tx' = [tx EXCEPT ![p].schema = "skipped"]
  /\ Goto(p, "record")
  /\ UNCHANGED <<database, given, phase, self, listed, applied, batch, at>>

(* ... or creates it, with its foreign keys, once nothing is in its way.   *)
UpCreates(p) ==
  /\ pc[p] = "up"
  /\ InHand(p) \notin tables
  /\ Refers[InHand(p)] \subseteq tables
  /\ Free(p, Refers[InHand(p)])
  /\ ~Contended(p, {"created"})
  /\ tx' = [tx EXCEPT ![p].schema = "created"]
  /\ Goto(p, "record")
  /\ UNCHANGED <<database, given, phase, self, listed, applied, batch, at>>

(* INSERT INTO migrations: the name is UNIQUE.                             *)
Record(p) ==
  /\ pc[p] = "record"
  /\ ~Rejected(p)
  /\ ~Contended(p, {"insert", "delete"})
  /\ tx' = [tx EXCEPT ![p].row = "insert"]
  /\ Goto(p, "commit")
  /\ UNCHANGED <<database, given, phase, self, listed, applied, batch, at>>

(* What commits: the new table, its keys and its row.                      *)
CommitApply(p) ==
  LET n == InHand(p) IN
  /\ pc[p] = "commit"
  /\ IF tx[p].schema = "created"
     THEN /\ tables' = tables \cup {n}
          /\ keys' = keys \cup {<<n, r>> : r \in Refers[n]}
     ELSE UNCHANGED <<tables, keys>>
  /\ recorded' = [m \in DOMAIN recorded \cup {n} |->
                    IF m = n THEN [batch |-> batch[p], by |-> self[p]] ELSE recorded[m]]
  /\ tx' = [tx EXCEPT ![p] = NoTx]
  /\ UNCHANGED <<given, phase, self, listed, applied, batch>>

(* revert: DROP TABLE IF EXISTS, without CASCADE.                          *)
Down(p) ==
  /\ pc[p] = "down"
  /\ ~Rejected(p)
  /\ InHand(p) \in tables => Free(p, {InHand(p)} \cup Refers[InHand(p)])
  /\ tx' = [tx EXCEPT ![p].schema = IF InHand(p) \in tables THEN "dropped" ELSE "absent"]
  /\ Goto(p, "forget")
  /\ UNCHANGED <<database, given, phase, self, listed, applied, batch, at>>

(* DELETE FROM migrations: removes the row it sees, if it sees one.        *)
Forget(p) ==
  /\ pc[p] = "forget"
  /\ ~Rejected(p)
  /\ ~Contended(p, {"delete"})
  /\ tx' = [tx EXCEPT ![p].row = IF InHand(p) \in DOMAIN recorded THEN "delete" ELSE "miss"]
  /\ Goto(p, "uncommit")
  /\ UNCHANGED <<database, given, phase, self, listed, applied, batch, at>>

(* What commits: the table and its keys go, and its row.                   *)
CommitRevert(p) ==
  LET n == InHand(p) IN
  /\ pc[p] = "uncommit"
  /\ IF tx[p].schema = "dropped"
     THEN /\ tables' = tables \ {n}
          /\ keys' = {k \in keys : k[1] # n}
     ELSE UNCHANGED <<tables, keys>>
  /\ recorded' = IF tx[p].row = "delete"
                 THEN [m \in DOMAIN recorded \ {n} |-> recorded[m]] ELSE recorded
  /\ tx' = [tx EXCEPT ![p] = NoTx]
  /\ UNCHANGED <<given, self, listed, applied, batch>>

(* The commit is acknowledged, and the loop goes on.                       *)
Applied(p) ==
  /\ CommitApply(p)
  /\ RunFrom(p, at[p] + 1)

Reverted(p) ==
  LET next == NextDown(at[p] - 1, applied[p]) IN
  /\ CommitRevert(p)
  /\ at' = [at EXCEPT ![p] = next]
  /\ Goto(p, IF next = 0 THEN "ensure" ELSE "down")
  /\ phase' = [phase EXCEPT ![p] = IF next = 0 THEN "run" ELSE "reset"]

(* The commit happens, and the process never learns that it did.           *)
Unacknowledged(p) ==
  /\ MayFail
  /\ \/ CommitApply(p)
     \/ CommitRevert(p) /\ UNCHANGED phase
  /\ Goto(p, "failed")
  /\ UNCHANGED at

(* Mutants: a failure is not reported; it leaves behind a row that was     *)
(* written outside the transaction.                                        *)
FailSwallowed(p) ==
  /\ Active(p)
  /\ MayFail \/ Rejected(p)
  /\ tx' = [tx EXCEPT ![p] = NoTx]
  /\ Goto(p, "done")
  /\ UNCHANGED <<database, given, phase, self, listed, applied, batch, at>>

FailKeepsRow(p) ==
  /\ Active(p)
  /\ MayFail \/ Rejected(p)
  /\ recorded' = IF tx[p].row # "insert" THEN recorded
                 ELSE [m \in DOMAIN recorded \cup {InHand(p)} |->
                         IF m = InHand(p) THEN [batch |-> batch[p], by |-> self[p]]
                         ELSE recorded[m]]
  /\ tx' = [tx EXCEPT ![p] = NoTx]
  /\ Goto(p, "failed")
  /\ UNCHANGED <<tables, keys, given, phase, self, listed, applied, batch, at>>

(* A statement fails, or the process dies: the transaction is undone.      *)
Fail(p) ==
  /\ Active(p)
  /\ MayFail \/ Rejected(p)
  /\ tx' = [tx EXCEPT ![p] = NoTx]
  /\ Goto(p, "failed")
  /\ UNCHANGED <<database, given, phase, self, listed, applied, batch, at>>

Execute(p) ==
  \/ ListTables(p) \/ DropListed(p)
  \/ EnsureRepository(p) \/ AppliedMigrations(p) \/ NextBatch(p)
  \/ UpSkips(p) \/ UpCreates(p) \/ Record(p) \/ Applied(p)
  \/ Down(p) \/ Forget(p) \/ Reverted(p)
  \/ Unacknowledged(p) \/ Fail(p)

Next == \E p \in Process : Execute(p) \/ \E c \in Commands : Start(p, c)

Spec == Init /\ [][Next]_vars

(* Every process that can go on does: it waits for nothing but the locks.  *)
FairSpec == Spec /\ \A p \in Process : WF_vars(Execute(p))

-----------------------------------------------------------------------------
TypeOK ==
  /\ tables \subseteq Name \cup {Ledger}
  /\ keys \subseteq Name \X Name
  /\ DOMAIN recorded \subseteq Name
  /\ \A n \in DOMAIN recorded : recorded[n] \in [batch : Nat, by : Nat]
  /\ \A p \in Process :
       /\ phase[p] \in {"fresh", "reset", "run"}
       /\ applied[p] \subseteq Name
       /\ pc[p] \in {"up", "record", "commit", "down", "forget", "uncommit"} =>
            at[p] \in DOMAIN Registered
       /\ tx[p] # NoTx => pc[p] \in {"record", "commit", "forget", "uncommit"}

(* A migration's row and its schema change do not diverge (apply, revert), *)
(* whatever fails, is killed or goes unacknowledged in between.            *)
InStep == \A n \in Name : n \in tables <=> n \in DOMAIN recorded

Built ==
  /\ Name \cup {Ledger} \subseteq tables
  /\ \A n \in Name : \A r \in Refers[n] : <<n, r>> \in keys
  /\ DOMAIN recorded = Name

(* A command reports success only over the whole schema: every table, with *)
(* its foreign keys, and every row (Run, Fresh, Refresh).                  *)
SuccessMeansBuilt ==
  [][\A p \in Process : Active(p) /\ pc'[p] = "done" => Built']_vars

(* A batch groups the migrations of one run only, which is what makes      *)
(* rolling back a single deployment possible (nextBatch).                  *)
BatchOwned ==
  \A m, n \in DOMAIN recorded :
    recorded[m].batch = recorded[n].batch => recorded[m].by = recorded[n].by

(* What was applied later stands on what was applied before: no migration  *)
(* is recorded without those registered before it, and every foreign key   *)
(* its table was declared with is there.                                   *)
Grounded ==
  /\ \A i, j \in DOMAIN Registered :
       i < j /\ Registered[j] \in DOMAIN recorded => Registered[i] \in DOMAIN recorded
  /\ \A n \in tables \cap Name : \A r \in Refers[n] : r \in tables /\ <<n, r>> \in keys

=============================================================================
