------------------------------ MODULE Seeding ------------------------------
(***************************************************************************)
(* db:seed: the confirmation a production database asks for, the seeders   *)
(* in the order the kernel registers them, and what they do to the tables, *)
(* statement by statement, beside other runs.  Nothing is done in a        *)
(* transaction, and no username is UNIQUE (0001_users_table.go).           *)
(* Only accounts of seedUsername, and their events, matter.                *)
(***************************************************************************)
EXTENDS Shell

CONSTANT
  SeedEventCount  (* seedEventCount.                                       *)

ASSUME SeedAssumption == SeedEventCount \in Nat \ {0}

VARIABLES
  tables,         (* The tables exist.                                     *)
  accounts,       (* How many accounts of the seeded name are in users.    *)
  seed            (* Process -> whether its pool is open (memoized), how   *)
                  (* many events of its run are in the table; and, of use  *)
                  (* to properties only, whether its run took the account  *)
                  (* for missing because its lookup failed or another run  *)
                  (* inserted it meanwhile, and whether its database is    *)
                  (* not meant for production or the operator has agreed.  *)

seedVars == <<tables, accounts, seed>>

Fresh == [connected |-> FALSE, added |-> 0, misled |-> FALSE, allowed |-> FALSE]

Seed == [connected : BOOLEAN, added : 0 .. SeedEventCount, misled : BOOLEAN, allowed : BOOLEAN]

(* The question, and the statements of the seeders with their returns.     *)
SeedSteps == {"confirm", "find", "skipped", "insert", "inserted", "owner", "event", "saved"}

SeedInit ==
  /\ tables \in BOOLEAN
  /\ accounts = 0
  /\ seed = [p \in Process |-> Fresh]

(* The first statement of the seeders that are to run: RunClass with       *)
(* --class, Run without.                                                   *)
FirstStep(flags) == IF "events" \in flags THEN "owner" ELSE "find"

(* Mutant: --class, which names its seeder, is not asked about.            *)
AsksForAll(env, flags) == env = "production" /\ flags \cap {"force", "users", "events"} = {}

Asks(env, flags) == env = "production" /\ "force" \notin flags

(* main loads .env; Handle parses its flags.  What the operator intends    *)
(* differs from env where it is lost.                                      *)
StartSeed(p, flags, env, intended) ==
  /\ Begin(p, "db:seed", flags, IF Asks(env, flags) THEN "confirm" ELSE FirstStep(flags))
  /\ seed' = [seed EXCEPT ![p].allowed = "production" \notin {env, intended} \/ "force" \in flags]
  /\ UNCHANGED <<tables, accounts>>

(* The process ends, and its memory with it.                               *)
Leave(p, how) ==
  /\ Exit(p, how)
  /\ seed' = [seed EXCEPT ![p] = Fresh]

(* Confirm: "yes", anything else, or an answer that cannot be read.        *)
Confirm(p) ==
  /\ pc[p] = "confirm"
  /\ \/ Goto(p, FirstStep(job[p].flags)) /\ seed' = [seed EXCEPT ![p].allowed = TRUE]
     \/ Leave(p, "ok")
     \/ Leave(p, "error")
  /\ UNCHANGED <<tables, accounts>>

(* core.Connection, first used by NewUserModel, which ignores its error    *)
(* and goes on with a nil handle: the first query panics.                  *)
Connect(p) ==
  /\ pc[p] \in {"find", "owner"} /\ ~seed[p].connected
  /\ \/ seed' = [seed EXCEPT ![p].connected = TRUE] /\ UNCHANGED shellVars
     \/ Leave(p, "died")
  /\ UNCHANGED <<tables, accounts>>

(* Mutant: an account that was found is inserted all the same.             *)
FindUserIgnored(p) ==
  /\ pc[p] = "find" /\ seed[p].connected /\ tables
  /\ Goto(p, "insert")
  /\ UNCHANGED seedVars

(* UserSeeder looks the account up, and skips if it is there.              *)
FindUser(p) ==
  /\ pc[p] = "find" /\ seed[p].connected /\ tables
  /\ Goto(p, IF accounts = 0 THEN "insert" ELSE "skipped")
  /\ UNCHANGED seedVars

(* A lookup that failed is taken for an account that is not there.         *)
FindUserFails(p) ==
  /\ pc[p] = "find" /\ seed[p].connected
  /\ Goto(p, "insert")
  /\ seed' = [seed EXCEPT ![p].misled = TRUE]
  /\ UNCHANGED <<tables, accounts>>

(* The factory saves the account; others that have looked for it in vain   *)
(* still take it for missing.                                              *)
InsertUser(p) ==
  /\ pc[p] = "insert" /\ tables
  /\ Goto(p, "inserted")
  /\ accounts' = accounts + 1
  /\ seed' = [q \in Process |-> [seed[q] EXCEPT !.misled = @ \/ (q # p /\ pc[q] = "insert")]]
  /\ UNCHANGED tables

(* The user seeder is done, and the next one in order begins.              *)
UserSeeded(p) ==
  /\ pc[p] \in {"skipped", "inserted"}
  /\ IF Given(p, "users") THEN Leave(p, "ok") ELSE Goto(p, "owner") /\ UNCHANGED seed
  /\ UNCHANGED <<tables, accounts>>

(* EventSeeder looks the owner up, whom it cannot do without.              *)
FindOwner(p) ==
  /\ pc[p] = "owner" /\ seed[p].connected /\ tables /\ accounts > 0
  /\ Goto(p, "event")
  /\ UNCHANGED seedVars

(* The factory saves the events one by one.                                *)
InsertEvent(p) ==
  /\ pc[p] = "event"
  /\ Goto(p, "saved")
  /\ seed' = [seed EXCEPT ![p].added = @ + 1]
  /\ UNCHANGED <<tables, accounts>>

(* Mutant: the factory stops one short of its count.                       *)
EventSavedShort(p) ==
  /\ pc[p] = "saved"
  /\ IF seed[p].added >= SeedEventCount - 1 THEN Leave(p, "ok") ELSE Goto(p, "event") /\ UNCHANGED seed
  /\ UNCHANGED <<tables, accounts>>

EventSaved(p) ==
  /\ pc[p] = "saved"
  /\ IF seed[p].added = SeedEventCount THEN Leave(p, "ok") ELSE Goto(p, "event") /\ UNCHANGED seed
  /\ UNCHANGED <<tables, accounts>>

(* A statement other than the tolerated lookup fails: it is refused, or    *)
(* was executed and its answer is lost.  The first failure ends the run.   *)
SeedFails(p) ==
  /\ pc[p] \in {"insert", "inserted", "owner", "event", "saved"} /\ seed[p].connected
  /\ Leave(p, "error")
  /\ UNCHANGED <<tables, accounts>>

(* Killed at any step: what was inserted stays.                            *)
SeedKilled(p) ==
  /\ job[p].command = "db:seed"
  /\ Leave(p, "died")
  /\ UNCHANGED <<tables, accounts>>

(* A migrate from another console.                                         *)
Migrated ==
  /\ ~tables /\ tables' = TRUE
  /\ UNCHANGED <<accounts, seed, shellVars>>

SeedStep(p) ==
  \/ Confirm(p) \/ Connect(p)
  \/ FindUser(p) \/ FindUserFails(p) \/ InsertUser(p) \/ UserSeeded(p)
  \/ FindOwner(p) \/ InsertEvent(p) \/ EventSaved(p)
  \/ SeedFails(p) \/ SeedKilled(p)

-----------------------------------------------------------------------------
(* However many runs failed, were killed after an insert or lost its       *)
(* answer, running the seeder again doubles the seeded account only where  *)
(* the user seeder was misled: by a lookup that failed, which it takes for *)
(* "not found", or by a run beside it.                                     *)
OneAccount ==
  [][\A p \in Process :
       pc[p] # pc'[p] /\ accounts' > accounts => accounts = 0 \/ seed[p].misled]_<<shellVars, seedVars>>

(* A run that reports success, and was not declined, leaves the account    *)
(* and, unless --class asked for the account only, all of its own events.  *)
SeededMeansThere ==
  [][\A p \in Process : job[p].command = "db:seed" /\ Ended(p, "ok") /\ pc[p] # "confirm" =>
       /\ accounts > 0
       /\ ~Given(p, "users") => seed[p].added = SeedEventCount]_<<shellVars, seedVars>>

(* "Seeding a production database writes fixture rows into live tables, so *)
(* that case asks for confirmation unless --force is given" (seed.go).     *)
(* Production is what .env says when the command starts and what the       *)
(* operator saved there last: runs of jwt:secret that rewrote it since do  *)
(* not unsay it.  The exception is a run that had looked at .env before it *)
(* was saved and replaced it after: it puts an older APP_ENV back, and a   *)
(* db:seed that starts then does not ask.  A missing .env is production.   *)
AskedInProduction ==
  [][\A p \in Process : pc[p] # pc'[p] /\ ~seed[p].allowed =>
       accounts' = accounts /\ seed'[p].added <= seed[p].added]_<<shellVars, seedVars>>

=============================================================================
