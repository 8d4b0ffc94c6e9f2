------------------------------ MODULE Console ------------------------------
(***************************************************************************)
(* The console as its operators use it: terminals that run jwt:secret and  *)
(* db:seed over one directory and one database.  The commands meet in .env,*)
(* which jwt:secret rewrites and every command loads when it starts, for   *)
(* APP_ENV there decides whether db:seed asks first.                       *)
(***************************************************************************)
EXTENDS EnvFile, Seeding

vars == <<shellVars, envVars, seedVars>>

Init == ShellInit /\ EnvInit /\ SeedInit

(* main loads .env, Boot finds the command and calls its Handle.           *)
Dispatch(p) ==
  \/ \E flags \in {{}, {"force"}, {"show"}} :
       StartSecret(p, flags) /\ UNCHANGED seedVars
  \/ \E class \in {{}, {"users"}, {"events"}}, force \in {{}, {"force"}} :
       StartSeed(p, class \cup force, AppEnv, saved) /\ UNCHANGED envVars
  \/ NotFound(p) /\ UNCHANGED <<envVars, seedVars>>

Next ==
  \/ Operator /\ UNCHANGED seedVars
  \/ Migrated /\ UNCHANGED envVars
  \/ \E p \in Process :
       \/ Dispatch(p)
       \/ SecretStep(p) /\ UNCHANGED seedVars
       \/ SeedStep(p) /\ UNCHANGED envVars

Spec == Init /\ [][Next]_vars

TypeOK ==
  /\ pc \in [Process -> {"idle"} \cup SecretSteps \cup SeedSteps]
  /\ ShellTypeOK
  /\ DOMAIN files \subseteq Nat /\ \A n \in DOMAIN files : files[n] \in File
  /\ draft \in [Process -> Draft]
  /\ edits \in Nat
  /\ saved \in {"local", "production", "lost"}
  /\ tables \in BOOLEAN
  /\ accounts \in Nat
  /\ seed \in [Process -> Seed]

=============================================================================
