------------------------------ MODULE EnvFile ------------------------------
(***************************************************************************)
(* jwt:secret, app/console/jwt/secret.go: .env is read, one line of it is  *)
(* edited, and the whole is put back through a sibling temporary file and  *)
(* a rename, while other runs do the same and the operator saves the file  *)
(* from an editor.                                                         *)
(*                                                                         *)
(* A text is the value of its JWT_SECRET line, 0 where that is empty or    *)
(* there is none, and the rest, of which APP_ENV is kept.  Secrets are     *)
(* numbered: run n generates n.                                            *)
(***************************************************************************)
EXTENDS Shell, TLC

CONSTANT
  MaxEdits        (* Bound on the operator's changes to .env, for TLC.     *)

ASSUME EditAssumption == MaxEdits \in Nat

VARIABLES
  files,          (* The directory: names of files -> their text and mode. *)
  draft,          (* Process -> what it knows: the mode and the text to    *)
                  (* write; and, of use to properties only, whether .env   *)
                  (* has changed since its Stat, and whether the secret of *)
                  (* its run has been in .env.                             *)
  edits,          (* How many changes the operator has made.               *)
  saved           (* Of use to properties only: the APP_ENV the operator   *)
                  (* saved last, "lost" if a run that .env has changed     *)
                  (* under puts another one there.                         *)

envVars == <<files, draft, edits, saved>>

Modes == {"private", "shared"}

Text == [secret : Nat, app : {"local", "production"}]

(* What is in a file that is empty or was written in part.                 *)
Cut == [secret |-> 0, app |-> "cut"]

File == [text : Text \cup {Cut}, mode : Modes]

Blank == [mode |-> "private", text |-> Cut, stale |-> FALSE, issued |-> FALSE]

Draft == [mode : Modes, text : Text \cup {Cut}, stale : BOOLEAN, issued : BOOLEAN]

(* The calls of writeJwtSecret and replaceFile, what --show does, and the  *)
(* way from the rename to the end of the process.                          *)
SecretSteps == {"show", "stat", "read", "create", "write", "chmod", "rename", "return"}

(* .env; the temporary file of run n is named n.                           *)
Env == 0

Exists(name) == name \in DOMAIN files

Placed(name, f) ==
  files' = [n \in DOMAIN files \cup {name} |-> IF n = name THEN f ELSE files[n]]

Removed(name) == files' = [n \in DOMAIN files \ {name} |-> files[n]]

(* godotenv.Load and NewAppConfig: production, if nothing else is said.    *)
AppEnv == IF Exists(Env) THEN files[Env].text.app ELSE "production"

EnvInit ==
  /\ files = [n \in {Env} |-> [text |-> [secret |-> 0, app |-> "local"], mode |-> "private"]]
  /\ draft = [p \in Process |-> Blank]
  /\ edits = 0
  /\ saved = "local"

(* p has looked at .env and has yet to replace it.                         *)
Looked(p) == pc[p] \in {"read", "create", "write", "chmod", "rename"}

(* In a step: the secret of p's run is in .env after it.                   *)
Issued(p) == Running(p) /\ Env \in DOMAIN files' /\ files'[Env].text.secret = run[p]

(* .env has changed: files' is known.                                      *)
Noticed ==
  draft' = [p \in Process |->
              [draft[p] EXCEPT !.stale = @ \/ Looked(p), !.issued = @ \/ Issued(p)]]

Forget(p) == draft' = [draft EXCEPT ![p] = Blank]

-----------------------------------------------------------------------------
(* The operator saves .env, with or without a secret of the operator's own,*)
(* or removes it.  An editor replaces the file as a whole.                 *)
Save(f) ==
  /\ f.text.secret \in {0, MaxRuns + edits + 1} \cup
       (IF Exists(Env) THEN {files[Env].text.secret} ELSE {})
  /\ ~Exists(Env) \/ files[Env] # f
  /\ Placed(Env, f)
  /\ saved' = f.text.app

Discard ==
  /\ Exists(Env)
  /\ Removed(Env)
  /\ saved' = "production"

Operator ==
  /\ edits < MaxEdits /\ edits' = edits + 1
  /\ \/ \E a \in {"local", "production"}, m \in Modes, n \in 0 .. MaxRuns + MaxEdits :
          Save([text |-> [secret |-> n, app |-> a], mode |-> m])
     \/ Discard
  /\ Noticed
  /\ UNCHANGED shellVars

-----------------------------------------------------------------------------
(* Handle, to the point where writeJwtSecret begins.                       *)
StartSecret(p, flags) ==
  /\ Begin(p, "jwt:secret", flags, IF "show" \in flags THEN "show" ELSE "stat")
  /\ UNCHANGED envVars

(* --show prints the secret, -h the usage; both leave .env alone.          *)
Show(p) ==
  /\ pc[p] = "show"
  /\ Exit(p, "ok")
  /\ UNCHANGED envVars

Stat(p) ==
  /\ pc[p] = "stat" /\ Exists(Env)
  /\ Goto(p, "read")
  /\ draft' = [draft EXCEPT ![p].mode = files[Env].mode]
  /\ UNCHANGED <<files, edits, saved>>

(* Mutant: the other lines are those of .env.example.                      *)
EditedAfresh(p) == [secret |-> run[p], app |-> "local"]

(* The text of .env with the line of the secret set.                       *)
Edited(p) == [files[Env].text EXCEPT !.secret = run[p]]

(* Mutant: --force is not asked for.                                       *)
ReadUnasked(p) ==
  /\ pc[p] = "read" /\ Exists(Env)
  /\ Goto(p, "create")
  /\ draft' = [draft EXCEPT ![p].text = Edited(p)]
  /\ UNCHANGED <<files, edits, saved>>

(* The text of .env is read, and the line set unless it has a value that   *)
(* only --force may replace.                                               *)
Read(p) ==
  /\ pc[p] = "read" /\ Exists(Env)
  /\ IF files[Env].text.secret # 0 /\ ~Given(p, "force")
     THEN Exit(p, "error") /\ Forget(p)
     ELSE Goto(p, "create") /\ draft' = [draft EXCEPT ![p].text = Edited(p)]
  /\ UNCHANGED <<files, edits, saved>>

(* CreateTemp: a new file is the owner's alone.                            *)
CreateTemp(p) ==
  /\ pc[p] = "create"
  /\ Goto(p, "write")
  /\ Placed(run[p], [text |-> Cut, mode |-> "private"])
  /\ UNCHANGED <<draft, edits, saved>>

(* Mutant: a write that was cut short is taken for a whole one.            *)
WriteCut(p) ==
  /\ pc[p] = "write"
  /\ Goto(p, "chmod")
  /\ \E t \in {draft[p].text, Cut} : files' = [files EXCEPT ![run[p]].text = t]
  /\ UNCHANGED <<draft, edits, saved>>

Write(p) ==
  /\ pc[p] = "write"
  /\ Goto(p, "chmod")
  /\ files' = [files EXCEPT ![run[p]].text = draft[p].text]
  /\ UNCHANGED <<draft, edits, saved>>

(* Mutant: the new file keeps the mode it was created with.                *)
ChmodNothing(p) ==
  /\ pc[p] = "chmod"
  /\ Goto(p, "rename")
  /\ UNCHANGED envVars

Chmod(p) ==
  /\ pc[p] = "chmod"
  /\ Goto(p, "rename")
  /\ files' = [files EXCEPT ![run[p]].mode = draft[p].mode]
  /\ UNCHANGED <<draft, edits, saved>>

(* The temporary file becomes .env.                                        *)
Rename(p) ==
  /\ pc[p] = "rename"
  /\ Goto(p, "return")
  /\ files' = [n \in (DOMAIN files \cup {Env}) \ {run[p]} |->
                 IF n = Env THEN files[run[p]] ELSE files[n]]
  /\ saved' = IF draft[p].stale /\ files[run[p]].text.app # AppEnv THEN "lost" ELSE saved
  /\ Noticed
  /\ UNCHANGED edits

(* Mutant: the deferred Remove finds nothing, and its error is returned.   *)
SucceedsInVain(p) ==
  /\ pc[p] = "return"
  /\ Exit(p, "error")
  /\ Forget(p)
  /\ Removed(run[p])
  /\ UNCHANGED <<edits, saved>>

(* What comes after the rename: the deferred Remove, which finds nothing,  *)
(* the record of the success, and the exit.                                *)
Succeeds(p) ==
  /\ pc[p] = "return"
  /\ Exit(p, "ok")
  /\ Forget(p)
  /\ Removed(run[p])
  /\ UNCHANGED <<edits, saved>>

(* Mutant: the error is printed and not returned.                          *)
GiveUpSilently(p) ==
  /\ pc[p] \in {"stat", "read", "create"}
  /\ Exit(p, "ok")
  /\ Forget(p)
  /\ UNCHANGED <<files, edits, saved>>

(* Stat, ReadFile or CreateTemp failed, the first because .env is missing, *)
(* say.                                                                    *)
GiveUp(p) ==
  /\ pc[p] \in {"stat", "read", "create"}
  /\ Exit(p, "error")
  /\ Forget(p)
  /\ UNCHANGED <<files, edits, saved>>

(* Mutant: nothing removes the temporary file.                             *)
AbandonTemp(p) ==
  /\ pc[p] \in {"write", "chmod", "rename"}
  /\ Exit(p, "error")
  /\ Forget(p)
  /\ UNCHANGED <<files, edits, saved>>

(* A later call failed: the deferred Remove takes the temporary file away. *)
(* A kill behind the Remove leaves what a kill before CreateTemp would.    *)
Abandon(p) ==
  /\ pc[p] \in {"write", "chmod", "rename"}
  /\ Exit(p, "error")
  /\ Forget(p)
  /\ Removed(run[p])
  /\ UNCHANGED <<edits, saved>>

(* Killed at any step, the rename behind it or not, or by a SIGPIPE at the *)
(* record of the success: what is on the disk stays.                       *)
SecretKilled(p) ==
  /\ job[p].command = "jwt:secret"
  /\ Exit(p, "died")
  /\ Forget(p)
  /\ UNCHANGED <<files, edits, saved>>

SecretStep(p) ==
  \/ Show(p) \/ Stat(p) \/ Read(p) \/ CreateTemp(p) \/ Write(p)
  \/ Chmod(p) \/ Rename(p) \/ Succeeds(p) \/ GiveUp(p) \/ Abandon(p) \/ SecretKilled(p)

-----------------------------------------------------------------------------
(* .env is never a file that was written in part, whatever fails and       *)
(* whoever is killed: "a failure part way through cannot leave a           *)
(* half-written .env behind" (replaceFile).                                *)
EnvWhole == Exists(Env) => files[Env].text # Cut

(* In a step: the secret of p's run comes into .env.                       *)
Puts(p) == Issued(p) /\ (Exists(Env) => files[Env].text.secret # run[p])

(* A run that reports success has put its secret into .env, unless it was  *)
(* to show it only, whatever became of .env since; one that reports an     *)
(* error has not, at any time.  A killed run may have done either, and the *)
(* temporary file, which holds a secret, outlives no other run: not one    *)
(* that returns (the deferred Remove of replaceFile), nor one whose secret *)
(* has come into .env.                                                     *)
OutcomeTold ==
  [][\A p \in Process : job[p].command = "jwt:secret" /\ pc'[p] = "idle" =>
       /\ Ended(p, "ok") => (draft[p].issued <=> ~Given(p, "show"))
       /\ Ended(p, "error") => ~draft[p].issued
       /\ run[p] \in DOMAIN files' => Ended(p, "died") /\ ~draft[p].issued]_<<shellVars, envVars>>

(* Without --force a secret in use is replaced only if it came into .env   *)
(* after the run had looked there: "Replacing a live secret invalidates    *)
(* every issued token, so it needs --force" (secret_test.go).              *)
LiveSecretKept ==
  [][\A p \in Process :
       Puts(p) /\ ~Given(p, "force") /\ ~draft[p].stale => files[Env].text.secret = 0]_<<shellVars, envVars>>

(* A run changes its own line only; the rest of .env and its mode change   *)
(* with it only if somebody changed .env after the run had looked there.   *)
OnlyOverlapLoses ==
  [][\A p \in Process : Puts(p) /\ ~draft[p].stale =>
       /\ Exists(Env)
       /\ files'[Env].text.app = files[Env].text.app
       /\ files'[Env].mode = files[Env].mode]_<<shellVars, envVars>>

=============================================================================
