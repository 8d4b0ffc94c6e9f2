--------------------------- MODULE Console_proofs ---------------------------
(***************************************************************************)
(* Proofs about the console, for any number of terminals, runs and edits:  *)
(* what jwt:secret does to .env and its directory, and what db:seed does   *)
(* to the tables, whatever fails or is killed and whatever runs beside it. *)
(***************************************************************************)
EXTENDS Console, TLAPS

TempSteps == {"write", "chmod", "rename"}
Editing == {"create"} \cup TempSteps

USE DEF SecretSteps, SeedSteps, TempSteps, Editing

-----------------------------------------------------------------------------
(* Every process runs a step of its own command under a number of its own. *)
ShellInv ==
  /\ pc \in [Process -> {"idle"} \cup SecretSteps \cup SeedSteps]
  /\ job \in [Process -> Jobs]
  /\ run \in [Process -> Nat]
  /\ exit \in {"ok", "error", "died"}
  /\ runs \in Nat /\ runs <= MaxRuns
  /\ \A p \in Process :
       /\ pc[p] = "idle" <=> run[p] = 0
       /\ run[p] <= runs
       /\ pc[p] \in SecretSteps => job[p].command = "jwt:secret"
       /\ pc[p] \in SeedSteps => job[p].command = "db:seed"
       /\ pc[p] = "idle" => job[p].command = "none"
  /\ \A p, q \in Process : run[p] = run[q] /\ run[p] # 0 => p = q

(* What another process sees of a step of p: nothing of its own changes.   *)
OnlyShell(p) ==
  \A q \in Process \ {p} : pc'[q] = pc[q] /\ run'[q] = run[q] /\ job'[q] = job[q]

(* A command starts, at one of its own steps and under a new number.       *)
LEMMA BeginKeeps ==
  ASSUME ShellInv, NEW p \in Process, NEW flags \in SUBSET Flags, NEW first, NEW command,
         \/ command = "jwt:secret" /\ first \in SecretSteps
         \/ command = "db:seed" /\ first \in SeedSteps,
         Begin(p, command, flags, first)
  PROVE  /\ ShellInv' /\ OnlyShell(p)
         /\ pc'[p] = first /\ run'[p] = runs + 1 /\ runs' = runs + 1
         /\ job'[p] = [command |-> command, flags |-> flags]
<1> USE DEF ShellInv, Begin, Running, Jobs
<1>1. /\ OnlyShell(p)
      /\ pc'[p] = first /\ run'[p] = runs + 1 /\ runs' = runs + 1
      /\ job'[p] = [command |-> command, flags |-> flags]
  BY DEF OnlyShell
<1>2. runs' \in Nat /\ runs' <= MaxRuns
  BY ShellAssumption
<1>3. job' \in [Process -> Jobs] /\ exit' \in {"ok", "error", "died"}
  OBVIOUS
<1>4. pc' \in [Process -> {"idle"} \cup SecretSteps \cup SeedSteps] /\ run' \in [Process -> Nat]
  OBVIOUS
<1>5. \A a, b \in Process : run'[a] = run'[b] /\ run'[a] # 0 => a = b
  OBVIOUS
<1>6. ASSUME NEW q \in Process
      PROVE  /\ pc'[q] = "idle" <=> run'[q] = 0
             /\ run'[q] <= runs'
             /\ pc'[q] \in SecretSteps => job'[q].command = "jwt:secret"
             /\ pc'[q] \in SeedSteps => job'[q].command = "db:seed"
             /\ pc'[q] = "idle" => job'[q].command = "none"
  <2>1. CASE q = p
    BY <2>1, <1>1
  <2>2. CASE q # p
    BY <2>2, <1>1 DEF OnlyShell
  <2> QED
    BY <2>1, <2>2
<1> QED
  BY <1>1, <1>2, <1>3, <1>4, <1>5, <1>6

(* Handle goes on with another step of the same command.                   *)
LEMMA GotoKeeps ==
  ASSUME ShellInv, NEW p \in Process, NEW next,
         \/ pc[p] \in SecretSteps /\ next \in SecretSteps
         \/ pc[p] \in SeedSteps /\ next \in SeedSteps,
         Goto(p, next)
  PROVE  /\ ShellInv' /\ OnlyShell(p)
         /\ pc'[p] = next /\ run' = run /\ job' = job /\ runs' = runs
BY DEF ShellInv, Goto, OnlyShell

LEMMA ExitKeeps ==
  ASSUME ShellInv, NEW p \in Process, NEW how \in {"ok", "error", "died"}, Exit(p, how)
  PROVE  /\ ShellInv' /\ OnlyShell(p)
         /\ pc'[p] = "idle" /\ run'[p] = 0 /\ runs' = runs
BY DEF ShellInv, Exit, OnlyShell, NoJob, Jobs, Flags

-----------------------------------------------------------------------------
(* The directory: names are .env and numbers of runs, and .env is whole.   *)
(* Its secret is older than the runs to come, or the operator's own.       *)
FilesInv ==
  /\ DOMAIN files \subseteq 0 .. runs
  /\ \A n \in DOMAIN files : files[n] \in File
  /\ Exists(Env) =>
       /\ files[Env].text \in Text
       /\ files[Env].text.secret <= runs \/ files[Env].text.secret > MaxRuns
  /\ draft \in [Process -> Draft]
  /\ edits \in Nat
  /\ saved \in {"local", "production", "lost"}
  /\ saved \in {AppEnv, "lost"}

(* Process q: its temporary file is there exactly while it works on it,    *)
(* and holds its draft once written; its secret is in no .env before the   *)
(* rename; and what it knows of .env is true unless .env has changed.      *)
Owns(q) ==
  /\ pc[q] \in TempSteps <=> run[q] # 0 /\ run[q] \in DOMAIN files
  /\ pc[q] \notin {"idle", "return"} /\ Exists(Env) => files[Env].text.secret # run[q]
  /\ draft[q].issued <=> pc[q] = "return"
  /\ pc[q] \in Editing => draft[q].text \in Text /\ draft[q].text.secret = run[q]
  /\ pc[q] \in {"chmod", "rename"} => files[run[q]].text = draft[q].text
  /\ pc[q] = "rename" => files[run[q]].mode = draft[q].mode

Knows(q) ==
  Looked(q) /\ ~draft[q].stale =>
    /\ Exists(Env)
    /\ draft[q].mode = files[Env].mode
    /\ pc[q] \in Editing =>
         /\ draft[q].text.app = files[Env].text.app
         /\ "force" \notin job[q].flags => files[Env].text.secret = 0

FileInv == ShellInv /\ FilesInv /\ \A q \in Process : Owns(q) /\ Knows(q)

LEMMA FileInit == Init => FileInv
<1> SUFFICES ASSUME Init PROVE FileInv
  OBVIOUS
<1> USE DEF Init, ShellInit, EnvInit
<1>1. ShellInv
  BY ShellAssumption DEF ShellInv, NoJob, Jobs, Flags
<1>2. FilesInv
  BY DEF FilesInv, Exists, Env, AppEnv, Blank, Draft, Modes, Text, Cut, File
<1>3. ASSUME NEW q \in Process PROVE Owns(q) /\ Knows(q)
  BY <1>3 DEF Owns, Knows, Looked, Exists, Blank
<1> QED
  BY <1>1, <1>2, <1>3 DEF FileInv

(* A step of p outside .env leaves to the others what they own and know.   *)
LEMMA OthersKeep ==
  ASSUME FileInv, NEW p \in Process, NEW q \in Process \ {p}, OnlyShell(p),
         draft'[q] = draft[q],
         \A n \in {Env, run[q]} :
           /\ n \in DOMAIN files' <=> n \in DOMAIN files
           /\ n \in DOMAIN files => files'[n] = files[n]
  PROVE  (Owns(q) /\ Knows(q))'
<1>1. pc'[q] = pc[q] /\ run'[q] = run[q] /\ job'[q] = job[q]
  BY DEF OnlyShell
<1>2. Owns(q) /\ Knows(q)
  BY DEF FileInv
<1>3. Owns(q)'
  BY <1>1, <1>2 DEF Owns, Exists, Env
<1>4. Knows(q)'
  BY <1>1, <1>2 DEF Knows, Exists, Env, Looked
<1> QED
  BY <1>3, <1>4

(* When .env changes, the others know nothing any more.                    *)
LEMMA OthersOutdated ==
  ASSUME FileInv, NEW q \in Process,
         pc'[q] = pc[q], run'[q] = run[q], job'[q] = job[q],
         draft'[q] = [draft[q] EXCEPT !.stale = @ \/ Looked(q), !.issued = @ \/ Issued(q)],
         Exists(Env)' /\ pc[q] \notin {"idle", "return"} => files'[Env].text.secret # run[q],
         run[q] # 0 => /\ run[q] \in DOMAIN files' <=> run[q] \in DOMAIN files
                       /\ run[q] \in DOMAIN files => files'[run[q]] = files[run[q]]
  PROVE  (Owns(q) /\ Knows(q))'
<1>1. draft[q] \in Draft /\ Owns(q)
  BY DEF FileInv, FilesInv
<1>2. draft'[q].mode = draft[q].mode /\ draft'[q].text = draft[q].text
  BY <1>1 DEF Draft
<1>3. Looked(q) => draft'[q].stale
  BY <1>1 DEF Draft
<1>4. Looked(q)' <=> Looked(q)
  BY DEF Looked
<1>5. draft'[q].issued <=> pc'[q] = "return"
  <2>1. Issued(q) => pc[q] = "return"
    BY DEF Issued, Running, Exists
  <2>2. draft'[q].issued = (draft[q].issued \/ Issued(q))
    BY <1>1 DEF Draft
  <2> QED
    BY <1>1, <2>1, <2>2 DEF Owns
<1>6. Owns(q)'
  BY <1>1, <1>2, <1>5 DEF Owns
<1> QED
  BY <1>3, <1>4, <1>6 DEF Knows

(* A command that starts: no file bears the number of its run.             *)
LEMMA StartKeeps ==
  ASSUME FileInv, NEW p \in Process, NEW flags \in SUBSET Flags, NEW first, NEW command,
         \/ command = "jwt:secret" /\ first \in {"show", "stat"}
         \/ command = "db:seed" /\ first \in SeedSteps,
         Begin(p, command, flags, first), UNCHANGED envVars
  PROVE  FileInv'
<1>1. /\ ShellInv' /\ OnlyShell(p)
      /\ pc'[p] = first /\ run'[p] = runs + 1 /\ runs' = runs + 1
  <2>1. \/ command = "jwt:secret" /\ first \in SecretSteps
        \/ command = "db:seed" /\ first \in SeedSteps
    OBVIOUS
  <2> QED
    BY <2>1, BeginKeeps DEF FileInv
<1>2. runs \in Nat /\ MaxRuns \in Nat /\ runs' <= MaxRuns
  BY <1>1, ShellAssumption DEF FileInv, ShellInv
<1>3. FilesInv'
  <2>1. 0 .. runs \subseteq 0 .. runs'
    BY <1>1, <1>2
  <2>2. Exists(Env) => (files[Env].text.secret <= runs => files[Env].text.secret <= runs')
    BY <1>1, <1>2 DEF FileInv, FilesInv, Text
  <2>3. UNCHANGED <<files, draft, edits, saved>>
    BY DEF envVars
  <2> QED
    BY <2>1, <2>2, <2>3 DEF FileInv, FilesInv, Exists, AppEnv
<1>4. Owns(p)' /\ Knows(p)'
  <2>1. pc[p] = "idle" /\ Owns(p)
    BY DEF FileInv, Begin, Running
  <2>2. ~draft'[p].issued
    BY <2>1 DEF Owns, envVars
  <2> QED
    BY <1>1, <1>2, <2>2 DEF FileInv, FilesInv, Owns, Knows, Looked, envVars, Exists, Env, Text
<1>5. ASSUME NEW q \in Process \ {p} PROVE (Owns(q) /\ Knows(q))'
  BY <1>1, OthersKeep DEF envVars
<1> QED
  BY <1>1, <1>3, <1>4, <1>5 DEF FileInv

(* A step that leaves the directory alone: a goto that learns nothing, or  *)
(* an exit of a process without a temporary file.                          *)
LEMMA StillKeeps ==
  ASSUME FileInv, NEW p \in Process, ShellInv', OnlyShell(p), runs' = runs,
         UNCHANGED <<files, edits, saved>>,
         draft' \in [Process -> Draft],
         \A q \in Process \ {p} : draft'[q] = draft[q],
         (Owns(p) /\ Knows(p))'
  PROVE  FileInv'
<1>1. FilesInv'
  BY DEF FileInv, FilesInv, Exists, AppEnv
<1>2. ASSUME NEW q \in Process \ {p} PROVE (Owns(q) /\ Knows(q))'
  BY OthersKeep
<1> QED
  BY <1>1, <1>2 DEF FileInv

(* A process that has left owns nothing and knows nothing.                 *)
LEMMA LeftKeeps ==
  ASSUME FileInv, NEW p \in Process, ShellInv', pc'[p] = "idle", ~draft'[p].issued
  PROVE  (Owns(p) /\ Knows(p))'
<1>1. run'[p] = 0
  BY DEF ShellInv
<1> QED
  BY <1>1 DEF Owns, Knows, Looked

LEMMA BlankDraft == Blank \in Draft /\ ~Blank.issued
BY DEF Blank, Draft, Modes

(* jwt:secret, as long as it has no temporary file.                        *)
LEMMA LookingKeeps ==
  ASSUME FileInv, NEW p \in Process,
         Show(p) \/ Stat(p) \/ Read(p) \/ GiveUp(p) \/ SecretKilled(p)
  PROVE  FileInv'
<1>d. draft \in [Process -> Draft]
  BY DEF FileInv, FilesInv
<1>e. ASSUME NEW how \in {"ok", "error", "died"}, Exit(p, how), UNCHANGED <<files, edits, saved>>,
             (pc[p] = "show" /\ draft' = draft) \/ Forget(p)
      PROVE  FileInv'
  <2>1. ShellInv' /\ OnlyShell(p) /\ pc'[p] = "idle" /\ runs' = runs
    BY <1>e, ExitKeeps DEF FileInv
  <2>3. /\ draft' \in [Process -> Draft] /\ ~draft'[p].issued
        /\ \A q \in Process \ {p} : draft'[q] = draft[q]
    BY <1>d, <1>e, BlankDraft DEF Forget, FileInv, Owns
  <2>2. (Owns(p) /\ Knows(p))'
    BY <2>1, <2>3, LeftKeeps
  <2> QED
    BY <1>e, <2>1, <2>2, <2>3, StillKeeps
<1>1. CASE Show(p)
  BY <1>1, <1>e DEF Show, envVars
<1>2. CASE GiveUp(p)
  BY <1>2, <1>e DEF GiveUp
<1>3. CASE SecretKilled(p)
  BY <1>3, <1>e DEF SecretKilled
<1>4. CASE Stat(p)
  <2>1. pc[p] = "stat" /\ Goto(p, "read") /\ UNCHANGED <<files, edits, saved>>
    BY <1>4 DEF Stat
  <2>2. ShellInv' /\ OnlyShell(p) /\ pc'[p] = "read" /\ run' = run /\ runs' = runs
    BY <2>1, GotoKeeps DEF FileInv
  <2>3. Exists(Env) /\ files[Env] \in File
    BY <1>4 DEF Stat, FileInv, FilesInv, Exists
  <2>4. draft' = [draft EXCEPT ![p].mode = files[Env].mode] /\ files[Env].mode \in Modes
    BY <1>4, <2>3 DEF Stat, File
  <2>5. /\ draft' \in [Process -> Draft]
        /\ draft'[p].mode = files[Env].mode /\ draft'[p].issued = draft[p].issued
        /\ \A q \in Process \ {p} : draft'[q] = draft[q]
    BY <1>d, <2>4 DEF Draft
  <2>6. Owns(p)
    BY DEF FileInv
  <2>7. Owns(p)'
    BY <2>1, <2>2, <2>5, <2>6 DEF Owns, Exists
  <2>8. Knows(p)'
    BY <2>1, <2>2, <2>3, <2>5 DEF Knows, Exists
  <2> QED
    BY <2>1, <2>2, <2>5, <2>7, <2>8, StillKeeps
<1>5. CASE Read(p)
  <2>1. CASE files[Env].text.secret # 0 /\ ~Given(p, "force")
    BY <1>5, <2>1, <1>e DEF Read
  <2>2. CASE ~(files[Env].text.secret # 0 /\ ~Given(p, "force"))
    <3>1. /\ pc[p] = "read" /\ Goto(p, "create") /\ UNCHANGED <<files, edits, saved>>
          /\ draft' = [draft EXCEPT ![p].text = Edited(p)] /\ Exists(Env)
      BY <1>5, <2>2 DEF Read
    <3>2. /\ ShellInv' /\ OnlyShell(p)
          /\ pc'[p] = "create" /\ run' = run /\ job' = job /\ runs' = runs
      BY <3>1, GotoKeeps DEF FileInv
    <3>3. files[Env].text \in Text /\ run[p] \in Nat
      BY <3>1 DEF FileInv, FilesInv, ShellInv
    <3>4. /\ Edited(p) \in Text /\ Edited(p).secret = run[p]
          /\ Edited(p).app = files[Env].text.app
      BY <3>3 DEF Edited, Text
    <3>5. /\ draft' \in [Process -> Draft]
          /\ draft'[p].mode = draft[p].mode
          /\ draft'[p].stale = draft[p].stale /\ draft'[p].issued = draft[p].issued
          /\ draft'[p].text = Edited(p)
          /\ \A q \in Process \ {p} : draft'[q] = draft[q]
      BY <1>d, <3>1, <3>4 DEF Draft
    <3>6. Owns(p) /\ Knows(p)
      BY DEF FileInv
    <3>7. Owns(p)'
      BY <3>1, <3>2, <3>4, <3>5, <3>6 DEF Owns, Exists
    <3>8. Knows(p)'
      BY <2>2, <3>1, <3>2, <3>4, <3>5, <3>6 DEF Knows, Exists, Looked, Given
    <3> QED
      BY <3>1, <3>2, <3>5, <3>7, <3>8, StillKeeps
  <2> QED
    BY <2>1, <2>2
<1> QED
  BY <1>1, <1>2, <1>3, <1>4, <1>5

(* A running process has a number that is neither .env nor another's.      *)
LEMMA NumberOwn ==
  ASSUME ShellInv, NEW p \in Process, pc[p] # "idle"
  PROVE  /\ run[p] \in 1 .. runs /\ run[p] # Env
         /\ \A q \in Process \ {p} : run[q] # run[p]
BY DEF ShellInv, Env

(* A step that changes nothing but the process's own temporary file.       *)
LEMMA TempKeeps ==
  ASSUME FileInv, NEW p \in Process, pc[p] # "idle",
         ShellInv', OnlyShell(p), runs' = runs, UNCHANGED <<edits, saved>>,
         DOMAIN files' \subseteq DOMAIN files \cup {run[p]},
         \A n \in DOMAIN files \ {run[p]} : n \in DOMAIN files' /\ files'[n] = files[n],
         run[p] \in DOMAIN files' => files'[run[p]] \in File,
         draft' \in [Process -> Draft],
         \A q \in Process \ {p} : draft'[q] = draft[q],
         (Owns(p) /\ Knows(p))'
  PROVE  FileInv'
<1>1. run[p] \in 1 .. runs /\ run[p] # Env /\ \A q \in Process \ {p} : run[q] # run[p]
  BY NumberOwn DEF FileInv
<1>2. runs \in Nat
  BY DEF FileInv, ShellInv
<1>3. /\ DOMAIN files' \subseteq 0 .. runs'
      /\ \A n \in DOMAIN files' : files'[n] \in File
  BY <1>1, <1>2 DEF FileInv, FilesInv
<1>4. /\ Exists(Env)' <=> Exists(Env)
      /\ Exists(Env) => files'[Env] = files[Env]
  BY <1>1 DEF Exists, Env
<1>5. FilesInv'
  BY <1>3, <1>4 DEF FileInv, FilesInv, AppEnv
<1>6. ASSUME NEW q \in Process \ {p} PROVE (Owns(q) /\ Knows(q))'
  <2>1. \A n \in {Env, run[q]} :
           /\ n \in DOMAIN files' <=> n \in DOMAIN files
           /\ n \in DOMAIN files => files'[n] = files[n]
    BY <1>1
  <2> QED
    BY <2>1, OthersKeep
<1> QED
  BY <1>5, <1>6 DEF FileInv

LEMMA WritingKeeps ==
  ASSUME FileInv, NEW p \in Process,
         CreateTemp(p) \/ Write(p) \/ Chmod(p) \/ Abandon(p) \/ Succeeds(p)
  PROVE  FileInv'
<1>d. draft \in [Process -> Draft] /\ Owns(p) /\ Knows(p)
  BY DEF FileInv, FilesInv
<1>p. pc[p] # "idle"
  BY DEF CreateTemp, Write, Chmod, Abandon, Succeeds
<1>r. run[p] # Env /\ run[p] # 0
  BY <1>p, NumberOwn DEF FileInv, Env
<1>f. \A n \in DOMAIN files : files[n] \in File
  BY DEF FileInv, FilesInv
<1>1. CASE CreateTemp(p)
  <2>1. /\ pc[p] = "create" /\ Goto(p, "write") /\ UNCHANGED <<draft, edits, saved>>
        /\ Placed(run[p], [text |-> Cut, mode |-> "private"])
    BY <1>1 DEF CreateTemp
  <2>2. /\ ShellInv' /\ OnlyShell(p)
        /\ pc'[p] = "write" /\ run' = run /\ job' = job /\ runs' = runs
    BY <2>1, GotoKeeps DEF FileInv
  <2>3. /\ DOMAIN files' = DOMAIN files \cup {run[p]}
        /\ \A n \in DOMAIN files \ {run[p]} : n \in DOMAIN files' /\ files'[n] = files[n]
        /\ files'[run[p]] \in File
    BY <2>1 DEF Placed, File, Modes
  <2>4. Owns(p)' /\ Knows(p)'
    BY <1>d, <1>r, <2>1, <2>2, <2>3 DEF Owns, Knows, Exists, Looked
  <2> QED
    BY <1>d, <1>p, <2>1, <2>2, <2>3, <2>4, TempKeeps
<1>2. CASE Write(p)
  <2>1. /\ pc[p] = "write" /\ Goto(p, "chmod") /\ UNCHANGED <<draft, edits, saved>>
        /\ files' = [files EXCEPT ![run[p]].text = draft[p].text]
    BY <1>2 DEF Write
  <2>2. /\ ShellInv' /\ OnlyShell(p)
        /\ pc'[p] = "chmod" /\ run' = run /\ job' = job /\ runs' = runs
    BY <2>1, GotoKeeps DEF FileInv
  <2>3. run[p] \in DOMAIN files /\ files[run[p]] \in File /\ draft[p].text \in Text
    BY <1>d, <1>f, <2>1 DEF Owns
  <2>4. /\ DOMAIN files' = DOMAIN files
        /\ \A n \in DOMAIN files \ {run[p]} : files'[n] = files[n]
        /\ files'[run[p]] \in File /\ files'[run[p]].text = draft[p].text
    BY <2>1, <2>3 DEF File
  <2>5. Owns(p)' /\ Knows(p)'
    BY <1>d, <1>r, <2>1, <2>2, <2>4 DEF Owns, Knows, Exists, Looked
  <2> QED
    BY <1>d, <1>p, <2>1, <2>2, <2>4, <2>5, TempKeeps
<1>3. CASE Chmod(p)
  <2>1. /\ pc[p] = "chmod" /\ Goto(p, "rename") /\ UNCHANGED <<draft, edits, saved>>
        /\ files' = [files EXCEPT ![run[p]].mode = draft[p].mode]
    BY <1>3 DEF Chmod
  <2>2. /\ ShellInv' /\ OnlyShell(p)
        /\ pc'[p] = "rename" /\ run' = run /\ job' = job /\ runs' = runs
    BY <2>1, GotoKeeps DEF FileInv
  <2>3. run[p] \in DOMAIN files /\ files[run[p]] \in File /\ draft[p].mode \in Modes
    BY <1>d, <1>f, <2>1 DEF Owns, Draft
  <2>4. /\ DOMAIN files' = DOMAIN files
        /\ \A n \in DOMAIN files \ {run[p]} : files'[n] = files[n]
        /\ files'[run[p]] \in File /\ files'[run[p]].text = files[run[p]].text
        /\ files'[run[p]].mode = draft[p].mode
    BY <2>1, <2>3 DEF File
  <2>5. Owns(p)' /\ Knows(p)'
    BY <1>d, <1>r, <2>1, <2>2, <2>4 DEF Owns, Knows, Exists, Looked
  <2> QED
    BY <1>d, <1>p, <2>1, <2>2, <2>4, <2>5, TempKeeps
<1>4. CASE Abandon(p) \/ Succeeds(p)
  <2>1. PICK how \in {"ok", "error"} :
          Exit(p, how) /\ Forget(p) /\ Removed(run[p]) /\ UNCHANGED <<edits, saved>>
    BY <1>4 DEF Abandon, Succeeds
  <2>2. ShellInv' /\ OnlyShell(p) /\ pc'[p] = "idle" /\ runs' = runs
    BY <2>1, ExitKeeps DEF FileInv
  <2>4. /\ DOMAIN files' = DOMAIN files \ {run[p]}
        /\ \A n \in DOMAIN files \ {run[p]} : n \in DOMAIN files' /\ files'[n] = files[n]
    BY <2>1 DEF Removed
  <2>5. /\ draft' \in [Process -> Draft] /\ ~draft'[p].issued
        /\ \A q \in Process \ {p} : draft'[q] = draft[q]
    BY <1>d, <2>1, BlankDraft DEF Forget
  <2>3. (Owns(p) /\ Knows(p))'
    BY <2>2, <2>5, LeftKeeps
  <2> QED
    BY <1>p, <2>1, <2>2, <2>3, <2>4, <2>5, TempKeeps
<1> QED
  BY <1>1, <1>2, <1>3, <1>4

(* What is known of the drafts when .env has changed.                      *)
LEMMA NoticedDrafts ==
  ASSUME FileInv, Noticed
  PROVE  /\ draft' \in [Process -> Draft]
         /\ \A q \in Process :
              draft'[q] = [draft[q] EXCEPT !.stale = @ \/ Looked(q), !.issued = @ \/ Issued(q)]
<1>1. draft \in [Process -> Draft]
  BY DEF FileInv, FilesInv
<1>2. ASSUME NEW q \in Process
      PROVE  [draft[q] EXCEPT !.stale = @ \/ Looked(q), !.issued = @ \/ Issued(q)] \in Draft
  <2>1. /\ draft[q] \in Draft
        /\ (draft[q].stale \/ Looked(q)) \in BOOLEAN /\ (draft[q].issued \/ Issued(q)) \in BOOLEAN
    BY <1>1
  <2> QED
    BY <2>1 DEF Draft
<1> QED
  BY <1>2 DEF Noticed

LEMMA RenameKeeps ==
  ASSUME FileInv, NEW p \in Process, Rename(p)
  PROVE  FileInv'
<1>1. /\ pc[p] = "rename" /\ Goto(p, "return") /\ edits' = edits /\ Noticed
      /\ files' = [n \in (DOMAIN files \cup {Env}) \ {run[p]} |->
                      IF n = Env THEN files[run[p]] ELSE files[n]]
      /\ saved' = IF draft[p].stale /\ files[run[p]].text.app # AppEnv THEN "lost" ELSE saved
  BY DEF Rename
<1>2. ShellInv' /\ OnlyShell(p) /\ pc'[p] = "return" /\ runs' = runs /\ run' = run
  BY <1>1, GotoKeeps DEF FileInv
<1>3. run[p] \in 1 .. runs /\ run[p] # Env /\ \A q \in Process \ {p} : run[q] # run[p]
  BY <1>1, NumberOwn DEF FileInv
<1>4. /\ run[p] \in DOMAIN files /\ files[run[p]] \in File
      /\ files[run[p]].text = draft[p].text
      /\ draft[p].text \in Text /\ draft[p].text.secret = run[p]
  BY <1>1 DEF FileInv, FilesInv, Owns
<1>5. /\ DOMAIN files' = (DOMAIN files \cup {Env}) \ {run[p]}
      /\ files'[Env] = files[run[p]] /\ Env \in DOMAIN files'
      /\ \A n \in DOMAIN files \ {Env, run[p]} : files'[n] = files[n]
  BY <1>1, <1>3
<1>6. /\ draft' \in [Process -> Draft]
      /\ \A q \in Process :
           draft'[q] = [draft[q] EXCEPT !.stale = @ \/ Looked(q), !.issued = @ \/ Issued(q)]
  BY <1>1, NoticedDrafts
<1>7. FilesInv'
  <2>1. runs \in Nat
    BY DEF FileInv, ShellInv
  <2>2. DOMAIN files' \subseteq 0 .. runs' /\ \A n \in DOMAIN files' : files'[n] \in File
    BY <1>2, <1>4, <1>5, <2>1 DEF FileInv, FilesInv, Env
  <2>3. files'[Env].text \in Text /\ files'[Env].text.secret <= runs'
    BY <1>2, <1>3, <1>4, <1>5
  <2>4. AppEnv' = files[run[p]].text.app
    BY <1>5 DEF AppEnv, Exists
  <2>5. ~draft[p].stale => files[run[p]].text.app = AppEnv
    BY <1>1, <1>4 DEF FileInv, Knows, Looked, AppEnv
  <2>6. saved' \in {"local", "production", "lost"} /\ saved' \in {AppEnv', "lost"}
    BY <1>1, <2>4, <2>5 DEF FileInv, FilesInv
  <2> QED
    BY <1>1, <1>6, <2>2, <2>3, <2>6 DEF FileInv, FilesInv
<1>8. (Owns(p) /\ Knows(p))'
  <2>1. draft[p] \in Draft
    BY DEF FileInv, FilesInv
  <2>2. Issued(p)
    BY <1>1, <1>4, <1>5 DEF Issued, Running
  <2>3. draft'[p].issued
    BY <1>6, <2>1, <2>2 DEF Draft
  <2> QED
    BY <1>2, <1>5, <2>3 DEF Owns, Knows, Looked
<1>9. ASSUME NEW q \in Process \ {p} PROVE (Owns(q) /\ Knows(q))'
  <2>1. pc'[q] = pc[q] /\ run'[q] = run[q] /\ job'[q] = job[q]
    BY <1>2 DEF OnlyShell
  <2>2. files'[Env].text.secret # run[q]
    BY <1>3, <1>4, <1>5
  <2>3. run[q] # 0 => /\ run[q] \in DOMAIN files' <=> run[q] \in DOMAIN files
                      /\ run[q] \in DOMAIN files => files'[run[q]] = files[run[q]]
    BY <1>3, <1>5 DEF Env
  <2> QED
    BY <1>6, <2>1, <2>2, <2>3, OthersOutdated
<1> QED
  BY <1>2, <1>7, <1>8, <1>9 DEF FileInv

LEMMA OperatorKeeps == FileInv /\ Operator => FileInv'
<1> SUFFICES ASSUME FileInv, Operator PROVE FileInv'
  OBVIOUS
<1>1. /\ UNCHANGED <<pc, job, run, exit, runs>> /\ Noticed
      /\ edits' = edits + 1
  BY DEF Operator, shellVars
<1>2. ShellInv'
  BY <1>1 DEF FileInv, ShellInv
<1>n. edits' \in Nat
  BY <1>1 DEF FileInv, FilesInv
<1>3. /\ draft' \in [Process -> Draft]
      /\ \A q \in Process :
           draft'[q] = [draft[q] EXCEPT !.stale = @ \/ Looked(q), !.issued = @ \/ Issued(q)]
  BY <1>1, NoticedDrafts
<1>4. runs \in Nat /\ MaxRuns \in Nat /\ MaxEdits \in Nat /\ edits \in Nat /\ runs <= MaxRuns
  BY ShellAssumption, EditAssumption DEF FileInv, ShellInv, FilesInv
<1>5. ASSUME \A n \in DOMAIN files \ {Env} : n \in DOMAIN files' /\ files'[n] = files[n],
             DOMAIN files' \subseteq DOMAIN files \cup {Env},
             Env \in DOMAIN files' =>
               /\ files'[Env] \in File /\ files'[Env].text \in Text
               /\ \/ files'[Env].text.secret \in {0, MaxRuns + edits + 1}
                  \/ Exists(Env) /\ files'[Env].text.secret = files[Env].text.secret,
             saved' = AppEnv', saved' \in {"local", "production"}
      PROVE  FileInv'
  <2>1. /\ DOMAIN files' \subseteq 0 .. runs' /\ \A n \in DOMAIN files' : files'[n] \in File
    BY <1>1, <1>4, <1>5 DEF FileInv, FilesInv, Env
  <2>2. Exists(Env)' => files'[Env].text.secret <= runs' \/ files'[Env].text.secret > MaxRuns
    BY <1>1, <1>4, <1>5 DEF FileInv, FilesInv, Exists
  <2>3. FilesInv'
    BY <1>3, <1>n, <1>5, <2>1, <2>2 DEF FilesInv, Exists
  <2>4. ASSUME NEW q \in Process PROVE (Owns(q) /\ Knows(q))'
    <3>1. Owns(q) /\ run[q] \in Nat /\ run[q] <= runs /\ (pc[q] = "idle" <=> run[q] = 0)
      BY DEF FileInv, ShellInv
    <3>2. Exists(Env)' /\ pc[q] \notin {"idle", "return"} => files'[Env].text.secret # run[q]
      BY <1>4, <1>5, <3>1 DEF Owns, Exists
    <3> QED
      BY <1>1, <1>3, <1>5, <3>2, OthersOutdated DEF Env
  <2> QED
    BY <1>2, <2>3, <2>4 DEF FileInv
<1>6. ASSUME NEW f \in File, f.text \in Text, Save(f) PROVE FileInv'
  <2>1. /\ DOMAIN files' = DOMAIN files \cup {Env} /\ files'[Env] = f
        /\ \A n \in DOMAIN files \ {Env} : n \in DOMAIN files' /\ files'[n] = files[n]
    BY <1>6 DEF Save, Placed
  <2>2. saved' = f.text.app /\ AppEnv' = f.text.app /\ f.text.app \in {"local", "production"}
    BY <1>6, <2>1 DEF Save, AppEnv, Exists, Text
  <2>3. \/ f.text.secret \in {0, MaxRuns + edits + 1}
        \/ Exists(Env) /\ f.text.secret = files[Env].text.secret
    BY <1>6 DEF Save
  <2> QED
    BY <1>6, <1>5, <2>1, <2>2, <2>3
<1>7. CASE Discard
  <2>1. /\ DOMAIN files' = DOMAIN files \ {Env}
        /\ \A n \in DOMAIN files \ {Env} : n \in DOMAIN files' /\ files'[n] = files[n]
        /\ saved' = "production"
    BY <1>7 DEF Discard, Removed
  <2>2. AppEnv' = "production"
    BY <2>1 DEF AppEnv, Exists
  <2> QED
    BY <1>5, <2>1, <2>2
<1>8. ASSUME ~Discard PROVE FileInv'
  <2>1. PICK a \in {"local", "production"}, m \in Modes, n \in 0 .. MaxRuns + MaxEdits :
          Save([text |-> [secret |-> n, app |-> a], mode |-> m])
    BY <1>8 DEF Operator
  <2>2. /\ [secret |-> n, app |-> a] \in Text
        /\ [text |-> [secret |-> n, app |-> a], mode |-> m] \in File
    BY <1>4 DEF Text, File
  <2> QED
    BY <1>6, <2>1, <2>2
<1> QED
  BY <1>7, <1>8

(* db:seed comes no nearer to .env than loading it.                        *)
LEMMA SeedingKeeps ==
  ASSUME FileInv, NEW p \in Process, SeedStep(p), UNCHANGED envVars
  PROVE  FileInv'
<1>e. UNCHANGED <<files, edits, saved>> /\ draft' = draft
  BY DEF envVars
<1>d. draft \in [Process -> Draft] /\ Owns(p)
  BY DEF FileInv, FilesInv
<1>0. pc[p] \in SeedSteps \/ (job[p].command = "db:seed" /\ pc[p] # "idle")
  BY DEF SeedStep, Confirm, Connect, FindUser, FindUserFails, InsertUser, UserSeeded, FindOwner,
         InsertEvent, EventSaved, SeedFails, SeedKilled, Leave, Exit, Running
<1>s. pc[p] \in SeedSteps
  BY <1>0 DEF FileInv, ShellInv
<1>1. ASSUME NEW how \in {"ok", "error", "died"}, Leave(p, how) PROVE FileInv'
  <2>1. ShellInv' /\ OnlyShell(p) /\ pc'[p] = "idle" /\ runs' = runs
    BY <1>1, ExitKeeps DEF FileInv, Leave
  <2>2. ~draft'[p].issued
    BY <1>e, <1>d, <1>s DEF Owns
  <2> QED
    BY <1>e, <1>d, <2>1, <2>2, LeftKeeps, StillKeeps
<1>2. ASSUME NEW next \in SeedSteps, Goto(p, next) PROVE FileInv'
  <2>1. /\ ShellInv' /\ OnlyShell(p)
        /\ pc'[p] = next /\ run' = run /\ job' = job /\ runs' = runs
    BY <1>s, <1>2, GotoKeeps DEF FileInv
  <2>2. (Owns(p) /\ Knows(p))'
    BY <1>s, <1>d, <1>e, <1>2, <2>1 DEF Owns, Knows, Exists, Looked
  <2> QED
    BY <1>d, <1>e, <2>1, <2>2, StillKeeps
<1>3. CASE UNCHANGED shellVars
  BY <1>3, <1>e DEF FileInv, ShellInv, FilesInv, Owns, Knows, Exists, AppEnv, Looked, shellVars
<1>4. CASE Confirm(p)
  BY <1>4, <1>1, <1>2 DEF Confirm, FirstStep
<1>5. CASE Connect(p)
  BY <1>5, <1>1, <1>3 DEF Connect
<1>6. CASE FindUser(p) \/ FindUserFails(p) \/ InsertUser(p) \/ FindOwner(p) \/ InsertEvent(p)
  BY <1>6, <1>2 DEF FindUser, FindUserFails, InsertUser, FindOwner, InsertEvent
<1>7. CASE UserSeeded(p) \/ EventSaved(p)
  BY <1>7, <1>1, <1>2 DEF UserSeeded, EventSaved
<1>8. CASE SeedFails(p) \/ SeedKilled(p)
  BY <1>8, <1>1 DEF SeedFails, SeedKilled
<1> QED
  BY <1>4, <1>5, <1>6, <1>7, <1>8 DEF SeedStep

(* What main starts.                                                       *)
LEMMA DispatchKeeps ==
  ASSUME FileInv, NEW p \in Process, Dispatch(p)
  PROVE  FileInv'
<1>1. ASSUME NEW flags \in {{}, {"force"}, {"show"}}, StartSecret(p, flags) PROVE FileInv'
  <2>1. flags \in SUBSET Flags
    BY DEF Flags
  <2> QED
    BY <1>1, <2>1, StartKeeps DEF StartSecret
<1>2. ASSUME NEW class \in {{}, {"users"}, {"events"}}, NEW force \in {{}, {"force"}},
             StartSeed(p, class \cup force, AppEnv, saved), UNCHANGED envVars
      PROVE  FileInv'
  <2>1. class \cup force \in SUBSET Flags
    BY DEF Flags
  <2> DEFINE first == IF Asks(AppEnv, class \cup force) THEN "confirm" ELSE FirstStep(class \cup force)
  <2>2. Begin(p, "db:seed", class \cup force, first)
    BY <1>2 DEF StartSeed
  <2>3. first \in SeedSteps
    BY DEF FirstStep
  <2> HIDE DEF first
  <2> QED
    BY <1>2, <2>1, <2>2, <2>3, StartKeeps
<1>3. ASSUME NotFound(p), UNCHANGED envVars PROVE FileInv'
  BY <1>3 DEF NotFound, envVars, FileInv, ShellInv, FilesInv, Owns, Knows, Exists, AppEnv, Looked
<1> QED
  BY <1>1, <1>2, <1>3 DEF Dispatch

LEMMA FileStep == FileInv /\ [Next]_vars => FileInv'
<1> SUFFICES ASSUME FileInv, [Next]_vars PROVE FileInv'
  OBVIOUS
<1>1. CASE UNCHANGED <<shellVars, envVars>>
  BY <1>1 DEF FileInv, ShellInv, FilesInv, Owns, Knows, Exists, AppEnv, Looked, shellVars, envVars
<1>2. CASE Operator
  BY <1>2, OperatorKeeps
<1>3. ASSUME NEW p \in Process, Dispatch(p) PROVE FileInv'
  BY <1>3, DispatchKeeps
<1>4. ASSUME NEW p \in Process, SecretStep(p) PROVE FileInv'
  BY <1>4, LookingKeeps, WritingKeeps, RenameKeeps DEF SecretStep
<1>5. ASSUME NEW p \in Process, SeedStep(p), UNCHANGED envVars PROVE FileInv'
  BY <1>5, SeedingKeeps
<1> QED
  BY <1>1, <1>2, <1>3, <1>4, <1>5 DEF Next, vars, Migrated

LEMMA FileInvariance == Spec => []FileInv
BY FileInit, FileStep, PTL DEF Spec

-----------------------------------------------------------------------------
(* Only its own steps move a process.                                      *)
LEMMA OwnSteps ==
  ASSUME ShellInv, Next, NEW p \in Process
  PROVE  \/ Dispatch(p)
         \/ SecretStep(p) /\ UNCHANGED seedVars
         \/ SeedStep(p) /\ UNCHANGED envVars
         \/ pc'[p] = pc[p] /\ run'[p] = run[p] /\ job'[p] = job[p]
<1> USE DEF ShellInv, shellVars
<1>1. CASE Operator \/ Migrated
  BY <1>1 DEF Operator, Migrated
<1>2. ASSUME NEW q \in Process \ {p}, Dispatch(q) PROVE pc'[p] = pc[p] /\ run'[p] = run[p] /\ job'[p] = job[p]
  BY <1>2 DEF Dispatch, StartSecret, StartSeed, NotFound, Begin
<1>3. ASSUME NEW q \in Process \ {p}, SecretStep(q) PROVE pc'[p] = pc[p] /\ run'[p] = run[p] /\ job'[p] = job[p]
  BY <1>3 DEF SecretStep, Show, Stat, Read, CreateTemp, Write, Chmod, Rename, Succeeds, GiveUp, Abandon,
              SecretKilled, Exit, Goto
<1>4. ASSUME NEW q \in Process \ {p}, SeedStep(q) PROVE pc'[p] = pc[p] /\ run'[p] = run[p] /\ job'[p] = job[p]
  BY <1>4 DEF SeedStep, Confirm, Connect, FindUser, FindUserFails, InsertUser, UserSeeded, FindOwner,
              InsertEvent, EventSaved, SeedFails, SeedKilled, Leave, Exit, Goto
<1> QED
  BY <1>1, <1>2, <1>3, <1>4 DEF Next

(* Which command's step it is follows from where the process is.           *)
LEMMA SeedStepAt ==
  ASSUME ShellInv, NEW p \in Process, SeedStep(p)
  PROVE  pc[p] \in SeedSteps
<1>1. pc[p] \in SeedSteps \/ (job[p].command = "db:seed" /\ pc[p] # "idle")
  BY DEF SeedStep, Confirm, Connect, FindUser, FindUserFails, InsertUser, UserSeeded, FindOwner,
         InsertEvent, EventSaved, SeedFails, SeedKilled, Leave, Exit, Running
<1> QED
  BY <1>1 DEF ShellInv

LEMMA SecretStepAt ==
  ASSUME ShellInv, NEW p \in Process, SecretStep(p)
  PROVE  pc[p] \in SecretSteps
<1>1. pc[p] \in SecretSteps \/ (job[p].command = "jwt:secret" /\ pc[p] # "idle")
  BY DEF SecretStep, Show, Stat, Read, CreateTemp, Write, Chmod, Rename, Succeeds, GiveUp, Abandon,
         SecretKilled, Exit, Running
<1> QED
  BY <1>1 DEF ShellInv

LEMMA DispatchAt ==
  ASSUME NEW p \in Process, Dispatch(p)
  PROVE  ~Running(p)
BY DEF Dispatch, StartSecret, StartSeed, NotFound, Begin

(* No step of jwt:secret but the rename touches .env.                      *)
LEMMA EnvKept ==
  ASSUME FileInv, NEW p \in Process, SecretStep(p), ~Rename(p)
  PROVE  (Exists(Env)' <=> Exists(Env)) /\ (Exists(Env) => files'[Env] = files[Env])
<1>1. pc[p] # "idle"
  BY SecretStepAt DEF FileInv
<1>2. run[p] # Env
  BY <1>1, NumberOwn DEF FileInv
<1> USE DEF Exists
<1>3. CASE UNCHANGED files
  BY <1>3
<1>4. CASE CreateTemp(p)
  BY <1>2, <1>4 DEF CreateTemp, Placed
<1>5. CASE Write(p) \/ Chmod(p)
  BY <1>2, <1>5 DEF Write, Chmod
<1>6. CASE Abandon(p) \/ Succeeds(p)
  BY <1>2, <1>6 DEF Abandon, Succeeds, Removed
<1> QED
  BY <1>3, <1>4, <1>5, <1>6 DEF SecretStep, Show, Stat, Read, GiveUp, SecretKilled, envVars

(* What the rename leaves.                                                 *)
LEMMA Renamed ==
  ASSUME FileInv, NEW p \in Process, Rename(p)
  PROVE  /\ Env \in DOMAIN files' /\ files'[Env] = files[run[p]]
         /\ files[run[p]].text = draft[p].text /\ files[run[p]].mode = draft[p].mode
         /\ draft[p].text.secret = run[p]
         /\ run[p] \in DOMAIN files /\ run[p] \notin DOMAIN files'
         /\ pc[p] = "rename"
         /\ Exists(Env) => files[Env].text.secret # run[p]
<1>1. /\ pc[p] = "rename"
      /\ files' = [n \in (DOMAIN files \cup {Env}) \ {run[p]} |->
                      IF n = Env THEN files[run[p]] ELSE files[n]]
  BY DEF Rename
<1>2. run[p] # Env
  BY <1>1, NumberOwn DEF FileInv
<1> QED
  BY <1>1, <1>2 DEF FileInv, Owns

(* A secret comes into .env by the rename of its own run, and no other way.*)
LEMMA PutsIsRename ==
  ASSUME FileInv, Next, NEW p \in Process
  PROVE  Puts(p) <=> Rename(p)
<1>1. ASSUME Puts(p), ~Rename(p) PROVE FALSE
  <2>1. pc[p] # "idle" /\ Env \in DOMAIN files' /\ files'[Env].text.secret = run[p]
    BY <1>1 DEF Puts, Issued, Running
  <2>2. Exists(Env) => files[Env].text.secret # run[p]
    BY <1>1 DEF Puts
  <2>3. CASE Operator
    <3>1. run[p] \in 1 .. runs /\ runs <= MaxRuns /\ MaxRuns \in Nat /\ edits \in Nat /\ runs \in Nat
      BY <2>1, NumberOwn, ShellAssumption DEF FileInv, FilesInv, ShellInv
    <3>2. ASSUME NEW f, Save(f) PROVE FALSE
      <4>1. files'[Env] = f
        BY <3>2 DEF Save, Placed
      <4>2. \/ f.text.secret \in {0, MaxRuns + edits + 1}
            \/ Exists(Env) /\ f.text.secret = files[Env].text.secret
        BY <3>2 DEF Save
      <4> QED
        BY <2>1, <2>2, <3>1, <4>1, <4>2
    <3>3. ~Discard
      BY <2>1 DEF Discard, Removed
    <3> QED
      BY <2>3, <3>2, <3>3 DEF Operator
  <2>4. ASSUME NEW q \in Process, SecretStep(q) PROVE FALSE
    <3>1. CASE Rename(q)
      <4>1. files'[Env].text.secret = run[q]
        BY <3>1, Renamed
      <4> QED
        BY <1>1, <2>1, <3>1, <4>1 DEF FileInv, ShellInv
    <3>2. CASE ~Rename(q)
      BY <2>1, <2>2, <2>4, <3>2, EnvKept DEF Exists
    <3> QED
      BY <3>1, <3>2
  <2>5. ASSUME NEW q \in Process, Dispatch(q) PROVE FALSE
    BY <2>1, <2>2, <2>5 DEF Dispatch, StartSecret, envVars, Exists
  <2>6. ~UNCHANGED files
    BY <2>1, <2>2 DEF Exists
  <2> QED
    BY <2>3, <2>4, <2>5, <2>6 DEF Next, envVars
<1>2. ASSUME Rename(p) PROVE Puts(p)
  BY <1>2, Renamed DEF Puts, Issued, Running
<1> QED
  BY <1>1, <1>2

-----------------------------------------------------------------------------
(* .env is never a file that was written in part, however many runs fail   *)
(* or are killed at any call (replaceFile).                                *)
THEOREM EnvAlwaysWhole == Spec => []EnvWhole
<1>1. FileInv => EnvWhole
  BY DEF FileInv, FilesInv, EnvWhole, Text, Cut
<1> QED
  BY FileInvariance, <1>1, PTL

(* A run that ends of itself leaves no temporary file (replaceFile: the    *)
(* deferred Remove), nor does one that is killed behind its rename.        *)
LEMMA TempRemoved ==
  ASSUME FileInv, [Next]_vars, NEW p \in Process, pc[p] # "idle", pc'[p] = "idle",
         exit' # "died" \/ pc[p] = "return"
  PROVE  run[p] \notin DOMAIN files'
<1>2. ShellInv /\ Owns(p) /\ run[p] # 0
  BY DEF FileInv, ShellInv
<1>3. Next
  BY DEF vars, shellVars
<1>4. CASE SecretStep(p)
  <2>1. CASE Abandon(p) \/ Succeeds(p)
    BY <2>1 DEF Abandon, Succeeds, Removed
  <2>2. CASE Show(p) \/ Read(p) \/ GiveUp(p)
    BY <1>2, <2>2 DEF Show, Read, GiveUp, Owns, envVars
  <2>3. CASE SecretKilled(p)
    BY <1>2, <2>3 DEF SecretKilled, Exit, Owns
  <2>4. CASE Stat(p) \/ CreateTemp(p) \/ Write(p) \/ Chmod(p) \/ Rename(p)
    BY <1>2, <2>4 DEF Stat, CreateTemp, Write, Chmod, Rename, Goto, ShellInv
  <2> QED
    BY <1>4, <2>1, <2>2, <2>3, <2>4 DEF SecretStep
<1>5. CASE SeedStep(p) /\ UNCHANGED envVars
  BY <1>2, <1>5, SeedStepAt DEF Owns, envVars
<1>6. ~Dispatch(p)
  BY DispatchAt DEF Running
<1> QED
  BY <1>2, <1>3, <1>4, <1>5, <1>6, OwnSteps

(* Without --force a live secret is replaced only if it came into .env     *)
(* after the run had looked there (writeJwtSecret).                        *)
THEOREM LiveSecretNeedsForce == Spec => LiveSecretKept
<1>1. FileInv /\ [Next]_vars =>
        [\A p \in Process :
           Puts(p) /\ ~Given(p, "force") /\ ~draft[p].stale =>
             files[Env].text.secret = 0]_<<shellVars, envVars>>
  <2> SUFFICES ASSUME FileInv, [Next]_vars, NEW p \in Process,
                      Puts(p), ~Given(p, "force"), ~draft[p].stale
               PROVE  files[Env].text.secret = 0
    OBVIOUS
  <2>1. Rename(p)
    BY PutsIsRename DEF Puts, Issued, Exists, vars, envVars, shellVars
  <2> QED
    BY <2>1, Renamed DEF FileInv, Knows, Looked, Given
<1> QED
  BY FileInvariance, <1>1, PTL DEF Spec, LiveSecretKept

(* A run changes no other line of .env and not its mode, unless somebody   *)
(* changed .env after the run had looked there (writeJwtSecret: "Every     *)
(* other line is preserved", and the mode is that of the old file).        *)
THEOREM RestPreserved == Spec => OnlyOverlapLoses
<1>1. FileInv /\ [Next]_vars =>
        [\A p \in Process : Puts(p) /\ ~draft[p].stale =>
           /\ Exists(Env)
           /\ files'[Env].text.app = files[Env].text.app
           /\ files'[Env].mode = files[Env].mode]_<<shellVars, envVars>>
  <2> SUFFICES ASSUME FileInv, [Next]_vars, NEW p \in Process, Puts(p), ~draft[p].stale
               PROVE  /\ Exists(Env)
                      /\ files'[Env].text.app = files[Env].text.app
                      /\ files'[Env].mode = files[Env].mode
    OBVIOUS
  <2>1. Rename(p)
    BY PutsIsRename DEF Puts, Issued, Exists, vars, envVars, shellVars
  <2> QED
    BY <2>1, Renamed DEF FileInv, Knows, Looked
<1> QED
  BY FileInvariance, <1>1, PTL DEF Spec, OnlyOverlapLoses

(* --show is all that a run given it does.                                 *)
FlagInv == \A p \in Process : pc[p] \in SecretSteps => (pc[p] = "show" <=> "show" \in job[p].flags)

LEMMA FlagStep == ShellInv /\ FlagInv /\ [Next]_vars => FlagInv'
<1> SUFFICES ASSUME ShellInv, FlagInv, [Next]_vars, NEW p \in Process, pc'[p] \in SecretSteps
             PROVE  (pc[p] = "show" <=> "show" \in job[p].flags)'
  BY DEF FlagInv
<1>1. CASE UNCHANGED vars
  BY <1>1 DEF vars, shellVars, FlagInv
<1>2. CASE pc'[p] = pc[p] /\ job'[p] = job[p]
  BY <1>2 DEF FlagInv
<1>3. ASSUME NEW flags \in {{}, {"force"}, {"show"}}, StartSecret(p, flags)
      PROVE  (pc[p] = "show" <=> "show" \in job[p].flags)'
  BY <1>3 DEF StartSecret, Begin, ShellInv
<1>4. ASSUME NEW flags, NEW env, NEW intended, StartSeed(p, flags, env, intended) PROVE FALSE
  BY <1>4 DEF StartSeed, Begin, FirstStep, ShellInv
<1>5. CASE Dispatch(p)
  BY <1>2, <1>3, <1>4, <1>5 DEF Dispatch, NotFound
<1>6. CASE SecretStep(p)
  <2>1. pc[p] \in SecretSteps \ {"show"} /\ pc'[p] # "show" /\ job'[p] = job[p]
    BY <1>6 DEF SecretStep, Show, Stat, Read, CreateTemp, Write, Chmod, Rename, Succeeds, GiveUp, Abandon,
                SecretKilled, Exit, Goto, ShellInv
  <2> QED
    BY <2>1 DEF FlagInv
<1>7. CASE SeedStep(p)
  <2>1. pc[p] \in SeedSteps
    BY <1>7, SeedStepAt
  <2>2. pc'[p] \in {"idle"} \cup SeedSteps
    BY <1>7, <2>1 DEF SeedStep, Confirm, Connect, FindUser, FindUserFails, InsertUser, UserSeeded,
                FindOwner, InsertEvent, EventSaved, SeedFails, SeedKilled, Leave, Exit, Goto,
                FirstStep, ShellInv, shellVars
  <2> QED
    BY <2>2
<1> QED
  BY <1>1, <1>2, <1>5, <1>6, <1>7, OwnSteps

LEMMA FlagInvariance == Spec => []FlagInv
<1>1. Init => FlagInv
  BY DEF Init, ShellInit, FlagInv
<1>2. FileInv => ShellInv
  BY DEF FileInv
<1> QED
  BY FileInvariance, FlagStep, <1>1, <1>2, PTL DEF Spec

(* What a run of jwt:secret reports is true: its secret has been in .env   *)
(* if it reports success, and never if it reports an error.  A run that is *)
(* killed may have come as far as the rename or not (replaceFile), and may *)
(* leave its temporary file in the latter case only.                       *)
THEOREM OutcomeTruthful == Spec => OutcomeTold
<1>1. ASSUME FileInv, FlagInv, [Next]_vars, NEW p \in Process,
             job[p].command = "jwt:secret", pc'[p] = "idle"
      PROVE  /\ Ended(p, "ok") => (draft[p].issued <=> ~Given(p, "show"))
             /\ Ended(p, "error") => ~draft[p].issued
             /\ run[p] \in DOMAIN files' => Ended(p, "died") /\ ~draft[p].issued
  <2>1. ShellInv /\ pc[p] \in SecretSteps
    BY <1>1 DEF FileInv, ShellInv
  <2>2. Next
    BY <1>1, <2>1 DEF vars, shellVars
  <2>3. SecretStep(p)
    BY <1>1, <2>1, <2>2, OwnSteps, SeedStepAt, DispatchAt DEF Running
  <2>4. draft[p].issued <=> pc[p] = "return"
    BY <1>1 DEF FileInv, Owns
  <2>5. Given(p, "show") <=> pc[p] = "show"
    BY <1>1, <2>1 DEF FlagInv, Given
  <2>6. \/ pc[p] \in {"show", "return"} /\ exit' = "ok"
        \/ pc[p] \notin {"show", "return"} /\ exit' = "error"
        \/ exit' = "died"
    BY <1>1, <2>1, <2>3 DEF SecretStep, Show, Stat, Read, CreateTemp, Write, Chmod, Rename, Succeeds,
       GiveUp, Abandon, SecretKilled, Exit, Goto, ShellInv
  <2>7. run[p] \in DOMAIN files' => exit' = "died" /\ pc[p] # "return"
    BY <1>1, <2>1, TempRemoved
  <2> QED
    BY <1>1, <2>1, <2>4, <2>5, <2>6, <2>7 DEF Ended, Running
<1>2. FileInv /\ FlagInv /\ [Next]_vars =>
        [\A p \in Process : job[p].command = "jwt:secret" /\ pc'[p] = "idle" =>
           /\ Ended(p, "ok") => (draft[p].issued <=> ~Given(p, "show"))
           /\ Ended(p, "error") => ~draft[p].issued
           /\ run[p] \in DOMAIN files' => Ended(p, "died") /\ ~draft[p].issued]_<<shellVars, envVars>>
  BY <1>1
<1> QED
  BY FileInvariance, FlagInvariance, <1>2, PTL DEF Spec, OutcomeTold

-----------------------------------------------------------------------------
(* db:seed: past the confirmation a run is allowed, a run that has found   *)
(* the account or inserted it has left one there, and one that is about to *)
(* insert it is right to unless it was misled.                             *)
SeedInv ==
  /\ tables \in BOOLEAN /\ accounts \in Nat
  /\ seed \in [Process -> Seed]
  /\ \A p \in Process :
       /\ pc[p] \in SeedSteps \ {"confirm"} => seed[p].allowed
       /\ pc[p] \in {"skipped", "inserted", "event", "saved"} => accounts > 0
       /\ pc[p] = "insert" /\ ~seed[p].misled => accounts = 0
       /\ pc[p] \notin {"event", "saved"} => seed[p].added = 0
       /\ pc[p] = "event" => seed[p].added < SeedEventCount

LEMMA SeedStart == Init => SeedInv
BY SeedAssumption DEF Init, ShellInit, SeedInit, SeedInv, Fresh, Seed

LEMMA SeedStepKeeps ==
  ASSUME ShellInv, SeedInv, NEW p \in Process, SeedStep(p)
  PROVE  SeedInv'
<1> USE SeedAssumption DEF SeedInv, Seed
<1>p. pc[p] \in SeedSteps /\ pc \in [Process -> {"idle"} \cup SecretSteps \cup SeedSteps]
  BY SeedStepAt DEF ShellInv
<1>1. ASSUME NEW how, Leave(p, how), UNCHANGED <<tables, accounts>> PROVE SeedInv'
  BY <1>p, <1>1 DEF Leave, Exit, Fresh
<1>2. CASE Confirm(p)
  <2>1. ASSUME Goto(p, FirstStep(job[p].flags)), seed' = [seed EXCEPT ![p].allowed = TRUE]
        PROVE  SeedInv'
    <3>1. PICK next \in {"owner", "find"} : pc' = [pc EXCEPT ![p] = next]
      BY <2>1 DEF Goto, FirstStep
    <3>2. seed' \in [Process -> Seed] /\ UNCHANGED <<tables, accounts>> /\ pc[p] = "confirm"
      BY <1>2, <2>1 DEF Confirm
    <3> QED
      BY <1>p, <2>1, <3>1, <3>2
  <2> QED
    BY <1>1, <1>2, <2>1 DEF Confirm
<1>3. CASE Connect(p)
  <2>1. ASSUME seed' = [seed EXCEPT ![p].connected = TRUE], UNCHANGED shellVars PROVE SeedInv'
    <3>1. seed' \in [Process -> Seed] /\ UNCHANGED <<tables, accounts, pc>>
      BY <1>3, <2>1 DEF Connect, shellVars
    <3> QED
      BY <2>1, <3>1
  <2> QED
    BY <1>1, <1>3, <2>1 DEF Connect
<1>4. CASE FindUser(p) \/ FindUserFails(p)
  <2>1. CASE FindUser(p)
    <3>1. PICK next \in {"insert", "skipped"} :
            pc' = [pc EXCEPT ![p] = next] /\ (next = "insert" <=> accounts = 0)
      BY <2>1 DEF FindUser, Goto
    <3>2. UNCHANGED <<tables, accounts, seed>> /\ pc[p] = "find"
      BY <2>1 DEF FindUser, seedVars
    <3> QED
      BY <1>p, <3>1, <3>2
  <2>2. CASE FindUserFails(p)
    <3>1. /\ pc[p] = "find" /\ pc' = [pc EXCEPT ![p] = "insert"]
          /\ seed' = [seed EXCEPT ![p].misled = TRUE] /\ UNCHANGED <<tables, accounts>>
      BY <2>2 DEF FindUserFails, Goto
    <3>2. seed' \in [Process -> Seed]
      BY <3>1
    <3> QED
      BY <1>p, <3>1, <3>2
  <2> QED
    BY <1>4, <2>1, <2>2
<1>5. CASE InsertUser(p)
  <2>1. /\ pc[p] = "insert" /\ pc' = [pc EXCEPT ![p] = "inserted"]
        /\ accounts' = accounts + 1 /\ tables' = tables
        /\ seed' = [q \in Process |-> [seed[q] EXCEPT !.misled = @ \/ (q # p /\ pc[q] = "insert")]]
    BY <1>5 DEF InsertUser, Goto
  <2>2. ASSUME NEW q \in Process
        PROVE  /\ seed'[q] \in Seed
               /\ seed'[q].allowed = seed[q].allowed /\ seed'[q].added = seed[q].added
               /\ q # p /\ pc[q] = "insert" => seed'[q].misled
    <3>1. (seed[q].misled \/ (q # p /\ pc[q] = "insert")) \in BOOLEAN
      OBVIOUS
    <3> QED
      BY <2>1, <3>1
  <2>3. seed' \in [Process -> Seed]
    BY <2>1, <2>2
  <2> QED
    BY <1>p, <2>1, <2>2, <2>3
<1>6. CASE UserSeeded(p)
  BY <1>p, <1>1, <1>6 DEF UserSeeded, Goto
<1>7. CASE FindOwner(p)
  BY <1>p, <1>7 DEF FindOwner, Goto, seedVars
<1>8. CASE InsertEvent(p)
  BY <1>p, <1>8 DEF InsertEvent, Goto
<1>9. CASE EventSaved(p)
  BY <1>p, <1>1, <1>9 DEF EventSaved, Goto
<1>10. CASE SeedFails(p) \/ SeedKilled(p)
  BY <1>1, <1>10 DEF SeedFails, SeedKilled
<1> QED
  BY <1>2, <1>3, <1>4, <1>5, <1>6, <1>7, <1>8, <1>9, <1>10 DEF SeedStep

LEMMA SeedKeeps == FileInv /\ SeedInv /\ [Next]_vars => SeedInv'
<1> SUFFICES ASSUME FileInv, SeedInv, [Next]_vars PROVE SeedInv'
  OBVIOUS
<1>0. ShellInv
  BY DEF FileInv
<1>1. CASE UNCHANGED <<shellVars, seedVars>>
  BY <1>1 DEF SeedInv, shellVars, seedVars
<1>2. CASE Operator /\ UNCHANGED seedVars
  BY <1>2 DEF Operator, SeedInv, shellVars, seedVars
<1>3. CASE Migrated
  BY <1>3 DEF Migrated, SeedInv, shellVars
<1>4. ASSUME NEW p \in Process, SecretStep(p), UNCHANGED seedVars PROVE SeedInv'
  <2>1. pc[p] \in SecretSteps
    BY <1>0, <1>4, SecretStepAt
  <2>2. \E next \in {"idle"} \cup SecretSteps : pc' = [pc EXCEPT ![p] = next]
    BY <1>4 DEF SecretStep, Show, Stat, Read, CreateTemp, Write, Chmod, Rename, Succeeds, GiveUp, Abandon,
                SecretKilled, Exit, Goto
  <2> QED
    BY <1>0, <1>4, <2>1, <2>2 DEF SeedInv, seedVars, ShellInv
<1>5. ASSUME NEW p \in Process, SeedStep(p) PROVE SeedInv'
  BY <1>0, <1>5, SeedStepKeeps
<1>6. ASSUME NEW p \in Process, NEW flags \in {{}, {"force"}, {"show"}},
             StartSecret(p, flags), UNCHANGED seedVars
      PROVE  SeedInv'
  <2>1. PICK next \in {"show", "stat"} : pc' = [pc EXCEPT ![p] = next] /\ pc[p] = "idle"
    BY <1>0, <1>6 DEF StartSecret, Begin, Running
  <2> QED
    BY <1>0, <1>6, <2>1 DEF SeedInv, seedVars, ShellInv
<1>7. ASSUME NEW p \in Process, NEW flags, StartSeed(p, flags, AppEnv, saved) PROVE SeedInv'
  <2>1. PICK next \in {"confirm", "owner", "find"} :
          /\ pc' = [pc EXCEPT ![p] = next] /\ pc[p] = "idle"
          /\ Asks(AppEnv, flags) <=> next = "confirm"
    BY <1>7 DEF StartSeed, Begin, FirstStep, Running
  <2>2. /\ seed' = [seed EXCEPT ![p].allowed = "production" \notin {AppEnv, saved} \/ "force" \in flags]
        /\ UNCHANGED <<tables, accounts>>
    BY <1>7 DEF StartSeed
  <2>3. ~Asks(AppEnv, flags) => "production" \notin {AppEnv, saved} \/ "force" \in flags
    BY DEF Asks, FileInv, FilesInv
  <2>4. ("production" \notin {AppEnv, saved} \/ "force" \in flags) \in BOOLEAN
    OBVIOUS
  <2>5. /\ seed' \in [Process -> Seed]
        /\ \A q \in Process : seed'[q].added = seed[q].added /\ seed'[q].misled = seed[q].misled
        /\ \A q \in Process \ {p} : seed'[q] = seed[q]
        /\ next # "confirm" => seed'[p].allowed
    BY <2>1, <2>2, <2>3, <2>4 DEF SeedInv, Seed
  <2> QED
    BY <1>0, <2>1, <2>2, <2>5 DEF SeedInv, ShellInv
<1>8. ASSUME NEW p \in Process, NotFound(p), UNCHANGED seedVars PROVE SeedInv'
  BY <1>8 DEF NotFound, SeedInv, seedVars
<1> QED
  BY <1>1, <1>2, <1>3, <1>4, <1>5, <1>6, <1>7, <1>8 DEF Next, vars, Dispatch

LEMMA SeedInvariance == Spec => []SeedInv
BY FileInvariance, SeedStart, SeedKeeps, PTL DEF Spec

-----------------------------------------------------------------------------
(* Every reachable state of the console has its types.                     *)
THEOREM TypeCorrect == Spec => []TypeOK
<1>1. FileInv /\ SeedInv => TypeOK
  <2> SUFFICES ASSUME FileInv, SeedInv PROVE TypeOK
    OBVIOUS
  <2>1. pc \in [Process -> {"idle"} \cup SecretSteps \cup SeedSteps]
    BY DEF FileInv, ShellInv
  <2>2. ShellTypeOK
    BY DEF FileInv, ShellInv, ShellTypeOK
  <2>3. DOMAIN files \subseteq Nat
    BY DEF FileInv, FilesInv, ShellInv
  <2> QED
    BY <2>1, <2>2, <2>3 DEF FileInv, FilesInv, SeedInv, TypeOK
<1> QED
  BY FileInvariance, SeedInvariance, <1>1, PTL

(* Who inserts an account finds none there, or was misled by a lookup that *)
(* failed or a run beside it (UserSeeder.Run).                             *)
THEOREM AccountNotDoubled == Spec => OneAccount
<1>1. FileInv /\ SeedInv /\ [Next]_vars =>
        [\A p \in Process : pc[p] # pc'[p] /\ accounts' > accounts =>
           accounts = 0 \/ seed[p].misled]_<<shellVars, seedVars>>
  <2> SUFFICES ASSUME FileInv, SeedInv, [Next]_vars, NEW p \in Process,
                      pc[p] # pc'[p], accounts' > accounts
               PROVE  accounts = 0 \/ seed[p].misled
    OBVIOUS
  <2>0. ShellInv /\ accounts \in Nat
    BY DEF FileInv, SeedInv
  <2>1. SeedStep(p)
    BY <2>0, OwnSteps DEF Dispatch, StartSeed, seedVars, vars, shellVars
  <2>2. InsertUser(p)
    BY <2>0, <2>1 DEF SeedStep, Confirm, Connect, FindUser, FindUserFails, UserSeeded,
       FindOwner, InsertEvent, EventSaved, SeedFails, SeedKilled, seedVars
  <2> QED
    BY <2>2 DEF InsertUser, SeedInv
<1> QED
  BY FileInvariance, SeedInvariance, <1>1, PTL DEF Spec, OneAccount

(* A run that was not declined and succeeds has left the account there,    *)
(* and all of its events unless it was to seed the account only.           *)
THEOREM SeedingComplete == Spec => SeededMeansThere
<1>1. FileInv /\ SeedInv /\ [Next]_vars =>
        [\A p \in Process :
           job[p].command = "db:seed" /\ Ended(p, "ok") /\ pc[p] # "confirm" =>
             /\ accounts > 0
             /\ ~Given(p, "users") => seed[p].added = SeedEventCount]_<<shellVars, seedVars>>
  <2> SUFFICES ASSUME FileInv, SeedInv, [Next]_vars, NEW p \in Process,
                      job[p].command = "db:seed", Ended(p, "ok"), pc[p] # "confirm"
               PROVE  accounts > 0 /\ (~Given(p, "users") => seed[p].added = SeedEventCount)
    OBVIOUS
  <2>0. ShellInv /\ pc[p] \in SeedSteps /\ pc'[p] = "idle" /\ exit' = "ok"
    BY DEF FileInv, ShellInv, Ended, Running
  <2>1. SeedStep(p)
    BY <2>0, OwnSteps, DispatchAt, SecretStepAt DEF Running, vars, shellVars
  <2>2. UserSeeded(p) \/ EventSaved(p)
    BY <2>0, <2>1 DEF SeedStep, Confirm, Connect, FindUser, FindUserFails, InsertUser, FindOwner,
       InsertEvent, SeedFails, SeedKilled, Leave, Exit, Goto, ShellInv, shellVars
  <2>3. CASE UserSeeded(p)
    BY <2>0, <2>3 DEF UserSeeded, Goto, SeedInv, ShellInv
  <2>4. CASE EventSaved(p)
    BY <2>0, <2>4 DEF EventSaved, Goto, SeedInv, ShellInv
  <2> QED
    BY <2>2, <2>3, <2>4
<1> QED
  BY FileInvariance, SeedInvariance, <1>1, PTL DEF Spec, SeededMeansThere

(* No run adds a row without --force or a yes (SeedCommand.Handle) if .env *)
(* called the database a production one when the run started, or did when  *)
(* the operator saved it last: runs of jwt:secret that rewrite .env do not *)
(* unsay it, unless .env was saved while they were at work on it.          *)
THEOREM ProductionAsked == Spec => AskedInProduction
<1>1. FileInv /\ SeedInv /\ [Next]_vars =>
        [\A p \in Process : pc[p] # pc'[p] /\ ~seed[p].allowed =>
           accounts' = accounts /\ seed'[p].added <= seed[p].added]_<<shellVars, seedVars>>
  <2> SUFFICES ASSUME FileInv, SeedInv, [Next]_vars, NEW p \in Process,
                      pc[p] # pc'[p], ~seed[p].allowed
               PROVE  accounts' = accounts /\ seed'[p].added <= seed[p].added
    OBVIOUS
  <2>0. ShellInv /\ accounts \in Nat /\ seed[p] \in Seed /\ seed \in [Process -> Seed]
    BY DEF FileInv, SeedInv
  <2>1. CASE UNCHANGED seedVars
    BY <2>0, <2>1 DEF seedVars, Seed
  <2>2. ASSUME NEW flags, StartSeed(p, flags, AppEnv, saved)
        PROVE  accounts' = accounts /\ seed'[p].added <= seed[p].added
    BY <2>0, <2>2 DEF StartSeed, Seed
  <2>3. CASE SeedStep(p)
    <3>1. pc[p] = "confirm"
      BY <2>0, <2>3, SeedStepAt DEF SeedInv
    <3>2. Confirm(p) \/ SeedKilled(p)
      BY <2>3, <3>1 DEF SeedStep, Connect, FindUser, FindUserFails, InsertUser, UserSeeded,
         FindOwner, InsertEvent, EventSaved, SeedFails
    <3>3. accounts' = accounts
      BY <3>2 DEF Confirm, SeedKilled
    <3>4. seed'[p].added \in {seed[p].added, 0}
      BY <2>0, <3>2 DEF Confirm, SeedKilled, Leave, Fresh, Seed
    <3> QED
      BY <2>0, <3>3, <3>4 DEF Seed
  <2> QED
    BY <2>0, <2>1, <2>2, <2>3, OwnSteps DEF Dispatch, vars, shellVars
<1> QED
  BY FileInvariance, SeedInvariance, <1>1, PTL DEF Spec, AskedInProduction


=============================================================================
