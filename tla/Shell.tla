------------------------------- MODULE Shell -------------------------------
(***************************************************************************)
(* What the console commands have in common: main and the console service  *)
(* provider, which find a command by its name, run its Handle and exit     *)
(* with what it returned.  The modules of the commands say what Handle     *)
(* does, each of their actions moving the pc of one process.               *)
(***************************************************************************)
EXTENDS Naturals

CONSTANTS
  Process,        (* Terminals, in each of which one command runs at a time. *)
  MaxRuns         (* Bound on the commands run, for TLC.                   *)

ASSUME ShellAssumption == MaxRuns \in Nat

VARIABLES
  pc,             (* Process -> the step of Handle that is next.           *)
  job,            (* Process -> its command and the flags given to it.     *)
  run,            (* Process -> the number of its run, 0 between runs.     *)
  exit,           (* How the command that ended last has ended, "ok" once  *)
                  (* another has started.                                  *)
  runs            (* How many runs there have been.                        *)

shellVars == <<pc, job, run, exit, runs>>

Flags == {"force", "show", "users", "events"}

NoJob == [command |-> "none", flags |-> {}]

Jobs == [command : {"none", "jwt:secret", "db:seed"}, flags : SUBSET Flags]

ShellInit ==
  /\ pc = [p \in Process |-> "idle"]
  /\ job = [p \in Process |-> NoJob]
  /\ run = [p \in Process |-> 0]
  /\ exit = "ok"
  /\ runs = 0

Running(p) == pc[p] # "idle"

Given(p, flag) == flag \in job[p].flags

(* A command starts in terminal p, where nothing runs.                     *)
Begin(p, command, flags, first) ==
  /\ ~Running(p) /\ runs < MaxRuns
  /\ runs' = runs + 1
  /\ run' = [run EXCEPT ![p] = runs + 1]
  /\ job' = [job EXCEPT ![p] = [command |-> command, flags |-> flags]]
  /\ pc' = [pc EXCEPT ![p] = first]
  /\ exit' = "ok"

(* Handle goes on with another step.                                       *)
Goto(p, next) ==
  /\ pc' = [pc EXCEPT ![p] = next]
  /\ UNCHANGED <<job, run, exit, runs>>

(* The process ends: Handle returns nil ("ok") or an error, or it dies:    *)
(* by a panic, or killed at any step.                                      *)
Exit(p, how) ==
  /\ Running(p)
  /\ pc' = [pc EXCEPT ![p] = "idle"]
  /\ job' = [job EXCEPT ![p] = NoJob]
  /\ run' = [run EXCEPT ![p] = 0]
  /\ exit' = how
  /\ UNCHANGED runs

(* No command has that name.                                               *)
NotFound(p) ==
  /\ ~Running(p)
  /\ exit' = "error"
  /\ UNCHANGED <<pc, job, run, runs>>

(* In a step: p has ended so.                                              *)
Ended(p, how) == Running(p) /\ pc'[p] = "idle" /\ exit' = how

ShellTypeOK ==
  /\ job \in [Process -> Jobs]
  /\ run \in [Process -> Nat]
  /\ exit \in {"ok", "error", "died"}
  /\ runs \in Nat

=============================================================================
