---------------------------- MODULE TestCommand ----------------------------
(***************************************************************************)
(* The test command: go test in a process of its own and the command that  *)
(* reads what it says, either as records through a pipe into a Reporter    *)
(* (runReported) or, with --raw, as text through a LineFilter (runRaw).    *)
(***************************************************************************)
EXTENDS Reporter, LineFilter

CONSTANTS
  TestsOf,        (* Package -> the names of its tests.                    *)
  Above,          (* Test -> the test it is a subtest of, or itself.       *)
  PipeSize        (* How many records the pipe takes.                      *)

ASSUME TestCommandAssumption ==
  /\ NoTest \notin Test
  /\ TestsOf \in [Package -> SUBSET Test] /\ Above \in [Test -> Test]
  /\ PipeSize \in Nat \ {0} /\ MaxBytes \in Nat /\ MaxChunk \in Nat \ {0}

VARIABLES         (* go test:                                              *)
  truth,          (* Package -> Test -> what has become of it.             *)
  stage,          (* Package -> "open", or how it has ended.               *)
  tool,           (* "running", or its exit: "ok" or "failed".             *)
  pipe            (* Its records that have not been read.                  *)

VARIABLES         (* The command:                                          *)
  raw,            (* Whether --raw was given.                              *)
  step,           (* "read", "wait", "summary"; "ok" or "error" at the end. *)
  scanErr         (* Whether reading stopped at a line over the limit.     *)

toolVars == <<truth, stage, tool>>
commandVars == <<raw, step, scanErr>>
vars == <<toolVars, pipe, commandVars, reporterVars, filterVars>>

Init ==
  /\ truth = [k \in Package |-> [t \in Test |-> "unborn"]]
  /\ stage = [k \in Package |-> "open"]
  /\ tool = "running"
  /\ pipe = <<>>
  /\ raw \in BOOLEAN
  /\ step = "read"
  /\ scanErr = FALSE
  /\ ReporterInit /\ FilterInit

-----------------------------------------------------------------------------
(* go test -json: a record is a write, which waits while the pipe is full. *)
Send(k, t, action) ==
  /\ ~raw /\ tool = "running" /\ Len(pipe) < PipeSize
  /\ pipe' = Append(pipe, [pkg |-> k, test |-> t, action |-> action])
  /\ UNCHANGED <<tool, commandVars, reporterVars, filterVars>>

Below(t) == {c \in Test \ {t} : Above[c] = t}

TestStarts(k, t) ==
  /\ stage[k] = "open" /\ t \in TestsOf[k] /\ truth[k][t] = "unborn"
  /\ Above[t] # t => truth[k][Above[t]] = "running"
  /\ Send(k, t, "run")
  /\ truth' = [truth EXCEPT ![k][t] = "running"]
  /\ UNCHANGED stage

(* A test ends after its subtests, and fails if one of them has.           *)
TestEnds(k, t, how) ==
  /\ stage[k] = "open" /\ truth[k][t] = "running"
  /\ \A c \in Below(t) : truth[k][c] # "running" /\ (truth[k][c] = "fail" => how = "fail")
  /\ Send(k, t, how)
  /\ truth' = [truth EXCEPT ![k][t] = how]
  /\ UNCHANGED stage

(* A package fails to build, times out or exits at any point; it passes if *)
(* every test has ended and none failed; without test files it is skipped. *)
PackageEnds(k, how) ==
  /\ stage[k] = "open"
  /\ how = "pass" => \A t \in Test : truth[k][t] \notin {"running", "fail"}
  /\ how = "skip" => \A t \in Test : truth[k][t] = "unborn"
  /\ Send(k, NoTest, how)
  /\ stage' = [stage EXCEPT ![k] = how]
  /\ UNCHANGED truth

(* A line longer than outputBufferLimit.                                   *)
PrintsTooMuch(k) ==
  /\ stage[k] = "open" /\ ~scanErr
  /\ \A i \in DOMAIN pipe : pipe[i].action # "oversize"
  /\ Send(k, NoTest, "oversize")
  /\ UNCHANGED <<truth, stage>>

ToolExits ==
  /\ tool = "running"
  /\ \/ /\ ~raw /\ \A k \in Package : stage[k] # "open"
        /\ tool' = IF \E k \in Package : stage[k] = "fail" THEN "failed" ELSE "ok"
     \/ raw /\ tool' \in {"ok", "failed"}
  /\ UNCHANGED <<truth, stage, pipe, commandVars, reporterVars, filterVars>>

ToolKilled ==
  /\ tool = "running" /\ tool' = "failed"
  /\ UNCHANGED <<truth, stage, pipe, commandVars, reporterVars, filterVars>>

ToolProgress ==
  \/ \E k \in Package, t \in Test :
       TestStarts(k, t) \/ \E how \in Ends : TestEnds(k, t, how)
  \/ \E k \in Package, how \in Ends : PackageEnds(k, how)
  \/ ToolExits

-----------------------------------------------------------------------------
(* Start or Run: go test cannot be found or started, and has said nothing. *)
StartFails ==
  /\ Init
  /\ step' = "error" /\ tool' = "failed"
  /\ UNCHANGED <<truth, stage, pipe, raw, scanErr, reporterVars, filterVars>>

(* runReported.  One turn of its loop over the lines of the output.        *)
ReadsRecord ==
  /\ ~raw /\ step = "read" /\ pipe # <<>> /\ Head(pipe).action # "oversize"
  /\ Handle(Head(pipe))
  /\ pipe' = Tail(pipe)
  /\ UNCHANGED <<toolVars, commandVars, filterVars>>

(* The scanner gives up, for good.                                         *)
ScanFails ==
  /\ ~raw /\ step = "read" /\ pipe # <<>> /\ Head(pipe).action = "oversize"
  /\ step' = "wait" /\ scanErr' = TRUE
  /\ pipe' = Tail(pipe)
  /\ UNCHANGED <<raw, toolVars, reporterVars, filterVars>>

(* Mutant: the records still in the pipe when go test exits are not read.  *)
ReadsEndEarly ==
  /\ ~raw /\ step = "read" /\ tool # "running"
  /\ step' = "wait"
  /\ UNCHANGED <<raw, scanErr, pipe, toolVars, reporterVars, filterVars>>

(* The output ends when go test has.                                       *)
ReadsEnd ==
  /\ ~raw /\ step = "read" /\ pipe = <<>> /\ tool # "running"
  /\ step' = "wait"
  /\ UNCHANGED <<raw, scanErr, pipe, toolVars, reporterVars, filterVars>>

(* Mutant: it is the results of the packages that are waited for.          *)
WaitsForPackages ==
  /\ ~raw /\ step = "wait" /\ \A k \in Package : stage[k] # "open"
  /\ tool # "running"
  /\ step' = "summary"
  /\ UNCHANGED <<raw, scanErr, pipe, toolVars, reporterVars, filterVars>>

(* Wait: go test has exited, whatever it had still to say.                 *)
Waits ==
  /\ ~raw /\ step = "wait" /\ tool # "running"
  /\ step' = "summary"
  /\ UNCHANGED <<raw, scanErr, pipe, toolVars, reporterVars, filterVars>>

(* Summary: whatever is still held, in the order of a map.                 *)
FlushesHeld ==
  /\ ~raw /\ step = "summary"
  /\ \E k \in Held : Flush(k)
  /\ UNCHANGED <<toolVars, pipe, commandVars, filterVars>>

(* Mutant: only what was reported decides.                                 *)
ReportedVerdict == IF scanErr \/ failures # {} THEN "error" ELSE "ok"

Verdict == IF scanErr \/ tool = "failed" \/ failures # {} THEN "error" ELSE "ok"

Returns ==
  /\ ~raw /\ step = "summary" /\ Held = {}
  /\ step' = Verdict
  /\ UNCHANGED <<raw, scanErr, pipe, toolVars, reporterVars, filterVars>>

(* runRaw.  What go test prints is copied to the filter as it comes, and   *)
(* no more of it after a write that failed.                                *)
Copies ==
  /\ raw /\ step = "read"
  /\ \/ tool = "running" /\ \E chunk \in Chunk : Write(chunk)
     \/ TakeLine
     \/ WriteDone
  /\ UNCHANGED <<toolVars, pipe, commandVars, reporterVars>>

(* Run has returned: the rest is flushed, and its error comes first.       *)
ReturnsRaw ==
  /\ raw /\ step = "read" /\ tool # "running"
  /\ FlushRest
  /\ step' = IF outErr' \/ tool = "failed" THEN "error" ELSE "ok"
  /\ UNCHANGED <<raw, scanErr, toolVars, pipe, reporterVars>>

CommandStep ==
  \/ StartFails
  \/ ReadsRecord \/ ScanFails \/ ReadsEnd \/ Waits \/ FlushesHeld \/ Returns
  \/ Copies \/ ReturnsRaw

Next == ToolProgress \/ (\E k \in Package : PrintsTooMuch(k)) \/ ToolKilled \/ CommandStep

Spec == Init /\ [][Next]_vars

(* go test ends each of its tests, at the latest by its -timeout, and the  *)
(* command reads on.                                                       *)
FairSpec == Spec /\ WF_vars(ToolProgress) /\ WF_vars(CommandStep)

-----------------------------------------------------------------------------
Returned == step \in {"ok", "error"}

TypeOK ==
  /\ ReporterTypeOK /\ FilterTypeOK
  /\ truth \in [Package -> [Test -> Ends \cup {"unborn", "running"}]]
  /\ stage \in [Package -> Ends \cup {"open"}]
  /\ tool \in {"running", "ok", "failed"}
  /\ raw \in BOOLEAN /\ scanErr \in BOOLEAN
  /\ step \in {"read", "wait", "summary", "ok", "error"}

(* However packages interleave, each is printed in one block: what one of  *)
(* them ran is not scattered across the output (the comment of Reporter).  *)
OneBlock == \A i, j \in DOMAIN report : report[i].pkg = report[j].pkg => i = j

(* In a block every test is listed once, and below the test it is part of, *)
(* which ended after it.                                                   *)
ParentsFirst ==
  \A b \in DOMAIN report : LET lines == report[b].lines IN
    \A i, j \in DOMAIN lines :
      /\ lines[i].test = lines[j].test => i = j
      /\ Above[lines[i].test] = lines[j].test => j <= i

(* A reader finds the tests of a package together and in order.            *)
Grouped == OneBlock /\ ParentsFirst

(* Test t is in a block of package k.                                      *)
Listed(k, t) ==
  \E b \in DOMAIN report : report[b].pkg = k /\
    \E i \in DOMAIN report[b].lines : report[b].lines[i].test = t

(* A block says of each test what has become of it, and when the command   *)
(* returns every test that ended is in a block, also those of a package    *)
(* that never reported a result: only an unreadable line loses tests.      *)
NothingSwallowed ==
  /\ \A b \in DOMAIN report : LET lines == report[b].lines IN
       \A i \in DOMAIN lines : truth[report[b].pkg][lines[i].test] = lines[i].status
  /\ Returned /\ ~raw /\ ~scanErr =>
       \A k \in Package, t \in Test : truth[k][t] \in Ends => Listed(k, t)

(* The command reports success only if go test did, all its output was     *)
(* read and passed on and no test of it failed, and an error only if it    *)
(* has a reason.                                                           *)
VerdictTrue ==
  /\ step = "ok" => /\ tool = "ok" /\ ~scanErr /\ ~outErr /\ pipe = <<>>
                    /\ \A k \in Package, t \in Test : truth[k][t] # "fail"
  /\ step = "error" => tool = "failed" \/ scanErr \/ outErr

(* The summary repeats every failure, under a package in which a test of   *)
(* that name has failed: the only one, if no other has (failedIn is keyed  *)
(* by the name alone, and of two packages the later one is named).         *)
FailuresNamed ==
  /\ \A t \in failures : \E k \in Package : failedIn[t] = k /\ truth[k][t] = "fail"
  /\ Returned /\ ~raw /\ ~scanErr =>
       \A k \in Package, t \in Test : truth[k][t] = "fail" => t \in failures

(* Whatever the chunks, the lines without the marker come out whole and in *)
(* their order, those with it are left out, and at the end nothing is kept *)
(* back, unless a write has failed.                                        *)
FilteredByLine ==
  raw /\ ~outErr =>
    /\ ~writing => LET held == Len(pending) IN
         Filtered(SubSeq(written, 1, Len(written) - held), forwarded)
    /\ Returned => pending = <<>> /\ Filtered(written, forwarded)

(* The command returns, unless a line over the limit has stopped it from   *)
(* reading: go test may then wait for room in the pipe for ever, and Wait  *)
(* for go test.                                                            *)
CommandReturns == <>(Returned \/ scanErr)

=============================================================================
