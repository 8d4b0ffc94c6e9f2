------------------------------ MODULE Reporter ------------------------------
(***************************************************************************)
(* The Reporter of app/console/test, which is handed the records of        *)
(* `go test -json`.  The tests of packages that run in parallel interleave *)
(* there, a parent ends after its subtests, and some tests never end: the  *)
(* results of a package are held until it has finished and then printed    *)
(* together.  What a test prints, durations and colours are left out.      *)
(***************************************************************************)
EXTENDS Naturals, Sequences, SequencesExt

CONSTANTS
  Package,        (* The packages with tests.                              *)
  Test            (* The names of the tests.                               *)

VARIABLES
  packages,       (* Package -> its order and its results, while held.     *)
  report,         (* The packages printed, each with its lines.            *)
  failures,       (* The tests that failed, to be repeated in the summary. *)
  failedIn        (* Test -> the package it is said to have failed in.     *)

reporterVars == <<packages, report, failures, failedIn>>

NoTest == "package"
Ends == {"pass", "fail", "skip"}

NoResults == [order |-> <<>>, status |-> [t \in Test |-> "none"]]

ReporterInit ==
  /\ packages = [k \in Package |-> NoResults]
  /\ report = <<>>
  /\ failures = {}
  /\ failedIn = [t \in Test |-> NoTest]

Held == {k \in Package : packages[k].order # <<>>}

(* Mutant: a test is listed when it ends.                                  *)
RecordedAtEnd(pkg, e) ==
  [order  |-> IF e.action \in Ends THEN Append(pkg.order, e.test) ELSE pkg.order,
   status |-> IF e.action \in Ends THEN [pkg.status EXCEPT ![e.test] = e.action] ELSE pkg.status]

(* A record about a test: the test is listed when it is first heard of.    *)
Recorded(pkg, e) ==
  [order  |-> IF Contains(pkg.order, e.test) THEN pkg.order ELSE Append(pkg.order, e.test),
   status |-> IF e.action \in Ends THEN [pkg.status EXCEPT ![e.test] = e.action] ELSE pkg.status]

(* The lines of a package: its tests in the order they started, each at    *)
(* its place there.  One that has not ended has no status, and no line.    *)
Lines(k) ==
  LET pkg == packages[k] IN
  [i \in {i \in DOMAIN pkg.order : pkg.status[pkg.order[i]] # "none"} |->
     [test |-> pkg.order[i], status |-> pkg.status[pkg.order[i]]]]

Failed(k) == {t \in Test : packages[k].status[t] = "fail"}

(* Mutant: the package is said to hold every failure so far.               *)
PrintedClaiming(k) ==
  /\ report' = Append(report, [pkg |-> k, lines |-> Lines(k)])
  /\ failures' = failures \cup Failed(k)
  /\ failedIn' = [t \in Test |-> IF t \in failures \cup Failed(k) THEN k ELSE failedIn[t]]

Printed(k) ==
  /\ report' = Append(report, [pkg |-> k, lines |-> Lines(k)])
  /\ failures' = failures \cup Failed(k)
  /\ failedIn' = [t \in Test |-> IF t \in Failed(k) THEN k ELSE failedIn[t]]

(* Mutant: a package that was printed is still held.                       *)
FlushKept(k) == IF k \in Held THEN Printed(k) /\ UNCHANGED packages ELSE UNCHANGED reporterVars

(* flush: the package is printed, and no longer held.                      *)
Flush(k) ==
  IF k \in Held
    THEN Printed(k) /\ packages' = [packages EXCEPT ![k] = NoResults]
    ELSE UNCHANGED reporterVars

(* Handle: a record without a test is about its package.                   *)
Handle(e) ==
  \/ /\ e.test # NoTest
     /\ packages' = [packages EXCEPT ![e.pkg] = Recorded(@, e)]
     /\ UNCHANGED <<report, failures, failedIn>>
  \/ e.test = NoTest /\ e.action \in {"pass", "fail"} /\ Flush(e.pkg)
  \/ e.test = NoTest /\ e.action \notin {"pass", "fail"} /\ UNCHANGED reporterVars

Line == [test : Test, status : Ends]

ReporterTypeOK ==
  /\ packages \in [Package -> [order : Seq(Test), status : [Test -> Ends \cup {"none"}]]]
  /\ \A b \in DOMAIN report :
       /\ report[b].pkg \in Package
       /\ \A i \in DOMAIN report[b].lines : report[b].lines[i] \in Line
  /\ failures \subseteq Test
  /\ failedIn \in [Test -> Package \cup {NoTest}]

=============================================================================
