------------------------- MODULE TestCommand_proofs -------------------------
(***************************************************************************)
(* Proofs about the test command, for any packages and tests, any nesting  *)
(* of subtests, any pipe, and any text in chunks of any size.              *)
(***************************************************************************)
EXTENDS TestCommand, SequenceTheorems, FiniteSetTheorems, WellFoundedInduction, TLAPS

Record == [pkg : Package, test : Test \cup {NoTest}, action : Ends \cup {"run", "oversize"}]
Block  == [pkg : Package, lines : UNION {[D -> Line] : D \in SUBSET Nat}]

(* What go test and the reporter know of a test.                           *)
Status(k, t) == packages[k].status[t]
Known(k, t)  == \E i \in DOMAIN packages[k].order : packages[k].order[i] = t

(* Record n of the pipe is about test t of package k.                      *)
Says(n, k, t) == pipe[n].pkg = k /\ pipe[n].test = t

Reported(k) == \E b \in DOMAIN report : report[b].pkg = k

-----------------------------------------------------------------------------
TypeInv ==
  /\ packages \in [Package -> [order : Seq(Test), status : [Test -> Ends \cup {"none"}]]]
  /\ report \in Seq(Block)
  /\ failures \subseteq Test
  /\ failedIn \in [Test -> Package \cup {NoTest}]
  /\ truth \in [Package -> [Test -> Ends \cup {"unborn", "running"}]]
  /\ stage \in [Package -> Ends \cup {"open"}]
  /\ tool \in {"running", "ok", "failed"}
  /\ pipe \in Seq(Record)
  /\ raw \in BOOLEAN /\ scanErr \in BOOLEAN
  /\ step \in {"read", "wait", "summary", "ok", "error"}
  /\ written \in Seq(Byte) /\ pending \in Seq(Byte) /\ forwarded \in Seq(Byte)
  /\ writing \in BOOLEAN /\ outErr \in BOOLEAN /\ dropped \in Nat

(* What go test says of itself.                                            *)
ToolInv ==
  /\ \A k \in Package : stage[k] = "pass" => \A t \in Test : truth[k][t] \notin {"running", "fail"}
  /\ \A k \in Package : stage[k] = "skip" => \A t \in Test : truth[k][t] = "unborn"
  /\ \A k \in Package, t \in Test :
       truth[k][t] # "unborn" /\ Above[t] # t => truth[k][Above[t]] # "unborn"
  /\ ~raw /\ tool = "ok" => \A k \in Package : stage[k] \in {"pass", "skip"}
  /\ raw => pipe = <<>> /\ \A k \in Package, t \in Test : truth[k][t] = "unborn"

(* What is in the pipe: the truth, and a package's end after all else.     *)
PipeInv ==
  \A n \in DOMAIN pipe : LET e == pipe[n] IN
    /\ IF e.test = NoTest THEN e.action \in Ends \cup {"oversize"}
       ELSE e.action \in Ends \cup {"run"}
    /\ e.test # NoTest /\ e.action \in Ends => truth[e.pkg][e.test] = e.action
    /\ e.test = NoTest /\ e.action \in Ends =>
         stage[e.pkg] # "open" /\ \A m \in DOMAIN pipe : m > n => pipe[m].pkg # e.pkg

(* What is held: each test once, below the one it is part of, truthfully.  *)
HeldInv ==
  \A k \in Package : LET order == packages[k].order IN
    /\ \A i, j \in DOMAIN order : order[i] = order[j] => i = j
    /\ \A j \in DOMAIN order : Above[order[j]] # order[j] =>
         \E i \in DOMAIN order : i < j /\ order[i] = Above[order[j]]
    /\ \A t \in Test : Status(k, t) # "none" => Status(k, t) = truth[k][t] /\ Known(k, t)

(* What has been printed: nothing of it is held any more, and no failure   *)
(* of it is forgotten.                                                     *)
ReportInv ==
  /\ OneBlock /\ ParentsFirst
  /\ \A b \in DOMAIN report : LET lines == report[b].lines IN
       /\ packages[report[b].pkg].order = <<>>
       /\ \A i \in DOMAIN lines :
            /\ truth[report[b].pkg][lines[i].test] = lines[i].status
            /\ lines[i].status = "fail" => lines[i].test \in failures
  /\ \A t \in failures : \E k \in Package : failedIn[t] = k /\ truth[k][t] = "fail"

(* While records are read, those of a package that was printed are over,   *)
(* and of every test that has begun, and of the test it is part of before  *)
(* it, a record has come or is on its way.                                 *)
ReadInv ==
  step = "read" /\ ~raw =>
    /\ ~scanErr
    /\ \A k \in Package : Reported(k) =>
         stage[k] # "open" /\ \A n \in DOMAIN pipe : pipe[n].pkg # k
    /\ \A k \in Package, t \in Test : truth[k][t] # "unborn" =>
         Known(k, t) \/ Reported(k) \/ \E n \in DOMAIN pipe : Says(n, k, t)
    /\ \A n \in DOMAIN pipe : LET e == pipe[n] IN
         e.test # NoTest /\ Above[e.test] # e.test =>
           \/ Known(e.pkg, Above[e.test])
           \/ \E m \in DOMAIN pipe : m < n /\ Says(m, e.pkg, Above[e.test])

(* Every end of a test is on its way, held or printed.                     *)
ToldInv ==
  ~scanErr => \A k \in Package, t \in Test : truth[k][t] \in Ends =>
    \/ Status(k, t) # "none"
    \/ \E n \in DOMAIN pipe : Says(n, k, t) /\ pipe[n].action \in Ends
    \/ Listed(k, t)

StepInv ==
  /\ ~raw /\ step # "read" /\ ~scanErr => pipe = <<>> /\ tool # "running"
  /\ step \notin {"read", "wait"} => tool # "running"
  /\ raw => step \in {"read", "ok", "error"} /\ ~scanErr
  /\ ~raw => ~outErr
  /\ ~raw /\ Returned => Held = {} /\ step = Verdict
  /\ raw /\ Returned => step = IF outErr \/ tool = "failed" THEN "error" ELSE "ok"

(* What has come out is what was taken in, but for the line being read.    *)
FilterInv ==
  raw /\ ~outErr =>
    \E done \in Seq(Byte) :
      /\ written = done \o pending
      /\ Filtered(done, forwarded)
      /\ IF Returned THEN pending = <<>> ELSE done = <<>> \/ done[Len(done)] = "newline"
      /\ ~writing => ~WholeLine(pending)

Inv == /\ TypeInv /\ ToolInv /\ PipeInv /\ HeldInv
       /\ ReportInv /\ ReadInv /\ ToldInv /\ StepInv /\ FilterInv

-----------------------------------------------------------------------------
(* The invariant holds at first: nothing has been said or held.            *)
LEMMA InitInv == Init => Inv
<1> SUFFICES ASSUME Init PROVE Inv
  OBVIOUS
<1> USE TestCommandAssumption
<1>1. TypeInv
  <2>1. NoResults \in [order : Seq(Test), status : [Test -> Ends \cup {"none"}]]
    BY DEF NoResults
  <2>2. report \in Seq(Block) /\ pipe \in Seq(Record)
    BY DEF Init, ReporterInit
  <2>3. packages \in [Package -> [order : Seq(Test), status : [Test -> Ends \cup {"none"}]]]
    BY <2>1 DEF Init, ReporterInit
  <2>4. failures \subseteq Test /\ failedIn \in [Test -> Package \cup {NoTest}]
    BY DEF Init, ReporterInit
  <2>5. truth \in [Package -> [Test -> Ends \cup {"unborn", "running"}]]
    BY DEF Init
  <2>6. stage \in [Package -> Ends \cup {"open"}]
    BY DEF Init
  <2>7. /\ written \in Seq(Byte) /\ pending \in Seq(Byte) /\ forwarded \in Seq(Byte)
        /\ writing \in BOOLEAN /\ outErr \in BOOLEAN /\ dropped \in Nat
    <3>1. <<>> \in Seq(Byte)
      OBVIOUS
    <3> QED
      BY <3>1 DEF Init, FilterInit
  <2>8. /\ tool \in {"running", "ok", "failed"} /\ raw \in BOOLEAN /\ scanErr \in BOOLEAN
        /\ step \in {"read", "wait", "summary", "ok", "error"}
    BY DEF Init
  <2> QED
    BY <2>2, <2>3, <2>4, <2>5, <2>6, <2>7, <2>8 DEF TypeInv
<1>2. ToolInv
  BY DEF Init, ToolInv
<1>3. PipeInv
  BY DEF Init, PipeInv
<1>4. HeldInv
  BY DEF Init, HeldInv, ReporterInit, NoResults, Status
<1>5. ReportInv
  BY DEF Init, ReportInv, ReporterInit, OneBlock, ParentsFirst
<1>6. ReadInv
  BY DEF Init, ReadInv, ReporterInit, Reported
<1>7. ToldInv
  BY DEF Init, ToldInv, Ends
<1>8. StepInv
  BY DEF Init, StepInv, FilterInit, Returned
<1>9. FilterInv
  <2>1. <<>> \in Seq(Byte) /\ <<>> \o <<>> = <<>>
    OBVIOUS
  <2>2. Filtered(<<>>, <<>>)
    <3>1. Unmarked(<<>>) = {}
      BY DEF Unmarked
    <3>2. Cardinality({}) = 0
      BY FS_EmptySet
    <3> QED
      BY <3>1, <3>2 DEF Filtered
  <2>3. ~WholeLine(<<>>)
    BY DEF WholeLine, Contains
  <2> QED
    BY <2>1, <2>2, <2>3 DEF Init, FilterInit, FilterInv, Returned
<1> QED
  BY <1>1, <1>2, <1>3, <1>4, <1>5, <1>6, <1>7, <1>8, <1>9 DEF Inv

(* Steps that say nothing and hear nothing: go test exits or is killed.    *)
LEMMA ToolEndsInv == Inv /\ (ToolExits \/ ToolKilled) => Inv'
<1> SUFFICES ASSUME Inv, ToolExits \/ ToolKilled PROVE Inv'
  OBVIOUS
<1>0. /\ UNCHANGED <<truth, stage, pipe, commandVars, reporterVars, filterVars>>
      /\ tool = "running" /\ tool' \in {"ok", "failed"}
      /\ ~raw /\ tool' = "ok" => \A k \in Package : stage[k] \in {"pass", "skip"}
  BY DEF ToolExits, ToolKilled, Inv, TypeInv, Ends
<1> USE <1>0 DEF commandVars, reporterVars, filterVars
<1>1. TypeInv'
  BY DEF Inv, TypeInv
<1>2. ToolInv'
  BY DEF Inv, ToolInv
<1>3. PipeInv'
  BY DEF Inv, PipeInv
<1>4. HeldInv'
  BY DEF Inv, HeldInv, Status, Known
<1>5. ReportInv'
  BY DEF Inv, ReportInv, OneBlock, ParentsFirst
<1>6. ReadInv'
  BY DEF Inv, ReadInv, Known, Reported, Says
<1>7. ToldInv'
  BY DEF Inv, ToldInv, Status, Listed, Says
<1>8. StepInv'
  <2>1. ~Returned
    BY DEF Inv, StepInv, Returned
  <2> QED
    BY <2>1 DEF Inv, StepInv, Returned
<1>9. FilterInv'
  BY DEF Inv, FilterInv, Returned
<1> QED
  BY <1>1, <1>2, <1>3, <1>4, <1>5, <1>6, <1>7, <1>8, <1>9 DEF Inv

(* A go test that does not start leaves everything as it was at first, but *)
(* for its outcome.                                                        *)
LEMMA StartFailsInv == Inv /\ StartFails => Inv'
<1> SUFFICES ASSUME Inv, StartFails PROVE Inv'
  OBVIOUS
<1>0. /\ UNCHANGED <<truth, stage, pipe, raw, scanErr, reporterVars, filterVars>>
      /\ Init /\ step' = "error" /\ tool' = "failed"
  BY DEF StartFails
<1> USE <1>0 DEF reporterVars, filterVars
<1>1. TypeInv'
  BY DEF Inv, TypeInv
<1>2. ToolInv'
  BY DEF Inv, ToolInv
<1>3. PipeInv'
  BY DEF Inv, PipeInv
<1>4. HeldInv'
  BY DEF Inv, HeldInv, Status, Known
<1>5. ReportInv'
  BY DEF Inv, ReportInv, OneBlock, ParentsFirst
<1>6. ReadInv'
  BY DEF ReadInv
<1>7. ToldInv'
  BY DEF Inv, ToldInv, Status, Listed, Says
<1>8. StepInv'
  <2>1. pipe = <<>> /\ scanErr = FALSE /\ outErr = FALSE
    BY DEF Init, FilterInit
  <2>2. Held' = {}
    BY DEF Init, ReporterInit, NoResults, Held
  <2> QED
    BY <2>1, <2>2 DEF Inv, TypeInv, StepInv, Returned, Verdict
<1>9. FilterInv'
  <2>1. SUFFICES ASSUME raw, ~outErr
        PROVE  \E done \in Seq(Byte) :
                 /\ written = done \o pending /\ Filtered(done, forwarded)
                 /\ pending = <<>> /\ ~WholeLine(pending)
    BY DEF FilterInv, Returned
  <2>2. PICK done \in Seq(Byte) : written = done \o pending /\ Filtered(done, forwarded)
    BY <2>1 DEF Inv, FilterInv
  <2>3. pending = <<>> /\ ~WholeLine(pending)
    BY DEF Init, FilterInit, WholeLine, Contains
  <2> QED
    BY <2>2, <2>3
<1> QED
  BY <1>1, <1>2, <1>3, <1>4, <1>5, <1>6, <1>7, <1>8, <1>9 DEF Inv

-----------------------------------------------------------------------------
(* A line of a block is about a test that has ended.                       *)
LEMMA BlockLines ==
  ASSUME NEW q \in Seq(Block), NEW b \in DOMAIN q
  PROVE  /\ q[b].pkg \in Package
         /\ \A i \in DOMAIN q[b].lines :
              /\ i \in Nat /\ q[b].lines[i] \in Line
              /\ q[b].lines[i].test \in Test /\ q[b].lines[i].status \in Ends
<1>1. q[b] \in Block
  OBVIOUS
<1>2. q[b].pkg \in Package /\ q[b].lines \in UNION {[D -> Line] : D \in SUBSET Nat}
  BY <1>1 DEF Block
<1>3. PICK D \in SUBSET Nat : q[b].lines \in [D -> Line]
  BY <1>2
<1>4. \A i \in D : q[b].lines[i] \in Line
  BY <1>3
<1> QED
  BY <1>2, <1>3, <1>4 DEF Line

(* go test says something: record a about test t, or about package k.      *)
Speaks(k, t, a) ==
  \/ t \in Test /\ a = "run" /\ TestStarts(k, t)
  \/ t \in Test /\ a \in Ends /\ TestEnds(k, t, a)
  \/ t = NoTest /\ a \in Ends /\ PackageEnds(k, a)
  \/ t = NoTest /\ a = "oversize" /\ PrintsTooMuch(k)

(* The record is the last in the pipe, and nothing else of the command or  *)
(* the reporter changes.                                                   *)
LEMMA SpeakSends ==
  ASSUME Inv, NEW k \in Package, NEW t, NEW a, Speaks(k, t, a)
  PROVE  /\ pipe' \in Seq(Record)
         /\ Len(pipe) \in Nat /\ DOMAIN pipe = 1..Len(pipe) /\ DOMAIN pipe' = 1..Len(pipe) + 1
         /\ \A n \in DOMAIN pipe : pipe'[n] = pipe[n]
         /\ pipe'[Len(pipe) + 1] = [pkg |-> k, test |-> t, action |-> a]
         /\ stage[k] = "open" /\ ~raw /\ tool = "running" /\ t \in Test \cup {NoTest}
         /\ UNCHANGED <<tool, commandVars, reporterVars, filterVars>>
<1>1. /\ Send(k, t, a) /\ stage[k] = "open"
      /\ t \in Test \cup {NoTest} /\ a \in Ends \cup {"run", "oversize"}
  BY DEF Speaks, TestStarts, TestEnds, PackageEnds, PrintsTooMuch
<1> DEFINE r == [pkg |-> k, test |-> t, action |-> a]
<1>2. r \in Record
  BY <1>1 DEF Record
<1>3. pipe \in Seq(Record)
  BY DEF Inv, TypeInv
<1>4. pipe' = Append(pipe, r)
  BY <1>1 DEF Send
<1> HIDE DEF r
<1>5. /\ pipe' \in Seq(Record)
      /\ Len(pipe) \in Nat /\ DOMAIN pipe = 1..Len(pipe) /\ DOMAIN pipe' = 1..Len(pipe) + 1
      /\ \A n \in DOMAIN pipe : pipe'[n] = pipe[n]
      /\ pipe'[Len(pipe) + 1] = r
  BY <1>2, <1>3, <1>4
<1> QED
  BY <1>1, <1>5 DEF Send, r

(* Only test t, or only the package, is told of by a record about it: an   *)
(* end is final, and a subtest begins and ends after its parent began.     *)
LEMMA SpeakTruth ==
  ASSUME Inv, NEW k \in Package, NEW t, NEW a, Speaks(k, t, a)
  PROVE  /\ truth' \in [Package -> [Test -> Ends \cup {"unborn", "running"}]]
         /\ stage' \in [Package -> Ends \cup {"open"}]
         /\ \A j \in Package, c \in Test : truth'[j][c] # truth[j][c] =>
              /\ j = k /\ c = t
              /\ truth[j][c] \in {"unborn", "running"} /\ truth'[j][c] # "unborn"
         /\ t \in Test => truth[k][t] \in {"unborn", "running"} /\ a # "oversize"
         /\ t \in Test /\ a \in Ends => truth'[k][t] = a
         /\ t \in Test /\ a = "run" => truth'[k][t] = "running"
         /\ t \in Test /\ Above[t] # t => truth[k][Above[t]] # "unborn"
         /\ \A j \in Package : stage'[j] # stage[j] => j = k /\ t = NoTest /\ stage'[j] = a
         /\ t = NoTest => a # "run" /\ (a \in Ends => stage'[k] = a) /\ truth' = truth
<1> USE TestCommandAssumption
<1>0. /\ truth \in [Package -> [Test -> Ends \cup {"unborn", "running"}]]
      /\ stage \in [Package -> Ends \cup {"open"}]
      /\ \A j \in Package, c \in Test :
           truth[j][c] # "unborn" /\ Above[c] # c => truth[j][Above[c]] # "unborn"
  BY DEF Inv, TypeInv, ToolInv
<1>1. CASE t \in Test /\ a = "run" /\ TestStarts(k, t)
  <2>1. /\ truth[k][t] = "unborn" /\ truth' = [truth EXCEPT ![k][t] = "running"]
        /\ Above[t] # t => truth[k][Above[t]] = "running"
        /\ stage' = stage /\ t # NoTest /\ t \in Test /\ a = "run"
    BY <1>1 DEF TestStarts
  <2> QED
    BY <1>0, <2>1 DEF Ends
<1>2. CASE t \in Test /\ a \in Ends /\ TestEnds(k, t, a)
  <2>1. /\ truth[k][t] = "running" /\ truth' = [truth EXCEPT ![k][t] = a]
        /\ stage' = stage /\ t # NoTest /\ t \in Test /\ a \in Ends
    BY <1>2 DEF TestEnds
  <2> QED
    BY <1>0, <2>1 DEF Ends
<1>3. CASE t = NoTest /\ a \in Ends /\ PackageEnds(k, a)
  <2>1. /\ truth' = truth /\ stage' = [stage EXCEPT ![k] = a]
        /\ t = NoTest /\ t \notin Test /\ a \in Ends
    BY <1>3 DEF PackageEnds
  <2> QED
    BY <1>0, <2>1 DEF Ends
<1>4. CASE t = NoTest /\ a = "oversize" /\ PrintsTooMuch(k)
  <2>1. truth' = truth /\ stage' = stage /\ t \notin Test /\ t = NoTest /\ a = "oversize"
    BY <1>4 DEF PrintsTooMuch
  <2> QED
    BY <1>0, <2>1 DEF Ends
<1> QED
  BY <1>1, <1>2, <1>3, <1>4 DEF Speaks

(* What go test says keeps the invariant.                                  *)
LEMMA SpeaksInv ==
  ASSUME Inv, NEW k \in Package, NEW t, NEW a, Speaks(k, t, a)
  PROVE  Inv'
<1> USE TestCommandAssumption
<1> DEFINE last == Len(pipe) + 1
           r == [pkg |-> k, test |-> t, action |-> a]
<1>1. /\ pipe' \in Seq(Record)
      /\ Len(pipe) \in Nat /\ DOMAIN pipe = 1..Len(pipe) /\ DOMAIN pipe' = 1..last
      /\ \A n \in DOMAIN pipe : pipe'[n] = pipe[n]
      /\ pipe'[last] = r
      /\ stage[k] = "open" /\ ~raw /\ tool = "running" /\ t \in Test \cup {NoTest}
      /\ UNCHANGED <<tool, commandVars, reporterVars, filterVars>>
  BY SpeakSends
<1>2. /\ UNCHANGED <<tool, raw, step, scanErr, packages, report, failures, failedIn>>
      /\ UNCHANGED <<written, writing, pending, forwarded, dropped, outErr>>
  BY <1>1 DEF commandVars, reporterVars, filterVars
<1>3. \A j \in Package, c \in Test : truth'[j][c] # truth[j][c] =>
        /\ j = k /\ c = t
        /\ truth[j][c] \in {"unborn", "running"} /\ truth'[j][c] # "unborn"
  BY SpeakTruth
<1>4. /\ truth' \in [Package -> [Test -> Ends \cup {"unborn", "running"}]]
      /\ stage' \in [Package -> Ends \cup {"open"}]
      /\ t \in Test => truth[k][t] \in {"unborn", "running"} /\ a # "oversize"
      /\ t \in Test /\ a \in Ends => truth'[k][t] = a
      /\ t \in Test /\ a = "run" => truth'[k][t] = "running"
      /\ t \in Test /\ Above[t] # t => truth[k][Above[t]] # "unborn"
      /\ \A j \in Package : stage'[j] # stage[j] => j = k /\ t = NoTest /\ stage'[j] = a
      /\ t = NoTest => a # "run" /\ (a \in Ends => stage'[k] = a) /\ truth' = truth
  BY SpeakTruth
<1>5. a \in Ends \cup {"run", "oversize"}
  BY DEF Speaks
<1>6. \A n \in DOMAIN pipe' : n \in DOMAIN pipe \/ n = last
  BY <1>1
<1>7. \A n \in DOMAIN pipe : n \in DOMAIN pipe' /\ n < last
  BY <1>1
<1>8. last \in DOMAIN pipe'
  BY <1>1
<1>9. \A j \in Package, c \in Test :
        (truth[j][c] \in Ends => truth'[j][c] = truth[j][c])
  BY <1>3 DEF Ends
<1> HIDE DEF last
<1>10. TypeInv'
  BY <1>1, <1>2, <1>4 DEF Inv, TypeInv
<1>11. ToolInv'
  <2>1. \A j \in Package : stage'[j] = "pass" =>
          \A c \in Test : truth'[j][c] \notin {"running", "fail"}
    <3>1. SUFFICES ASSUME NEW j \in Package, stage'[j] = "pass", NEW c \in Test
                   PROVE  truth'[j][c] \notin {"running", "fail"}
      OBVIOUS
    <3>2. CASE stage[j] = "pass"
      <4>1. truth[j][c] \notin {"running", "fail"} /\ j # k
        BY <1>1, <3>2 DEF Inv, ToolInv
      <4> QED
        BY <1>3, <4>1
    <3>3. CASE stage[j] # "pass"
      <4>1. j = k /\ t = NoTest /\ a = "pass" /\ truth' = truth
        BY <1>4, <3>1, <3>3
      <4>2. PackageEnds(k, "pass")
        BY <4>1 DEF Speaks
      <4> QED
        BY <4>1, <4>2 DEF PackageEnds
    <3> QED
      BY <3>2, <3>3
  <2>2. \A j \in Package : stage'[j] = "skip" => \A c \in Test : truth'[j][c] = "unborn"
    <3>1. SUFFICES ASSUME NEW j \in Package, stage'[j] = "skip", NEW c \in Test
                   PROVE  truth'[j][c] = "unborn"
      OBVIOUS
    <3>2. CASE stage[j] = "skip"
      <4>1. truth[j][c] = "unborn" /\ j # k
        BY <1>1, <3>2 DEF Inv, ToolInv
      <4> QED
        BY <1>3, <4>1
    <3>3. CASE stage[j] # "skip"
      <4>1. j = k /\ t = NoTest /\ a = "skip" /\ truth' = truth
        BY <1>4, <3>1, <3>3
      <4>2. PackageEnds(k, "skip")
        BY <4>1 DEF Speaks
      <4> QED
        BY <4>1, <4>2 DEF PackageEnds
    <3> QED
      BY <3>2, <3>3
  <2>3. \A j \in Package, c \in Test :
          truth'[j][c] # "unborn" /\ Above[c] # c => truth'[j][Above[c]] # "unborn"
    <3>1. SUFFICES ASSUME NEW j \in Package, NEW c \in Test,
                          truth'[j][c] # "unborn", Above[c] # c
                   PROVE  truth'[j][Above[c]] # "unborn"
      OBVIOUS
    <3>2. Above[c] \in Test
      OBVIOUS
    <3>3. truth[j][Above[c]] # "unborn"
      BY <1>3, <1>4, <3>1 DEF Inv, ToolInv
    <3> QED
      BY <1>3, <3>2, <3>3
  <2> QED
    BY <1>1, <1>2, <2>1, <2>2, <2>3 DEF ToolInv
<1>12. PipeInv'
  <2>1. SUFFICES ASSUME NEW n \in DOMAIN pipe' PROVE
          /\ IF pipe'[n].test = NoTest THEN pipe'[n].action \in Ends \cup {"oversize"}
             ELSE pipe'[n].action \in Ends \cup {"run"}
          /\ pipe'[n].test # NoTest /\ pipe'[n].action \in Ends =>
               truth'[pipe'[n].pkg][pipe'[n].test] = pipe'[n].action
          /\ pipe'[n].test = NoTest /\ pipe'[n].action \in Ends =>
               /\ stage'[pipe'[n].pkg] # "open"
               /\ \A m \in DOMAIN pipe' : m > n => pipe'[m].pkg # pipe'[n].pkg
    BY DEF PipeInv
  <2>2. CASE n \in DOMAIN pipe
    <3>1. /\ pipe'[n] = pipe[n] /\ pipe[n].pkg \in Package
          /\ pipe[n].test \in Test \cup {NoTest}
      <4>1. pipe \in Seq(Record)
        BY DEF Inv, TypeInv
      <4>2. pipe[n] \in Record
        BY <1>1, <2>2, <4>1
      <4> QED
        BY <1>1, <2>2, <4>2 DEF Record
    <3>2. /\ IF pipe[n].test = NoTest THEN pipe[n].action \in Ends \cup {"oversize"}
             ELSE pipe[n].action \in Ends \cup {"run"}
          /\ pipe[n].test # NoTest /\ pipe[n].action \in Ends =>
               truth[pipe[n].pkg][pipe[n].test] = pipe[n].action
          /\ pipe[n].test = NoTest /\ pipe[n].action \in Ends =>
               /\ stage[pipe[n].pkg] # "open"
               /\ \A m \in DOMAIN pipe : m > n => pipe[m].pkg # pipe[n].pkg
      BY <2>2 DEF Inv, PipeInv
    <3>3. ASSUME pipe[n].test # NoTest, pipe[n].action \in Ends
          PROVE  truth'[pipe[n].pkg][pipe[n].test] = pipe[n].action
      BY <1>9, <3>1, <3>2, <3>3
    <3>4. ASSUME pipe[n].test = NoTest, pipe[n].action \in Ends
          PROVE  /\ stage'[pipe[n].pkg] # "open"
                 /\ \A m \in DOMAIN pipe' : m > n => pipe'[m].pkg # pipe[n].pkg
      <4>1. stage[pipe[n].pkg] # "open" /\ pipe[n].pkg # k
        BY <1>1, <3>2, <3>4
      <4>2. ASSUME NEW m \in DOMAIN pipe', m > n PROVE pipe'[m].pkg # pipe[n].pkg
        BY <1>1, <1>6, <3>2, <3>4, <4>1, <4>2
      <4> QED
        BY <1>4, <3>1, <4>1, <4>2
    <3> QED
      BY <3>1, <3>2, <3>3, <3>4
  <2>3. CASE n = last
    <3>1. \A m \in DOMAIN pipe' : ~(m > n)
      BY <1>1, <2>3 DEF last
    <3>2. pipe'[n].pkg = k /\ pipe'[n].test = t /\ pipe'[n].action = a
      BY <1>1, <2>3
    <3>3. t # NoTest => t \in Test
      BY <1>1
    <3>4. "run" \notin Ends /\ "oversize" \notin Ends /\ "open" \notin Ends
      BY DEF Ends
    <3> QED
      BY <1>4, <1>5, <3>1, <3>2, <3>3, <3>4
  <2> QED
    BY <1>6, <2>2, <2>3
<1>13. HeldInv'
  <2>1. \A j \in Package, c \in Test : Status(j, c) # "none" => Status(j, c) \in Ends
    BY DEF Inv, TypeInv, Status
  <2> QED
    BY <1>2, <1>9, <2>1 DEF Inv, HeldInv, Status, Known
<1>14. ReportInv'
  <2>1. OneBlock' /\ ParentsFirst'
    BY <1>2 DEF Inv, ReportInv, OneBlock, ParentsFirst
  <2>2. ASSUME NEW b \in DOMAIN report', NEW i \in DOMAIN report'[b].lines
        PROVE  truth'[report'[b].pkg][report'[b].lines[i].test] = report'[b].lines[i].status
    <3>1. report \in Seq(Block) /\ report' = report
      BY <1>2 DEF Inv, TypeInv
    <3>2. /\ report[b].pkg \in Package /\ report[b].lines[i].test \in Test
          /\ report[b].lines[i].status \in Ends
      BY <2>2, <3>1, BlockLines
    <3>3. truth[report[b].pkg][report[b].lines[i].test] = report[b].lines[i].status
      BY <2>2, <3>1 DEF Inv, ReportInv
    <3> QED
      BY <1>9, <3>1, <3>2, <3>3
  <2>3. \A f \in failures' : \E j \in Package : failedIn'[f] = j /\ truth'[j][f] = "fail"
    <3>1. "fail" \in Ends /\ failures \subseteq Test
      BY DEF Inv, TypeInv, Ends
    <3> QED
      BY <1>2, <1>9, <3>1 DEF Inv, ReportInv
  <2> QED
    BY <1>2, <2>1, <2>2, <2>3 DEF Inv, ReportInv
<1>15. ReadInv'
  <2>1. SUFFICES ASSUME step = "read"
                 PROVE  /\ ~scanErr'
                        /\ \A j \in Package : Reported(j)' =>
                             stage'[j] # "open" /\ \A n \in DOMAIN pipe' : pipe'[n].pkg # j
                        /\ \A j \in Package, c \in Test : truth'[j][c] # "unborn" =>
                             \/ Known(j, c)' \/ Reported(j)'
                             \/ \E n \in DOMAIN pipe' : Says(n, j, c)'
                        /\ \A n \in DOMAIN pipe' :
                             pipe'[n].test # NoTest /\ Above[pipe'[n].test] # pipe'[n].test =>
                               \/ Known(pipe[n].pkg, Above[pipe[n].test])'
                               \/ \E m \in DOMAIN pipe' :
                                    m < n /\ Says(m, pipe[n].pkg, Above[pipe[n].test])'
    BY <1>2 DEF ReadInv, Says, Known
  <2>2. /\ ~scanErr
        /\ \A j \in Package : Reported(j) =>
             stage[j] # "open" /\ \A n \in DOMAIN pipe : pipe[n].pkg # j
        /\ \A j \in Package, c \in Test : truth[j][c] # "unborn" =>
             Known(j, c) \/ Reported(j) \/ \E n \in DOMAIN pipe : Says(n, j, c)
    BY <1>1, <2>1 DEF Inv, ReadInv
  <2>3. ASSUME NEW j \in Package, Reported(j)'
        PROVE  stage'[j] # "open" /\ \A n \in DOMAIN pipe' : pipe'[n].pkg # j
    <3>1. Reported(j)
      BY <1>2, <2>3 DEF Reported
    <3>2. stage[j] # "open" /\ j # k
      BY <1>1, <2>2, <3>1
    <3>3. pipe'[last].pkg # j
      BY <1>1, <3>2
    <3> QED
      BY <1>1, <1>4, <1>6, <2>2, <3>1, <3>2, <3>3
  <2>4. ASSUME NEW j \in Package, NEW c \in Test, truth[j][c] # "unborn"
        PROVE  Known(j, c)' \/ Reported(j)' \/ \E n \in DOMAIN pipe' : Says(n, j, c)'
    BY <1>1, <1>2, <1>7, <2>2, <2>4 DEF Known, Reported, Says
  <2>5. ASSUME NEW j \in Package, NEW c \in Test, truth'[j][c] # "unborn"
        PROVE  Known(j, c)' \/ Reported(j)' \/ \E n \in DOMAIN pipe' : Says(n, j, c)'
    <3>1. CASE truth[j][c] # "unborn"
      BY <2>4, <3>1
    <3>2. CASE truth[j][c] = "unborn"
      <4>1. j = k /\ c = t
        BY <1>3, <2>5, <3>2
      <4> QED
        BY <1>1, <1>8, <4>1 DEF Says
    <3> QED
      BY <3>1, <3>2
  <2>6. ASSUME NEW n \in DOMAIN pipe',
               pipe'[n].test # NoTest, Above[pipe'[n].test] # pipe'[n].test
        PROVE  \/ Known(pipe[n].pkg, Above[pipe[n].test])'
               \/ \E m \in DOMAIN pipe' :
                    m < n /\ Says(m, pipe[n].pkg, Above[pipe[n].test])'
    <3>1. CASE n \in DOMAIN pipe
      <4>1. \/ Known(pipe[n].pkg, Above[pipe[n].test])
            \/ \E m \in DOMAIN pipe : m < n /\ Says(m, pipe[n].pkg, Above[pipe[n].test])
        BY <1>1, <2>1, <2>6, <3>1 DEF Inv, ReadInv
      <4> QED
        BY <1>1, <1>2, <1>7, <3>1, <4>1 DEF Known, Says
    <3>2. CASE n = last
      <4>1. pipe'[n].pkg = k /\ pipe'[n].test = t /\ t \in Test /\ Above[t] # t
        BY <1>1, <2>6, <3>2
      <4>2. Above[t] \in Test /\ truth[k][Above[t]] # "unborn" /\ ~Reported(k)
        BY <1>1, <1>4, <2>2, <4>1
      <4>3. Known(k, Above[t]) \/ \E m \in DOMAIN pipe : Says(m, k, Above[t])
        BY <2>2, <4>2
      <4> QED
        BY <1>1, <1>2, <1>7, <3>2, <4>1, <4>3 DEF Known, Says
    <3> QED
      BY <1>6, <3>1, <3>2
  <2> QED
    BY <1>2, <2>2, <2>3, <2>5, <2>6
<1>16. ToldInv'
  <2>1. SUFFICES ASSUME ~scanErr, NEW j \in Package, NEW c \in Test, truth'[j][c] \in Ends
                 PROVE  \/ Status(j, c)' # "none"
                        \/ \E n \in DOMAIN pipe' : Says(n, j, c)' /\ pipe'[n].action \in Ends
                        \/ Listed(j, c)'
    BY <1>2 DEF ToldInv, Says
  <2>2. CASE truth[j][c] \in Ends
    <3>1. \/ Status(j, c) # "none"
          \/ \E n \in DOMAIN pipe : Says(n, j, c) /\ pipe[n].action \in Ends
          \/ Listed(j, c)
      BY <2>1, <2>2 DEF Inv, ToldInv
    <3> QED
      BY <1>1, <1>2, <1>7, <3>1 DEF Status, Says, Listed
  <2>3. CASE truth[j][c] \notin Ends
    <3>1. j = k /\ c = t
      BY <1>3, <2>1, <2>3
    <3>2. a \in Ends
      <4>1. "running" \notin Ends
        BY DEF Ends
      <4> QED
        BY <1>4, <1>5, <2>1, <3>1, <4>1
    <3> QED
      BY <1>1, <1>8, <3>1, <3>2 DEF Says
  <2> QED
    BY <2>2, <2>3
<1>17. StepInv'
  BY <1>1, <1>2 DEF Inv, StepInv, Returned
<1>18. FilterInv'
  BY <1>1, <1>2 DEF FilterInv
<1> QED
  BY <1>10, <1>11, <1>12, <1>13, <1>14, <1>15, <1>16, <1>17, <1>18 DEF Inv

-----------------------------------------------------------------------------
(* Taking the first record out leaves the others, in their order.          *)
LEMMA PipeTail ==
  ASSUME Inv, pipe # <<>>, pipe' = Tail(pipe), UNCHANGED <<truth, stage>>
  PROVE  /\ pipe' \in Seq(Record) /\ PipeInv'
         /\ 1 \in DOMAIN pipe /\ pipe[1] = Head(pipe) /\ pipe[1] \in Record
         /\ \A n \in DOMAIN pipe' : n \in Nat /\ n + 1 \in DOMAIN pipe /\ pipe'[n] = pipe[n + 1]
         /\ \A n \in DOMAIN pipe :
              n = 1 \/ (n > 1 /\ n - 1 \in DOMAIN pipe' /\ pipe'[n - 1] = pipe[n])
<1>1. pipe \in Seq(Record)
  BY DEF Inv, TypeInv
<1>2. /\ pipe' \in Seq(Record)
      /\ 1 \in DOMAIN pipe /\ pipe[1] = Head(pipe) /\ pipe[1] \in Record
      /\ \A n \in DOMAIN pipe' : n \in Nat /\ n + 1 \in DOMAIN pipe /\ pipe'[n] = pipe[n + 1]
      /\ \A n \in DOMAIN pipe :
           n = 1 \/ (n > 1 /\ n - 1 \in DOMAIN pipe' /\ pipe'[n - 1] = pipe[n])
  BY <1>1, HeadTailProperties
<1>3. ASSUME NEW n \in DOMAIN pipe', pipe'[n].test = NoTest, pipe'[n].action \in Ends,
             NEW m \in DOMAIN pipe', m > n
      PROVE  pipe'[m].pkg # pipe'[n].pkg
  <2>1. m + 1 > n + 1
    BY <1>2, <1>3
  <2> QED
    BY <1>2, <1>3, <2>1 DEF Inv, PipeInv
<1>4. PipeInv'
  BY <1>2, <1>3 DEF Inv, PipeInv
<1> QED
  BY <1>2, <1>4

(* The command stops reading, waits, or returns.                           *)
LEMMA StopsInv == Inv /\ (ScanFails \/ ReadsEnd \/ Waits \/ Returns) => Inv'
<1> SUFFICES ASSUME Inv, ScanFails \/ ReadsEnd \/ Waits \/ Returns PROVE Inv'
  OBVIOUS
<1>1. /\ UNCHANGED <<truth, stage, tool, raw>>
      /\ UNCHANGED <<packages, report, failures, failedIn>>
      /\ UNCHANGED <<written, writing, pending, forwarded, dropped, outErr>>
      /\ ~raw /\ step \in {"read", "wait", "summary"}
  BY DEF ScanFails, ReadsEnd, Waits, Returns, toolVars, reporterVars, filterVars
<1>2. pipe' \in Seq(Record) /\ PipeInv'
  <2>1. CASE pipe' = pipe
    BY <1>1, <2>1 DEF Inv, TypeInv, PipeInv
  <2>2. CASE pipe # <<>> /\ pipe' = Tail(pipe)
    BY <1>1, <2>2, PipeTail
  <2> QED
    BY <2>1, <2>2 DEF ScanFails, ReadsEnd, Waits, Returns
<1>3. TypeInv'
  <2>1. scanErr' \in BOOLEAN /\ step' \in {"read", "wait", "summary", "ok", "error"}
    BY DEF ScanFails, ReadsEnd, Waits, Returns, Verdict, Inv, TypeInv
  <2> QED
    BY <1>1, <1>2, <2>1 DEF Inv, TypeInv
<1>4. ToolInv'
  BY <1>1 DEF Inv, ToolInv
<1>5. HeldInv'
  BY <1>1 DEF Inv, HeldInv, Status, Known
<1>6. ReportInv'
  BY <1>1 DEF Inv, ReportInv, OneBlock, ParentsFirst
<1>7. ReadInv'
  <2>1. step' # "read"
    BY DEF ScanFails, ReadsEnd, Waits, Returns, Verdict
  <2> QED
    BY <2>1 DEF ReadInv
<1>8. ToldInv'
  <2>1. scanErr' \/ (pipe' = pipe /\ scanErr' = scanErr)
    BY DEF ScanFails, ReadsEnd, Waits, Returns
  <2> QED
    BY <1>1, <2>1 DEF Inv, ToldInv, Status, Says, Listed
<1>9. StepInv'
  <2>1. CASE ScanFails
    BY <1>1, <2>1 DEF Inv, StepInv, Returned, ScanFails
  <2>2. CASE ReadsEnd
    BY <1>1, <2>2 DEF Inv, StepInv, Returned, ReadsEnd
  <2>3. CASE Waits
    BY <1>1, <2>3 DEF Inv, StepInv, Returned, Waits
  <2>4. CASE Returns
    <3>1. /\ Held' = Held /\ Verdict' = Verdict /\ step' = Verdict /\ Held = {}
          /\ UNCHANGED <<pipe, scanErr>> /\ step = "summary"
      BY <1>1, <2>4 DEF Returns, Held, Verdict
    <3> QED
      BY <1>1, <3>1 DEF Inv, StepInv
  <2> QED
    BY <2>1, <2>2, <2>3, <2>4
<1>10. FilterInv'
  BY <1>1 DEF FilterInv
<1> QED
  BY <1>2, <1>3, <1>4, <1>5, <1>6, <1>7, <1>8, <1>9, <1>10 DEF Inv

-----------------------------------------------------------------------------
(* What a package is printed as.                                           *)
LEMMA LinesOfHeld ==
  ASSUME TypeInv, NEW k \in Package
  PROVE  /\ [pkg |-> k, lines |-> Lines(k)] \in Block
         /\ \A i : i \in DOMAIN Lines(k) <=>
              i \in DOMAIN packages[k].order /\ Status(k, packages[k].order[i]) # "none"
         /\ \A i \in DOMAIN Lines(k) :
              /\ Lines(k)[i].test = packages[k].order[i]
              /\ Lines(k)[i].status = Status(k, packages[k].order[i])
<1> DEFINE D == {i \in DOMAIN packages[k].order : packages[k].status[packages[k].order[i]] # "none"}
<1>1. packages[k].order \in Seq(Test) /\ packages[k].status \in [Test -> Ends \cup {"none"}]
  BY DEF TypeInv
<1>2. D \in SUBSET Nat
  BY <1>1
<1>3. \A i \in D : /\ packages[k].order[i] \in Test
                   /\ packages[k].status[packages[k].order[i]] \in Ends
  BY <1>1
<1>4. Lines(k) = [i \in D |-> [test   |-> packages[k].order[i],
                               status |-> packages[k].status[packages[k].order[i]]]]
  BY DEF Lines
<1>5. Lines(k) \in [D -> Line]
  BY <1>3, <1>4 DEF Line
<1>6. Lines(k) \in UNION {[E -> Line] : E \in SUBSET Nat}
  BY <1>2, <1>5
<1>7. [pkg |-> k, lines |-> Lines(k)] \in Block
  BY <1>6 DEF Block
<1>8. \A i : i \in DOMAIN Lines(k) <=>
        i \in DOMAIN packages[k].order /\ Status(k, packages[k].order[i]) # "none"
  BY <1>4 DEF Status
<1>9. \A i \in DOMAIN Lines(k) :
        /\ Lines(k)[i].test = packages[k].order[i]
        /\ Lines(k)[i].status = Status(k, packages[k].order[i])
  <2>1. SUFFICES ASSUME NEW i \in D
                 PROVE  /\ Lines(k)[i].test = packages[k].order[i]
                        /\ Lines(k)[i].status = Status(k, packages[k].order[i])
    BY <1>4
  <2>2. Lines(k)[i] = [test   |-> packages[k].order[i],
                       status |-> packages[k].status[packages[k].order[i]]]
    BY <1>4
  <2> QED
    BY <2>2 DEF Status
<1> QED
  BY <1>7, <1>8, <1>9

(* A package is printed once, in the order it was held in, and no result   *)
(* of it is lost on the way.                                               *)
LEMMA FlushKeeps ==
  ASSUME Inv, NEW k \in Package, Flush(k), truth' = truth
  PROVE  /\ packages' \in [Package -> [order : Seq(Test), status : [Test -> Ends \cup {"none"}]]]
         /\ report' \in Seq(Block) /\ failures' \subseteq Test
         /\ failedIn' \in [Test -> Package \cup {NoTest}]
         /\ HeldInv' /\ ReportInv'
         /\ \A j \in Package, c \in Test :
              Status(j, c) # "none" \/ Listed(j, c) => Status(j, c)' # "none" \/ Listed(j, c)'
         /\ \A j \in Package, c \in Test : Known(j, c) =>
              Known(j, c)' \/ (j = k /\ Reported(j)')
         /\ \A j \in Package : Reported(j) => Reported(j)'
         /\ \A j \in Package : Reported(j)' => Reported(j) \/ j = k
<1> USE TestCommandAssumption
<1>0. /\ packages \in [Package -> [order : Seq(Test), status : [Test -> Ends \cup {"none"}]]]
      /\ report \in Seq(Block) /\ failures \subseteq Test
      /\ failedIn \in [Test -> Package \cup {NoTest}]
  BY DEF Inv, TypeInv
<1>1. CASE k \notin Held
  <2>1. UNCHANGED <<packages, report, failures, failedIn>>
    BY <1>1 DEF Flush, reporterVars
  <2>2. HeldInv' /\ ReportInv'
    BY <2>1 DEF Inv, HeldInv, Status, Known, ReportInv, OneBlock, ParentsFirst
  <2> QED
    BY <1>0, <2>1, <2>2 DEF Status, Known, Listed, Reported
<1>2. CASE k \in Held
  <2> DEFINE block == [pkg |-> k, lines |-> Lines(k)]
             last  == Len(report) + 1
  <2>1. /\ report' = Append(report, block)
        /\ failures' = failures \cup Failed(k)
        /\ failedIn' = [t \in Test |-> IF t \in Failed(k) THEN k ELSE failedIn[t]]
        /\ packages' = [packages EXCEPT ![k] = NoResults]
        /\ packages[k].order # <<>>
    BY <1>2 DEF Flush, Printed, Held
  <2>2. /\ block \in Block /\ block.pkg = k
        /\ \A i \in DOMAIN block.lines :
             /\ i \in DOMAIN packages[k].order
             /\ block.lines[i].test = packages[k].order[i]
             /\ block.lines[i].status = Status(k, packages[k].order[i])
             /\ block.lines[i].status # "none"
        /\ \A i \in DOMAIN packages[k].order : Status(k, packages[k].order[i]) # "none" =>
             i \in DOMAIN block.lines
    BY LinesOfHeld DEF Inv
  <2> HIDE DEF block
  <2>3. /\ report' \in Seq(Block) /\ DOMAIN report = 1..Len(report) /\ Len(report) \in Nat
        /\ DOMAIN report' = 1..last /\ report'[last] = block
        /\ \A b \in DOMAIN report : report'[b] = report[b]
    BY <1>0, <2>1, <2>2
  <2>4. /\ \A b \in DOMAIN report' : b \in DOMAIN report \/ b = last
        /\ \A b \in DOMAIN report : b \in DOMAIN report' /\ b # last
        /\ last \in DOMAIN report'
    BY <2>3
  <2> HIDE DEF last
  <2>5. NoResults \in [order : Seq(Test), status : [Test -> Ends \cup {"none"}]]
    BY DEF NoResults
  <2>6. /\ packages' \in [Package -> [order : Seq(Test), status : [Test -> Ends \cup {"none"}]]]
        /\ packages'[k] = NoResults /\ \A j \in Package \ {k} : packages'[j] = packages[j]
    BY <1>0, <2>1, <2>5
  <2>7. Failed(k) \subseteq Test
    BY DEF Failed
  <2>8. failures' \subseteq Test /\ failedIn' \in [Test -> Package \cup {NoTest}]
    BY <1>0, <2>1, <2>7
  <2>9. \A b \in DOMAIN report : report[b].pkg # k
    BY <2>1 DEF Inv, ReportInv
  <2>10. packages[k].order \in Seq(Test)
    BY <1>0
  <2>11. HeldInv'
    <3>1. packages'[k].order = <<>> /\ \A c \in Test : packages'[k].status[c] = "none"
      BY <2>6 DEF NoResults
    <3>2. SUFFICES ASSUME NEW j \in Package
                   PROVE  /\ \A i, n \in DOMAIN packages'[j].order :
                               packages'[j].order[i] = packages'[j].order[n] => i = n
                          /\ \A n \in DOMAIN packages'[j].order :
                               Above[packages'[j].order[n]] # packages'[j].order[n] =>
                                 \E i \in DOMAIN packages'[j].order :
                                   i < n /\ packages'[j].order[i] = Above[packages'[j].order[n]]
                          /\ \A t \in Test : Status(j, t)' # "none" =>
                               Status(j, t)' = truth'[j][t] /\ Known(j, t)'
      BY DEF HeldInv, Status
    <3>3. CASE j = k
      BY <3>1, <3>3 DEF Status
    <3>4. CASE j # k
      <4>1. packages'[j] = packages[j]
        BY <2>6, <3>4
      <4>2. /\ \A i, n \in DOMAIN packages[j].order :
                 packages[j].order[i] = packages[j].order[n] => i = n
            /\ \A n \in DOMAIN packages[j].order :
                 Above[packages[j].order[n]] # packages[j].order[n] =>
                   \E i \in DOMAIN packages[j].order :
                     i < n /\ packages[j].order[i] = Above[packages[j].order[n]]
        BY DEF Inv, HeldInv
      <4>3. \A t \in Test : Status(j, t) # "none" => Status(j, t) = truth[j][t] /\ Known(j, t)
        BY DEF Inv, HeldInv
      <4>4. \A t \in Test : Status(j, t)' = Status(j, t) /\ (Known(j, t) => Known(j, t)')
        BY <4>1 DEF Status, Known
      <4> QED
        BY <4>1, <4>2, <4>3, <4>4
    <3> QED
      BY <3>3, <3>4
  <2>12. ReportInv'
    <3>1. OneBlock'
      BY <2>2, <2>3, <2>4, <2>9 DEF Inv, ReportInv, OneBlock
    <3>2. ASSUME NEW i \in DOMAIN block.lines, NEW n \in DOMAIN block.lines
          PROVE  /\ block.lines[i].test = block.lines[n].test => i = n
                 /\ Above[block.lines[i].test] = block.lines[n].test => n <= i
      <4> DEFINE order == packages[k].order
      <4>1. /\ i \in DOMAIN order /\ n \in DOMAIN order
            /\ block.lines[i].test = order[i] /\ block.lines[n].test = order[n]
        BY <2>2
      <4>2. \A x, y \in DOMAIN order : order[x] = order[y] => x = y
        BY DEF Inv, HeldInv
      <4>3. Above[order[i]] # order[i] =>
              \E x \in DOMAIN order : x < i /\ order[x] = Above[order[i]]
        BY <4>1 DEF Inv, HeldInv
      <4>4. i \in Nat /\ n \in Nat
        BY <2>10, <4>1
      <4>5. ASSUME Above[order[i]] = order[n] PROVE n <= i
        <5>1. CASE Above[order[i]] = order[i]
          <6>1. i = n
            BY <4>1, <4>2, <4>5, <5>1
          <6> QED
            BY <4>4, <6>1
        <5>2. CASE Above[order[i]] # order[i]
          <6>1. PICK x \in DOMAIN order : x < i /\ order[x] = Above[order[i]]
            BY <4>3, <5>2
          <6>2. x = n
            BY <4>1, <4>2, <4>5, <6>1
          <6> QED
            BY <4>4, <6>1, <6>2
        <5> QED
          BY <5>1, <5>2
      <4> QED
        BY <4>1, <4>2, <4>5
    <3>3. ParentsFirst'
      <4>1. SUFFICES ASSUME NEW b \in DOMAIN report',
                            NEW i \in DOMAIN report'[b].lines, NEW n \in DOMAIN report'[b].lines
                     PROVE  /\ report'[b].lines[i].test = report'[b].lines[n].test => i = n
                            /\ Above[report'[b].lines[i].test] = report'[b].lines[n].test => n <= i
        BY DEF ParentsFirst
      <4>2. CASE b \in DOMAIN report
        BY <2>3, <4>2 DEF Inv, ReportInv, ParentsFirst
      <4>3. CASE b = last
        BY <2>3, <3>2, <4>3
      <4> QED
        BY <2>4, <4>2, <4>3
    <3>4. ASSUME NEW b \in DOMAIN report'
          PROVE  /\ packages'[report'[b].pkg].order = <<>>
                 /\ \A i \in DOMAIN report'[b].lines :
                      /\ truth'[report'[b].pkg][report'[b].lines[i].test]
                           = report'[b].lines[i].status
                      /\ report'[b].lines[i].status = "fail" =>
                           report'[b].lines[i].test \in failures'
      <4>1. CASE b \in DOMAIN report
        <5>1. report'[b] = report[b] /\ report[b].pkg \in Package \ {k}
          BY <1>0, <2>3, <2>9, <4>1, BlockLines
        <5> QED
          BY <2>1, <2>6, <4>1, <5>1 DEF Inv, ReportInv
      <4>2. CASE b = last
        <5>1. packages'[k].order = <<>>
          BY <2>6 DEF NoResults
        <5>2. ASSUME NEW i \in DOMAIN block.lines
              PROVE  /\ truth[k][block.lines[i].test] = block.lines[i].status
                     /\ block.lines[i].status = "fail" => block.lines[i].test \in failures'
          <6>1. /\ packages[k].order[i] \in Test
                /\ block.lines[i].test = packages[k].order[i]
                /\ block.lines[i].status = Status(k, packages[k].order[i])
                /\ Status(k, packages[k].order[i]) # "none"
            BY <2>2, <2>10
          <6>2. truth[k][block.lines[i].test] = block.lines[i].status
            BY <6>1 DEF Inv, HeldInv
          <6> QED
            BY <2>1, <6>1, <6>2 DEF Failed, Status
        <5> QED
          BY <2>2, <2>3, <4>2, <5>1, <5>2
      <4> QED
        BY <2>4, <4>1, <4>2
    <3>5. ASSUME NEW t \in failures'
          PROVE  \E j \in Package : failedIn'[t] = j /\ truth'[j][t] = "fail"
      <4>1. t \in Test
        BY <2>8
      <4>2. CASE t \in Failed(k)
        <5>1. Status(k, t) = "fail"
          BY <4>2 DEF Failed, Status
        <5>2. truth[k][t] = "fail"
          BY <4>1, <5>1 DEF Inv, HeldInv
        <5> QED
          BY <2>1, <4>1, <4>2, <5>2
      <4>3. CASE t \notin Failed(k)
        BY <2>1, <4>1, <4>3 DEF Inv, ReportInv
      <4> QED
        BY <4>2, <4>3
    <3> QED
      BY <3>1, <3>3, <3>4, <3>5 DEF ReportInv
  <2>13. ASSUME NEW j \in Package, NEW c \in Test, Listed(j, c)
         PROVE  Listed(j, c)'
    BY <2>3, <2>4, <2>13 DEF Listed
  <2>14. ASSUME NEW j \in Package, NEW c \in Test, Status(j, c) # "none"
         PROVE  Status(j, c)' # "none" \/ Listed(j, c)'
    <3>1. CASE j = k
      <4>1. PICK i \in DOMAIN packages[k].order : packages[k].order[i] = c
        BY <2>14, <3>1 DEF Inv, HeldInv, Known
      <4>2. i \in DOMAIN block.lines /\ block.lines[i].test = c
        BY <2>2, <2>14, <3>1, <4>1
      <4> QED
        BY <2>2, <2>3, <2>4, <3>1, <4>2 DEF Listed
    <3>2. CASE j # k
      BY <2>6, <2>14, <3>2 DEF Status
    <3> QED
      BY <3>1, <3>2
  <2>15. Reported(k)' /\ \A j \in Package : Reported(j) => Reported(j)'
    BY <2>2, <2>3, <2>4 DEF Reported
  <2>16. \A j \in Package : Reported(j)' => Reported(j) \/ j = k
    BY <2>2, <2>3, <2>4 DEF Reported
  <2>17. \A j \in Package, c \in Test : Known(j, c) => Known(j, c)' \/ (j = k /\ Reported(j)')
    BY <2>6, <2>15 DEF Known
  <2> QED
    BY <2>3, <2>6, <2>8, <2>11, <2>12, <2>13, <2>14, <2>15, <2>16, <2>17
<1> QED
  BY <1>1, <1>2

(* A package that has finished is printed when its record is read: nothing *)
(* more of it is on its way.                                               *)
LEMMA ReadsPackageInv ==
  ASSUME Inv, ReadsRecord, Head(pipe).test = NoTest
  PROVE  Inv'
<1> USE TestCommandAssumption
<1> DEFINE k == pipe[1].pkg
<1>1. /\ ~raw /\ step = "read" /\ pipe # <<>> /\ Head(pipe).action # "oversize"
      /\ Handle(Head(pipe)) /\ pipe' = Tail(pipe)
      /\ UNCHANGED <<truth, stage, tool>> /\ UNCHANGED <<raw, step, scanErr>>
      /\ UNCHANGED <<written, writing, pending, forwarded, dropped, outErr>>
  BY DEF ReadsRecord, toolVars, commandVars, filterVars
<1>2. /\ pipe' \in Seq(Record) /\ PipeInv'
      /\ 1 \in DOMAIN pipe /\ pipe[1] = Head(pipe) /\ pipe[1] \in Record
      /\ \A n \in DOMAIN pipe' : n \in Nat /\ n + 1 \in DOMAIN pipe /\ pipe'[n] = pipe[n + 1]
      /\ \A n \in DOMAIN pipe :
           n = 1 \/ (n > 1 /\ n - 1 \in DOMAIN pipe' /\ pipe'[n - 1] = pipe[n])
  BY <1>1, PipeTail
<1>3. pipe[1].test = NoTest /\ k \in Package
  BY <1>2 DEF Record
<1>4. pipe[1].action \in Ends
  BY <1>1, <1>2, <1>3 DEF Inv, PipeInv
<1>5. stage[k] # "open" /\ \A n \in DOMAIN pipe : n > 1 => pipe[n].pkg # k
  BY <1>2, <1>3, <1>4 DEF Inv, PipeInv
<1>6. \A n \in DOMAIN pipe' : n + 1 > 1 /\ pipe'[n].pkg # k
  BY <1>2, <1>5
<1>7. Flush(k) \/ UNCHANGED reporterVars
  BY <1>1, <1>2, <1>3 DEF Handle
<1> HIDE DEF k
<1>8. /\ packages' \in [Package -> [order : Seq(Test), status : [Test -> Ends \cup {"none"}]]]
      /\ report' \in Seq(Block) /\ failures' \subseteq Test
      /\ failedIn' \in [Test -> Package \cup {NoTest}]
      /\ HeldInv' /\ ReportInv'
      /\ \A j \in Package, c \in Test :
           Status(j, c) # "none" \/ Listed(j, c) => Status(j, c)' # "none" \/ Listed(j, c)'
      /\ \A j \in Package, c \in Test : Known(j, c) => Known(j, c)' \/ (j = k /\ Reported(j)')
      /\ \A j \in Package : Reported(j) => Reported(j)'
      /\ \A j \in Package : Reported(j)' => Reported(j) \/ j = k
  <2>1. CASE Flush(k)
    BY <1>1, <1>3, <2>1, FlushKeeps
  <2>2. CASE UNCHANGED reporterVars
    <3>1. UNCHANGED <<packages, report, failures, failedIn>>
      BY <2>2 DEF reporterVars
    <3>2. HeldInv' /\ ReportInv'
      BY <1>1, <3>1 DEF Inv, HeldInv, Status, Known, ReportInv, OneBlock, ParentsFirst
    <3> QED
      BY <3>1, <3>2 DEF Inv, TypeInv, Status, Known, Listed, Reported
  <2> QED
    BY <1>7, <2>1, <2>2
<1>9. TypeInv'
  BY <1>1, <1>2, <1>8 DEF Inv, TypeInv
<1>10. ToolInv'
  BY <1>1 DEF Inv, ToolInv
<1>11. ReadInv'
  <2>1. /\ ~scanErr
        /\ \A j \in Package : Reported(j) =>
             stage[j] # "open" /\ \A n \in DOMAIN pipe : pipe[n].pkg # j
        /\ \A j \in Package, c \in Test : truth[j][c] # "unborn" =>
             Known(j, c) \/ Reported(j) \/ \E n \in DOMAIN pipe : Says(n, j, c)
    BY <1>1 DEF Inv, ReadInv
  <2>2. ASSUME NEW j \in Package, Reported(j)'
        PROVE  stage'[j] # "open" /\ \A n \in DOMAIN pipe' : pipe'[n].pkg # j
    <3>1. CASE j = k
      BY <1>1, <1>5, <1>6, <3>1
    <3>2. CASE j # k
      BY <1>1, <1>2, <1>8, <2>1, <2>2, <3>2
    <3> QED
      BY <3>1, <3>2
  <2>3. ASSUME NEW j \in Package, NEW c \in Test, NEW n \in DOMAIN pipe, Says(n, j, c)
        PROVE  n > 1 /\ n - 1 \in DOMAIN pipe' /\ Says(n - 1, j, c)'
    BY <1>2, <1>3, <2>3 DEF Says
  <2>4. ASSUME NEW j \in Package, NEW c \in Test, truth'[j][c] # "unborn"
        PROVE  Known(j, c)' \/ Reported(j)' \/ \E n \in DOMAIN pipe' : Says(n, j, c)'
    <3>1. Known(j, c) \/ Reported(j) \/ \E n \in DOMAIN pipe : Says(n, j, c)
      BY <1>1, <2>1, <2>4
    <3>2. CASE Known(j, c) \/ Reported(j)
      BY <1>8, <3>2
    <3>3. CASE \E n \in DOMAIN pipe : Says(n, j, c)
      BY <2>3, <3>3
    <3> QED
      BY <3>1, <3>2, <3>3
  <2>5. ASSUME NEW n \in DOMAIN pipe',
               pipe'[n].test # NoTest, Above[pipe'[n].test] # pipe'[n].test
        PROVE  \/ Known(pipe[n].pkg, Above[pipe[n].test])'
               \/ \E m \in DOMAIN pipe' :
                    m < n /\ Says(m, pipe[n].pkg, Above[pipe[n].test])'
    <3> DEFINE j == pipe'[n].pkg
               c == Above[pipe'[n].test]
    <3>1. pipe'[n] \in Record
      BY <1>2
    <3>2. j \in Package /\ c \in Test /\ j # k
      BY <1>6, <2>5, <3>1 DEF Record
    <3>3. Known(j, c) \/ \E m \in DOMAIN pipe : m < n + 1 /\ Says(m, j, c)
      BY <1>1, <1>2, <2>5 DEF Inv, ReadInv
    <3>4. CASE Known(j, c)
      <4>1. \E i \in DOMAIN packages'[j].order : packages'[j].order[i] = c
        BY <1>8, <3>2, <3>4 DEF Known
      <4> QED
        BY <4>1 DEF Known
    <3>5. ASSUME NEW m \in DOMAIN pipe, m < n + 1, Says(m, j, c)
          PROVE  \E i \in DOMAIN pipe' : i < n /\ pipe'[i].pkg = j /\ pipe'[i].test = c
      <4>1. m > 1 /\ m - 1 \in DOMAIN pipe' /\ pipe'[m - 1] = pipe[m]
        BY <1>2, <2>3, <3>2, <3>5
      <4>2. m \in Nat
        BY DEF Inv, TypeInv
      <4>3. m - 1 < n
        BY <1>2, <3>5, <4>2
      <4> QED
        BY <3>5, <4>1, <4>3 DEF Says
    <3> QED
      BY <3>3, <3>4, <3>5 DEF Says
  <2> QED
    BY <1>1, <2>1, <2>2, <2>4, <2>5 DEF ReadInv, Says, Known
<1>12. ToldInv'
  <2>1. SUFFICES ASSUME ~scanErr, NEW j \in Package, NEW c \in Test, truth[j][c] \in Ends
                 PROVE  \/ Status(j, c)' # "none"
                        \/ \E n \in DOMAIN pipe' : Says(n, j, c)' /\ pipe'[n].action \in Ends
                        \/ Listed(j, c)'
    BY <1>1 DEF ToldInv, Says
  <2>2. \/ Status(j, c) # "none" \/ Listed(j, c)
        \/ \E n \in DOMAIN pipe : Says(n, j, c) /\ pipe[n].action \in Ends
    BY <2>1 DEF Inv, ToldInv
  <2>3. CASE Status(j, c) # "none" \/ Listed(j, c)
    BY <1>8, <2>3
  <2>4. ASSUME NEW n \in DOMAIN pipe, Says(n, j, c), pipe[n].action \in Ends
        PROVE  \E m \in DOMAIN pipe' : Says(m, j, c)' /\ pipe'[m].action \in Ends
    BY <1>2, <1>3, <2>4 DEF Says
  <2> QED
    BY <2>2, <2>3, <2>4
<1>13. StepInv'
  BY <1>1 DEF Inv, StepInv, Returned
<1>14. FilterInv'
  BY <1>1 DEF FilterInv
<1> QED
  BY <1>2, <1>8, <1>9, <1>10, <1>11, <1>12, <1>13, <1>14 DEF Inv

(* What is left of the packages that never finished is printed at the end. *)
LEMMA FlushesHeldInv == Inv /\ FlushesHeld => Inv'
<1> SUFFICES ASSUME Inv, FlushesHeld PROVE Inv'
  OBVIOUS
<1>1. PICK k \in Held : Flush(k)
  BY DEF FlushesHeld
<1>2. k \in Package
  BY DEF Held
<1>3. /\ ~raw /\ step = "summary"
      /\ UNCHANGED <<truth, stage, tool, pipe>> /\ UNCHANGED <<raw, step, scanErr>>
      /\ UNCHANGED <<written, writing, pending, forwarded, dropped, outErr>>
  BY DEF FlushesHeld, toolVars, commandVars, filterVars
<1>4. /\ packages' \in [Package -> [order : Seq(Test), status : [Test -> Ends \cup {"none"}]]]
      /\ report' \in Seq(Block) /\ failures' \subseteq Test
      /\ failedIn' \in [Test -> Package \cup {NoTest}]
      /\ HeldInv' /\ ReportInv'
      /\ \A j \in Package, c \in Test :
           Status(j, c) # "none" \/ Listed(j, c) => Status(j, c)' # "none" \/ Listed(j, c)'
  BY <1>1, <1>2, <1>3, FlushKeeps
<1>5. TypeInv'
  BY <1>3, <1>4 DEF Inv, TypeInv
<1>6. ToolInv' /\ PipeInv'
  BY <1>3 DEF Inv, ToolInv, PipeInv
<1>7. ReadInv'
  BY <1>3 DEF ReadInv
<1>8. ToldInv'
  BY <1>3, <1>4 DEF Inv, ToldInv, Says
<1>9. StepInv'
  BY <1>3 DEF Inv, StepInv, Returned
<1>10. FilterInv'
  BY <1>3 DEF FilterInv
<1> QED
  BY <1>4, <1>5, <1>6, <1>7, <1>8, <1>9, <1>10 DEF Inv

(* A test is listed behind those already held, and once.                   *)
LEMMA RecordedKeeps ==
  ASSUME Inv, NEW e \in Record, e.test \in Test,
         packages' = [packages EXCEPT ![e.pkg] = Recorded(@, e)]
  PROVE  /\ packages' \in [Package -> [order : Seq(Test), status : [Test -> Ends \cup {"none"}]]]
         /\ \A j \in Package \ {e.pkg} : packages'[j] = packages[j]
         /\ Len(packages[e.pkg].order) \in Nat
         /\ \A i \in DOMAIN packages[e.pkg].order :
              /\ i \in DOMAIN packages'[e.pkg].order /\ i \in 1..Len(packages[e.pkg].order)
              /\ packages'[e.pkg].order[i] = packages[e.pkg].order[i]
         /\ \A i \in DOMAIN packages'[e.pkg].order :
              \/ i \in DOMAIN packages[e.pkg].order
              \/ /\ i = Len(packages[e.pkg].order) + 1 /\ packages'[e.pkg].order[i] = e.test
                 /\ ~Known(e.pkg, e.test)
         /\ Known(e.pkg, e.test)'
         /\ \A c \in Test : Status(e.pkg, c)' =
              IF c = e.test /\ e.action \in Ends THEN e.action ELSE Status(e.pkg, c)
<1> DEFINE k == e.pkg
           t == e.test
           pkg == packages[k]
           new == Recorded(pkg, e)
<1>0. k \in Package /\ t \in Test
  BY DEF Record
<1>1. packages \in [Package -> [order : Seq(Test), status : [Test -> Ends \cup {"none"}]]]
  BY DEF Inv, TypeInv
<1>2. /\ pkg.order \in Seq(Test) /\ pkg.status \in [Test -> Ends \cup {"none"}]
      /\ DOMAIN pkg.order = 1..Len(pkg.order) /\ Len(pkg.order) \in Nat
  BY <1>0, <1>1
<1>3. new.order = IF Contains(pkg.order, t) THEN pkg.order ELSE Append(pkg.order, t)
  BY DEF Recorded
<1>4. new.status = IF e.action \in Ends THEN [pkg.status EXCEPT ![t] = e.action]
                                        ELSE pkg.status
  BY DEF Recorded
<1>5. Contains(pkg.order, t) <=> Known(k, t)
  BY <1>0, <1>2 DEF Contains, Known
<1>6. new.order \in Seq(Test) /\ new.status \in [Test -> Ends \cup {"none"}]
  BY <1>0, <1>2, <1>3, <1>4
<1>7. new \in [order : Seq(Test), status : [Test -> Ends \cup {"none"}]]
  BY <1>0, <1>6 DEF Recorded
<1>8. packages' = [packages EXCEPT ![k] = new]
  OBVIOUS
<1> HIDE DEF new
<1>9. packages'[k] = new /\ \A j \in Package \ {k} : packages'[j] = packages[j]
  BY <1>0, <1>1, <1>8
<1>10. packages' \in [Package -> [order : Seq(Test), status : [Test -> Ends \cup {"none"}]]]
  BY <1>0, <1>1, <1>7, <1>8
<1>11. /\ \A i \in DOMAIN pkg.order : i \in DOMAIN new.order /\ new.order[i] = pkg.order[i]
       /\ \A i \in DOMAIN new.order :
            \/ i \in DOMAIN pkg.order
            \/ i = Len(pkg.order) + 1 /\ new.order[i] = t /\ ~Known(k, t)
       /\ \E i \in DOMAIN new.order : new.order[i] = t
  <2>1. CASE Known(k, t)
    BY <1>0, <1>3, <1>5, <2>1 DEF Known
  <2>2. CASE ~Known(k, t)
    <3>1. new.order = Append(pkg.order, t)
      BY <1>0, <1>3, <1>5, <2>2
    <3>2. /\ DOMAIN new.order = 1..Len(pkg.order) + 1
          /\ new.order[Len(pkg.order) + 1] = t
          /\ \A i \in 1..Len(pkg.order) : new.order[i] = pkg.order[i]
      BY <1>0, <1>2, <3>1
    <3>3. \A i \in DOMAIN pkg.order : i \in DOMAIN new.order /\ new.order[i] = pkg.order[i]
      BY <1>2, <3>2
    <3>4. ASSUME NEW i \in DOMAIN new.order
          PROVE  \/ i \in DOMAIN pkg.order
                 \/ i = Len(pkg.order) + 1 /\ new.order[i] = t /\ ~Known(k, t)
      <4>1. i \in 1..Len(pkg.order) \/ i = Len(pkg.order) + 1
        BY <1>2, <3>2
      <4> QED BY <4>1, <1>2, <2>2, <3>2
    <3>5. Len(pkg.order) + 1 \in DOMAIN new.order
      BY <1>2, <3>2
    <3> QED
      BY <3>2, <3>3, <3>4, <3>5
  <2> QED
    BY <2>1, <2>2
<1>12. \A c \in Test : new.status[c] =
         IF c = t /\ e.action \in Ends THEN e.action ELSE pkg.status[c]
  BY <1>0, <1>2, <1>4
<1>13. Known(k, t)'
  BY <1>0, <1>9, <1>11 DEF Known
<1>14. \A c \in Test : Status(k, c)' =
         IF c = t /\ e.action \in Ends THEN e.action ELSE Status(k, c)
  BY <1>0, <1>9, <1>12 DEF Status
<1> QED
  BY <1>0, <1>2, <1>9, <1>10, <1>11, <1>13, <1>14

(* A record about a test: the test it is part of is already listed.        *)
LEMMA ReadsTestInv ==
  ASSUME Inv, ReadsRecord, Head(pipe).test # NoTest
  PROVE  Inv'
<1> USE TestCommandAssumption
<1>1. /\ ~raw /\ step = "read" /\ pipe # <<>>
      /\ Handle(Head(pipe)) /\ pipe' = Tail(pipe)
      /\ UNCHANGED <<truth, stage, tool>> /\ UNCHANGED <<raw, step, scanErr>>
      /\ UNCHANGED <<written, writing, pending, forwarded, dropped, outErr>>
  BY DEF ReadsRecord, toolVars, commandVars, filterVars
<1>2. /\ pipe' \in Seq(Record) /\ PipeInv'
      /\ 1 \in DOMAIN pipe /\ pipe[1] = Head(pipe) /\ pipe[1] \in Record
      /\ \A n \in DOMAIN pipe' : n \in Nat /\ n + 1 \in DOMAIN pipe /\ pipe'[n] = pipe[n + 1]
      /\ \A n \in DOMAIN pipe :
           n = 1 \/ (n > 1 /\ n - 1 \in DOMAIN pipe' /\ pipe'[n - 1] = pipe[n])
  BY <1>1, PipeTail
<1>3. PICK e \in Record : e = pipe[1]
  BY <1>2
<1> DEFINE k == e.pkg
           t == e.test
<1>4. k \in Package
  BY <1>3 DEF Record
<1>5. t \in Test
  BY <1>2, <1>3 DEF Record
<1>6. t # NoTest
  BY <1>5
<1>7. /\ packages' = [packages EXCEPT ![e.pkg] = Recorded(@, e)]
      /\ UNCHANGED <<report, failures, failedIn>>
  BY <1>1, <1>2, <1>6, <1>3, <1>5 DEF Handle
<1>8. /\ packages' \in [Package -> [order : Seq(Test), status : [Test -> Ends \cup {"none"}]]]
      /\ \A j \in Package \ {k} : packages'[j] = packages[j]
      /\ Len(packages[k].order) \in Nat
      /\ \A i \in DOMAIN packages[k].order :
           /\ i \in DOMAIN packages'[k].order /\ i \in 1..Len(packages[k].order)
           /\ packages'[k].order[i] = packages[k].order[i]
      /\ \A i \in DOMAIN packages'[k].order :
           \/ i \in DOMAIN packages[k].order
           \/ /\ i = Len(packages[k].order) + 1 /\ packages'[k].order[i] = t
              /\ ~Known(k, t)
      /\ Known(k, t)'
      /\ \A c \in Test : Status(k, c)' =
           IF c = t /\ e.action \in Ends THEN e.action ELSE Status(k, c)
  BY <1>3, <1>4, <1>5, <1>7, RecordedKeeps
<1>9. /\ ~scanErr
      /\ \A j \in Package : Reported(j) =>
           stage[j] # "open" /\ \A n \in DOMAIN pipe : pipe[n].pkg # j
      /\ \A j \in Package, c \in Test : truth[j][c] # "unborn" =>
           Known(j, c) \/ Reported(j) \/ \E n \in DOMAIN pipe : Says(n, j, c)
      /\ Above[t] # t =>
           Known(k, Above[t]) \/ \E m \in DOMAIN pipe : m < 1 /\ Says(m, k, Above[t])
  BY <1>1, <1>2, <1>6, <1>3, <1>4, <1>5 DEF Inv, ReadInv
<1>10. \A m \in DOMAIN pipe : m \in Nat /\ ~(m < 1)
  BY DEF Inv, TypeInv
<1>11. ~Reported(k)
  BY <1>2, <1>9, <1>3, <1>4
<1>12. e.action \in Ends => truth[k][t] = e.action
  BY <1>2, <1>6, <1>3, <1>4, <1>5 DEF Inv, PipeInv
<1>13. \A j \in Package, c \in Test : Known(j, c) => Known(j, c)'
  BY <1>8 DEF Known
<1>14. \A j \in Package, c \in Test : Status(j, c) # "none" => Status(j, c)' # "none"
  <2>1. \A c \in Test : Status(k, c) # "none" => Status(k, c)' # "none"
    <3>1. "none" \notin Ends
      BY DEF Ends
    <3> QED
      BY <1>8, <3>1
  <2>2. \A j \in Package \ {k} : \A c \in Test : Status(j, c)' = Status(j, c)
    BY <1>8 DEF Status
  <2> QED
    BY <2>1, <2>2
<1>15. \A n \in DOMAIN pipe, j \in Package, c \in Test :
        n = 1 /\ Says(n, j, c) => j = k /\ c = t /\ pipe[n].action = e.action
  BY <1>3, <1>4, <1>5 DEF Says
<1>16. TypeInv'
  BY <1>1, <1>2, <1>7, <1>8 DEF Inv, TypeInv
<1>17. ToolInv'
  BY <1>1 DEF Inv, ToolInv
<1>18. HeldInv'
  <2>1. SUFFICES ASSUME NEW j \in Package
                 PROVE  /\ \A i, n \in DOMAIN packages'[j].order :
                             packages'[j].order[i] = packages'[j].order[n] => i = n
                        /\ \A n \in DOMAIN packages'[j].order :
                             Above[packages'[j].order[n]] # packages'[j].order[n] =>
                               \E i \in DOMAIN packages'[j].order :
                                 i < n /\ packages'[j].order[i] = Above[packages'[j].order[n]]
                        /\ \A c \in Test : Status(j, c)' # "none" =>
                             Status(j, c)' = truth'[j][c] /\ Known(j, c)'
    BY DEF HeldInv, Status
  <2>2. /\ \A i, n \in DOMAIN packages[j].order :
             packages[j].order[i] = packages[j].order[n] => i = n
        /\ \A n \in DOMAIN packages[j].order :
             Above[packages[j].order[n]] # packages[j].order[n] =>
               \E i \in DOMAIN packages[j].order :
                 i < n /\ packages[j].order[i] = Above[packages[j].order[n]]
        /\ \A c \in Test : Status(j, c) # "none" => Status(j, c) = truth[j][c] /\ Known(j, c)
    BY DEF Inv, HeldInv
  <2>3. CASE j # k
    <3>1. packages'[j] = packages[j]
      BY <1>8, <2>3
    <3>2. \A c \in Test : Status(j, c)' = Status(j, c) /\ (Known(j, c) => Known(j, c)')
      BY <3>1 DEF Status, Known
    <3> QED
      BY <1>1, <2>2, <3>1, <3>2
  <2>4. CASE j = k
    <3> DEFINE old == packages[k].order
               new == packages'[k].order
    <3>1. ASSUME NEW i \in DOMAIN new, NEW n \in DOMAIN new, new[i] = new[n]
          PROVE  i = n
      <4>1. CASE i \in DOMAIN old /\ n \in DOMAIN old
        BY <1>8, <2>2, <2>4, <3>1, <4>1
      <4>2. CASE i \notin DOMAIN old /\ n \notin DOMAIN old
        BY <1>8, <4>2
      <4>3. CASE i \in DOMAIN old /\ n \notin DOMAIN old
        BY <1>8, <3>1, <4>3 DEF Known
      <4>4. CASE i \notin DOMAIN old /\ n \in DOMAIN old
        BY <1>8, <3>1, <4>4 DEF Known
      <4> QED
        BY <4>1, <4>2, <4>3, <4>4
    <3>2. ASSUME NEW n \in DOMAIN new, Above[new[n]] # new[n]
          PROVE  \E i \in DOMAIN new : i < n /\ new[i] = Above[new[n]]
      <4>1. CASE n \in DOMAIN old
        <5>1. new[n] = old[n]
          BY <1>8, <4>1
        <5>2. PICK i \in DOMAIN old : i < n /\ old[i] = Above[old[n]]
          BY <2>2, <2>4, <3>2, <4>1, <5>1
        <5> QED
          BY <1>8, <5>1, <5>2
      <4>2. CASE n \notin DOMAIN old
        <5>1. n = Len(old) + 1 /\ new[n] = t
          BY <1>8, <4>2
        <5>2. PICK i \in DOMAIN old : old[i] = Above[t]
          BY <1>9, <1>10, <3>2, <5>1 DEF Known
        <5>3. i \in DOMAIN new /\ i \in 1..Len(old) /\ new[i] = old[i]
          BY <1>8
        <5>4. i < n
          BY <1>8, <5>1, <5>3
        <5> QED
          BY <5>1, <5>2, <5>3, <5>4
      <4> QED
        BY <4>1, <4>2
    <3>3. ASSUME NEW c \in Test, Status(k, c)' # "none"
          PROVE  Status(k, c)' = truth[k][c] /\ Known(k, c)'
      <4>1. CASE c = t /\ e.action \in Ends
        BY <1>8, <1>12, <4>1
      <4>2. CASE ~(c = t /\ e.action \in Ends)
        <5>1. Status(k, c)' = Status(k, c)
          BY <1>8, <4>2
        <5>2. Status(k, c) = truth[k][c] /\ Known(k, c)
          BY <2>2, <2>4, <3>3, <5>1
        <5> QED
          BY <1>4, <1>13, <5>1, <5>2
      <4> QED
        BY <4>1, <4>2
    <3> HIDE DEF old, new
    <3>4. /\ \A i, n \in DOMAIN new : new[i] = new[n] => i = n
          /\ \A n \in DOMAIN new : Above[new[n]] # new[n] =>
               \E i \in DOMAIN new : i < n /\ new[i] = Above[new[n]]
      BY <3>1, <3>2
    <3>5. \A c \in Test : Status(k, c)' # "none" =>
            Status(k, c)' = truth'[k][c] /\ Known(k, c)'
      BY <1>1, <3>3
    <3>6. new = packages'[j].order
      BY <2>4 DEF new
    <3> QED
      BY <2>4, <3>4, <3>5, <3>6
  <2> QED
    BY <2>3, <2>4
<1>19. ReportInv'
  <2>1. OneBlock' /\ ParentsFirst'
    BY <1>7 DEF Inv, ReportInv, OneBlock, ParentsFirst
  <2>2. ASSUME NEW b \in DOMAIN report
        PROVE  packages'[report[b].pkg].order = <<>>
    <3>1. report \in Seq(Block)
      BY DEF Inv, TypeInv
    <3>2. report[b].pkg \in Package \ {k}
      BY <1>11, <2>2, <3>1, BlockLines DEF Reported
    <3> QED
      BY <1>8, <2>2, <3>2 DEF Inv, ReportInv
  <2> QED
    BY <1>1, <1>7, <2>1, <2>2 DEF Inv, ReportInv
<1>20. ReadInv'
  <2>1. ASSUME NEW j \in Package, Reported(j)'
        PROVE  stage'[j] # "open" /\ \A n \in DOMAIN pipe' : pipe'[n].pkg # j
    <3>1. Reported(j)
      BY <1>7, <2>1 DEF Reported
    <3> QED
      BY <1>1, <1>2, <1>9, <3>1
  <2>2. ASSUME NEW j \in Package, NEW c \in Test, NEW n \in DOMAIN pipe, Says(n, j, c)
        PROVE  \/ Known(j, c)'
               \/ n > 1 /\ n - 1 \in DOMAIN pipe' /\ Says(n - 1, j, c)'
    <3>1. CASE n = 1
      BY <1>8, <1>15, <2>2, <3>1
    <3>2. CASE n # 1
      BY <1>2, <2>2, <3>2 DEF Says
    <3> QED
      BY <3>1, <3>2
  <2>3. ASSUME NEW j \in Package, NEW c \in Test, truth'[j][c] # "unborn"
        PROVE  Known(j, c)' \/ Reported(j)' \/ \E n \in DOMAIN pipe' : Says(n, j, c)'
    <3>1. Known(j, c) \/ Reported(j) \/ \E n \in DOMAIN pipe : Says(n, j, c)
      BY <1>1, <1>9, <2>3
    <3>2. CASE Known(j, c)
      BY <1>13, <3>2
    <3>3. CASE Reported(j)
      BY <1>7, <3>3 DEF Reported
    <3>4. CASE \E n \in DOMAIN pipe : Says(n, j, c)
      BY <2>2, <3>4
    <3> QED
      BY <3>1, <3>2, <3>3, <3>4
  <2>4. ASSUME NEW n \in DOMAIN pipe',
               pipe'[n].test # NoTest, Above[pipe'[n].test] # pipe'[n].test
        PROVE  \/ Known(pipe[n].pkg, Above[pipe[n].test])'
               \/ \E m \in DOMAIN pipe' :
                    m < n /\ Says(m, pipe[n].pkg, Above[pipe[n].test])'
    <3> DEFINE j == pipe'[n].pkg
               c == Above[pipe'[n].test]
    <3>1. pipe'[n] \in Record
      BY <1>2
    <3>2. j \in Package /\ c \in Test
      BY <2>4, <3>1 DEF Record
    <3>3. Known(j, c) \/ \E m \in DOMAIN pipe : m < n + 1 /\ Says(m, j, c)
      <4>1. \A i \in DOMAIN pipe :
              pipe[i].test # NoTest /\ Above[pipe[i].test] # pipe[i].test =>
                \/ Known(pipe[i].pkg, Above[pipe[i].test])
                \/ \E m \in DOMAIN pipe : m < i /\ Says(m, pipe[i].pkg, Above[pipe[i].test])
        BY <1>1 DEF Inv, ReadInv
      <4>2. n + 1 \in DOMAIN pipe /\ pipe[n + 1] = pipe'[n]
        BY <1>2
      <4> QED
        BY <2>4, <4>1, <4>2
    <3>4. CASE \E i \in DOMAIN packages'[j].order : packages'[j].order[i] = c
      BY <3>4 DEF Known
    <3>5. CASE Known(j, c)
      BY <1>13, <3>2, <3>4, <3>5 DEF Known
    <3>6. ASSUME NEW m \in DOMAIN pipe, m < n + 1, Says(m, j, c),
                 ~\E i \in DOMAIN packages'[j].order : packages'[j].order[i] = c
          PROVE  \E i \in DOMAIN pipe' : i < n /\ pipe'[i].pkg = j /\ pipe'[i].test = c
      <4>1. m > 1 /\ m - 1 \in DOMAIN pipe' /\ pipe'[m - 1] = pipe[m]
        <5>1. m # 1
          <6>1. ASSUME m = 1 PROVE \E i \in DOMAIN packages'[j].order :
                                     packages'[j].order[i] = c
            <7>1. j = k /\ c = t
              BY <1>15, <3>2, <3>6, <6>1
            <7>2. \E i \in DOMAIN packages'[k].order : packages'[k].order[i] = t
              BY <1>8 DEF Known
            <7> QED
              BY <7>1, <7>2
          <6> QED
            BY <3>6, <6>1
        <5> QED
          BY <1>2, <5>1
      <4>2. m - 1 < n
        BY <1>2, <1>10, <3>6
      <4> QED
        BY <3>6, <4>1, <4>2 DEF Says
    <3> QED
      BY <3>3, <3>4, <3>5, <3>6 DEF Says
  <2> QED
    BY <1>1, <1>9, <2>1, <2>3, <2>4 DEF ReadInv, Says, Known
<1>21. ToldInv'
  <2>1. SUFFICES ASSUME ~scanErr, NEW j \in Package, NEW c \in Test, truth[j][c] \in Ends
                 PROVE  \/ Status(j, c)' # "none"
                        \/ \E n \in DOMAIN pipe' : Says(n, j, c)' /\ pipe'[n].action \in Ends
                        \/ Listed(j, c)'
    BY <1>1 DEF ToldInv, Says
  <2>2. \/ Status(j, c) # "none" \/ Listed(j, c)
        \/ \E n \in DOMAIN pipe : Says(n, j, c) /\ pipe[n].action \in Ends
    BY <2>1 DEF Inv, ToldInv
  <2>3. CASE Status(j, c) # "none"
    BY <1>14, <2>3
  <2>4. CASE Listed(j, c)
    BY <1>7, <2>4 DEF Listed
  <2>5. ASSUME NEW n \in DOMAIN pipe, Says(n, j, c), pipe[n].action \in Ends
        PROVE  \/ Status(j, c)' # "none"
               \/ \E m \in DOMAIN pipe' : Says(m, j, c)' /\ pipe'[m].action \in Ends
    <3>1. CASE n = 1
      <4>1. j = k /\ c = t /\ e.action \in Ends
        BY <1>15, <2>5, <3>1
      <4>2. Status(k, t)' = e.action
        BY <1>6, <1>8, <4>1
      <4> QED
        BY <4>1, <4>2 DEF Ends
    <3>2. CASE n # 1
      BY <1>2, <2>5, <3>2 DEF Says
    <3> QED
      BY <3>1, <3>2
  <2> QED
    BY <2>2, <2>3, <2>4, <2>5
<1>22. StepInv'
  BY <1>1 DEF Inv, StepInv, Returned
<1>23. FilterInv'
  BY <1>1 DEF FilterInv
<1> QED
  BY <1>2, <1>16, <1>17, <1>18, <1>19, <1>20, <1>21, <1>22, <1>23 DEF Inv

-----------------------------------------------------------------------------
(* The filter: one more line.                                              *)
LEMMA LeastPosition ==
  ASSUME NEW S \in SUBSET Nat, S # {}
  PROVE  \E p \in S : \A n \in S : p <= n
<1> DEFINE Before == OpToRel(<, Nat)
<1>1. IsWellFoundedOn(Before, Nat)
  BY NatLessThanWellFounded
<1> HIDE DEF Before
<1>2. PICK p \in S : \A n \in S : ~(<<n, p>> \in Before)
  BY <1>1, WFMin
<1>3. \A x, y \in Nat : x < y => <<x, y>> \in Before
  BY DEF Before, OpToRel
<1>4. ASSUME NEW n \in S PROVE p <= n
  <2>1. n \in Nat /\ p \in Nat /\ ~(n < p)
    BY <1>2, <1>3
  <2> QED
    BY <2>1
<1> QED
  BY <1>2, <1>4

(* The first line of a text, and what is left of the text behind it.       *)
LEMMA FirstLineOf ==
  ASSUME NEW text \in Seq(Byte), WholeLine(text)
  PROVE  LET line == FirstLine(text)
             rest == SubSeq(text, Len(line) + 1, Len(text))
         IN  /\ line \in Seq(Byte) /\ rest \in Seq(Byte) /\ line # <<>>
             /\ line[Len(line)] = "newline"
             /\ \A i \in 1..Len(line) - 1 : line[i] # "newline"
             /\ text = line \o rest
<1> DEFINE Ends1(i) == i \in DOMAIN text /\ text[i] = "newline"
                         /\ \A j \in 1..i - 1 : text[j] # "newline"
           line == FirstLine(text)
           rest == SubSeq(text, Len(line) + 1, Len(text))
<1>1. DOMAIN text = 1..Len(text) /\ Len(text) \in Nat
  OBVIOUS
<1>2. \E i : Ends1(i)
  <2> DEFINE S == {i \in 1..Len(text) : text[i] = "newline"}
  <2>1. S \in SUBSET Nat /\ S # {}
    BY <1>1 DEF WholeLine, Contains
  <2>2. PICK p \in S : \A n \in S : p <= n
    BY <2>1, LeastPosition
  <2>3. ASSUME NEW j \in 1..p - 1 PROVE text[j] # "newline"
    BY <1>1, <2>2
  <2> QED
    BY <1>1, <2>2, <2>3
<1>3. PICK p : Ends1(p) /\ line = SubSeq(text, 1, p)
  <2> DEFINE q == CHOOSE i \in DOMAIN text :
                    text[i] = "newline" /\ \A j \in 1..i - 1 : text[j] # "newline"
  <2>1. Ends1(q)
    BY <1>2
  <2>2. line = SubSeq(text, 1, q)
    BY DEF FirstLine
  <2> QED
    BY <2>1, <2>2
<1>4. p \in 1..Len(text) /\ text[p] = "newline" /\ \A j \in 1..p - 1 : text[j] # "newline"
  BY <1>1, <1>3
<1> HIDE DEF line
<1>5. \A i \in 1..Len(text) : text[i] \in Byte
  OBVIOUS
<1>6. line \in Seq(Byte) /\ Len(line) = p /\ \A i \in 1..p : line[i] = text[i]
  <2>1. \A i \in 1..p : text[i] \in Byte
    BY <1>4, <1>5
  <2>2. /\ SubSeq(text, 1, p) \in Seq(Byte) /\ Len(SubSeq(text, 1, p)) = p
        /\ \A i \in 1..p : SubSeq(text, 1, p)[i] = text[i]
    BY <1>1, <1>4, <2>1
  <2> QED
    BY <1>3, <2>2
<1>7. /\ rest \in Seq(Byte) /\ Len(rest) = Len(text) - p
      /\ \A i \in 1..Len(text) - p : rest[i] = text[p + i]
  <2>1. \A i \in (p + 1)..Len(text) : text[i] \in Byte
    BY <1>4, <1>5
  <2>2. rest = SubSeq(text, p + 1, Len(text))
    BY <1>6
  <2>3. p + 1 \in Int /\ Len(text) \in Int
    BY <1>1, <1>4
  <2>4. /\ SubSeq(text, p + 1, Len(text)) \in Seq(Byte)
        /\ Len(SubSeq(text, p + 1, Len(text))) =
             IF p + 1 <= Len(text) THEN Len(text) - (p + 1) + 1 ELSE 0
        /\ \A i \in 1..Len(text) - (p + 1) + 1 :
             SubSeq(text, p + 1, Len(text))[i] = text[p + 1 + i - 1]
    BY <2>1, <2>3, SubSeqProperties
  <2> HIDE DEF rest
  <2>5. Len(rest) = Len(text) - p
    <3>1. Len(rest) = IF p + 1 <= Len(text) THEN Len(text) - (p + 1) + 1 ELSE 0
      BY <2>2, <2>4
    <3>2. p \in Nat /\ p <= Len(text) /\ Len(text) \in Nat
      BY <1>1, <1>4
    <3> QED
      BY <3>1, <3>2
  <2>6. ASSUME NEW i \in 1..Len(text) - p PROVE rest[i] = text[p + i]
    <3>1. i \in 1..Len(text) - (p + 1) + 1 /\ p + 1 + i - 1 = p + i
      BY <1>1, <1>4
    <3> QED
      BY <2>2, <2>4, <3>1
  <2> QED
    BY <2>2, <2>4, <2>5, <2>6
<1> HIDE DEF rest
<1>8. text = line \o rest
  <2>1. line \o rest \in Seq(Byte) /\ Len(line \o rest) = Len(text)
    <3>1. line \o rest \in Seq(Byte) /\ Len(line \o rest) = Len(line) + Len(rest)
      BY <1>6, <1>7, ConcatProperties
    <3> QED
      BY <1>1, <1>4, <1>6, <1>7, <3>1
  <2>2. ASSUME NEW i \in 1..Len(text) PROVE text[i] = (line \o rest)[i]
    <3>1. CASE i <= p
      BY <1>4, <1>6, <1>7, <3>1
    <3>2. CASE i > p
      <4>1. (line \o rest)[i] = rest[i - p]
        BY <1>1, <1>4, <1>6, <1>7, <3>2
      <4>2. rest[i - p] = text[p + (i - p)]
        BY <1>1, <1>4, <1>7, <3>2
      <4> QED
        BY <1>1, <1>4, <4>1, <4>2
    <3>3. i <= p \/ i > p
      BY <1>1, <1>4
    <3> QED
      BY <3>1, <3>2, <3>3
  <2> QED
    BY <2>1, <2>2, SeqEqual
<1>9. line # <<>>
  BY <1>4, <1>6
<1>10. line[Len(line)] = "newline" /\ \A i \in 1..Len(line) - 1 : line[i] # "newline"
  BY <1>4, <1>6
<1> QED
  BY <1>6, <1>7, <1>8, <1>9, <1>10 DEF line, rest

(* A line behind whole lines is marked, or not, by itself.                 *)
LEMMA UnmarkedLine ==
  ASSUME NEW text \in Seq(Byte), text = <<>> \/ text[Len(text)] = "newline",
         NEW line \in Seq(Byte), line # <<>>,
         \A i \in 1..Len(line) - 1 : line[i] # "newline"
  PROVE  Unmarked(text \o line) =
           IF IsNoTestFilesLine(line) THEN Unmarked(text)
           ELSE Unmarked(text) \cup (Len(text) + 1)..(Len(text) + Len(line))
<1> DEFINE both == text \o line
           n == Len(text)
           m == Len(line)
<1>1. /\ n \in Nat /\ m \in Nat \ {0} /\ DOMAIN text = 1..n /\ DOMAIN both = 1..n + m
      /\ \A i \in 1..n : both[i] = text[i]
      /\ \A i \in n + 1..n + m : both[i] = line[i - n]
  <2>1. n \in Nat /\ m \in Nat \ {0} /\ DOMAIN text = 1..n
    BY EmptySeq
  <2>2. both \in Seq(Byte) /\ Len(both) = n + m
    BY ConcatProperties
  <2>3. \A i \in 1..n + m : both[i] = IF i <= n THEN text[i] ELSE line[i - n]
    BY ConcatProperties
  <2> HIDE DEF both, n, m
  <2> QED
    BY <2>1, <2>2, <2>3
<1>2. n > 0 => text[n] = "newline"
  BY <1>1
<1>3. \A i \in n + 1..n + m - 1 : both[i] # "newline"
  <2>1. SUFFICES ASSUME NEW i \in n + 1..n + m - 1 PROVE both[i] # "newline"
    OBVIOUS
  <2>2. i - n \in 1..m - 1 /\ both[i] = line[i - n]
    BY <1>1
  <2> QED
    BY <2>2
<1>4. \A i \in 1..m : n + i \in n + 1..n + m /\ both[n + i] = line[i]
  <2>1. SUFFICES ASSUME NEW i \in 1..m PROVE n + i \in n + 1..n + m /\ both[n + i] = line[i]
    OBVIOUS
  <2>2. n + i \in n + 1..n + m /\ (n + i) - n = i
    BY <1>1
  <2>3. both[n + i] = line[(n + i) - n]
    BY <1>1, <2>2
  <2> QED
    BY <2>2, <2>3
<1> HIDE DEF both, n, m
<1>5. ASSUME NEW i \in 1..n PROVE LineAround(both, i) = LineAround(text, i)
  <2>1. ASSUME NEW j \in 1..n + m, j > n PROVE j \notin LineAround(both, i)
    <3>1. n \in 1..n + m /\ i <= n /\ n < j /\ both[n] = "newline"
      BY <1>1, <1>2, <2>1
    <3> QED
      BY <1>1, <3>1 DEF LineAround
  <2>2. ASSUME NEW j \in 1..n PROVE j \in LineAround(both, i) <=> j \in LineAround(text, i)
    <3>1. \A x \in 1..n + m : (i <= x /\ x < j) \/ (j <= x /\ x < i) => x \in 1..n
      BY <1>1
    <3>2. j \in 1..n + m /\ \A x \in 1..n : x \in 1..n + m
      BY <1>1
    <3>3. j \in LineAround(both, i) <=>
            \A x \in 1..n + m : (i <= x /\ x < j) \/ (j <= x /\ x < i) => both[x] # "newline"
      BY <1>1, <3>2 DEF LineAround
    <3>4. j \in LineAround(text, i) <=>
            \A x \in 1..n : (i <= x /\ x < j) \/ (j <= x /\ x < i) => text[x] # "newline"
      BY <1>1 DEF LineAround
    <3> QED
      BY <1>1, <3>1, <3>2, <3>3, <3>4
  <2>3. LineAround(both, i) \subseteq 1..n + m /\ LineAround(text, i) \subseteq 1..n
    BY <1>1 DEF LineAround
  <2>4. \A j \in 1..n + m : j > n \/ j \in 1..n
    BY <1>1
  <2>5. \A j \in 1..n : j \in 1..n + m
    BY <1>1
  <2> QED
    BY <2>1, <2>2, <2>3, <2>4, <2>5
<1>6. ASSUME NEW i \in n + 1..n + m PROVE LineAround(both, i) = n + 1..n + m
  <2>1. ASSUME NEW j \in 1..n + m, j <= n PROVE j \notin LineAround(both, i)
    <3>1. n \in 1..n + m /\ j <= n /\ n < i /\ both[n] = "newline"
      BY <1>1, <1>2, <2>1
    <3> QED
      BY <1>1, <3>1 DEF LineAround
  <2>2. ASSUME NEW j \in n + 1..n + m PROVE j \in LineAround(both, i)
    <3>1. j \in 1..n + m
      BY <1>1
    <3>2. \A x \in 1..n + m : (i <= x /\ x < j) \/ (j <= x /\ x < i) => x \in n + 1..n + m - 1
      BY <1>1
    <3> QED
      BY <1>1, <1>3, <3>1, <3>2 DEF LineAround
  <2>3. LineAround(both, i) \subseteq 1..n + m
    BY <1>1 DEF LineAround
  <2>4. \A j \in 1..n + m : j <= n \/ j \in n + 1..n + m
    BY <1>1
  <2> QED
    BY <2>1, <2>2, <2>3, <2>4
<1>7. ASSUME NEW i \in 1..n PROVE MarkedAt(both, i) <=> MarkedAt(text, i)
  <2>1. LineAround(text, i) \subseteq 1..n
    BY <1>1 DEF LineAround
  <2> QED
    BY <1>1, <1>5, <2>1 DEF MarkedAt
<1>8. ASSUME NEW i \in n + 1..n + m PROVE MarkedAt(both, i) <=> IsNoTestFilesLine(line)
  <2>1. MarkedAt(both, i) <=>
          \E j \in n + 1..n + m : j + 1 \in n + 1..n + m /\ both[j] = "[" /\ both[j + 1] = "]"
    BY <1>6 DEF MarkedAt
  <2>2. ASSUME NEW j \in n + 1..n + m, j + 1 \in n + 1..n + m, both[j] = "[", both[j + 1] = "]"
        PROVE  IsNoTestFilesLine(line)
    <3>1. j - n \in 1..m - 1 /\ j - n + 1 \in 1..m /\ n + (j - n) = j /\ n + (j - n + 1) = j + 1
      BY <1>1, <2>2
    <3>2. j - n \in 1..m
      BY <1>1, <3>1
    <3>3. line[j - n] = "[" /\ line[j - n + 1] = "]"
      BY <1>4, <2>2, <3>1, <3>2
    <3> QED
      BY <3>1, <3>3 DEF IsNoTestFilesLine, m
  <2>3. ASSUME IsNoTestFilesLine(line)
        PROVE  \E j \in n + 1..n + m :
                 j + 1 \in n + 1..n + m /\ both[j] = "[" /\ both[j + 1] = "]"
    <3>1. PICK x \in 1..m - 1 : line[x] = "[" /\ line[x + 1] = "]"
      BY <2>3 DEF IsNoTestFilesLine, m
    <3>2. x \in 1..m /\ x + 1 \in 1..m /\ n + (x + 1) = n + x + 1
      BY <1>1
    <3> QED
      BY <1>4, <3>1, <3>2
  <2> QED
    BY <2>1, <2>2, <2>3
<1>9. \A i : i \in Unmarked(both) <=>
        \/ i \in Unmarked(text)
        \/ i \in n + 1..n + m /\ ~IsNoTestFilesLine(line)
  <2>1. \A i : i \in 1..n + m <=> i \in 1..n \/ i \in n + 1..n + m
    BY <1>1
  <2>2. \A i : i \in Unmarked(both) <=> i \in 1..n + m /\ ~MarkedAt(both, i)
    BY <1>1 DEF Unmarked
  <2>3. \A i : i \in Unmarked(text) <=> i \in 1..n /\ ~MarkedAt(text, i)
    BY <1>1 DEF Unmarked
  <2> QED
    BY <1>7, <1>8, <2>1, <2>2, <2>3
<1> QED
  BY <1>9 DEF both, n, m

(* Counting: positions before an interval, and those of it up to one.      *)
LEMMA CountUpTo ==
  ASSUME NEW n \in Nat, NEW S \in SUBSET (1..n), NEW d \in Nat
  PROVE  /\ IsFiniteSet(S) /\ Cardinality(S) \in Nat
         /\ IsFiniteSet(S \cup (n + 1)..(n + d))
         /\ Cardinality(S \cup (n + 1)..(n + d)) = Cardinality(S) + d
         /\ \A i \in S : Cardinality({j \in S : j <= i}) \in 1..Cardinality(S)
<1>1. IsFiniteSet(1..n)
  BY FS_Interval
<1>2. IsFiniteSet(S)
  BY <1>1, FS_Subset
<1>3. Cardinality(S) \in Nat
  BY <1>2, FS_CardinalityType
<1>4. IsFiniteSet((n + 1)..(n + d)) /\ Cardinality((n + 1)..(n + d)) = d
  <2>1. n + 1 \in Int /\ n + d \in Int
    OBVIOUS
  <2>2. /\ IsFiniteSet((n + 1)..(n + d))
        /\ Cardinality((n + 1)..(n + d)) = IF n + 1 > n + d THEN 0 ELSE (n + d) - (n + 1) + 1
    BY <2>1, FS_Interval
  <2> QED
    BY <2>2
<1>5. S \cap (n + 1)..(n + d) = {}
  OBVIOUS
<1>6. Cardinality({}) = 0
  BY FS_EmptySet
<1>7. /\ IsFiniteSet(S \cup (n + 1)..(n + d))
      /\ Cardinality(S \cup (n + 1)..(n + d)) = Cardinality(S) + d
  <2> DEFINE I == (n + 1)..(n + d)
  <2>1. IsFiniteSet(I) /\ Cardinality(I) = d /\ Cardinality(S \cap I) = 0
    BY <1>4, <1>5, <1>6
  <2> HIDE DEF I
  <2>2. /\ IsFiniteSet(S \cup I)
        /\ Cardinality(S \cup I) = Cardinality(S) + Cardinality(I) - Cardinality(S \cap I)
    BY <1>2, <2>1, FS_Union
  <2>3. IsFiniteSet(S \cup I) /\ Cardinality(S \cup I) = Cardinality(S) + d
    BY <1>3, <2>1, <2>2
  <2> QED
    BY <2>3 DEF I
<1>8. ASSUME NEW i \in S PROVE Cardinality({j \in S : j <= i}) \in 1..Cardinality(S)
  <2> DEFINE U == {j \in S : j <= i}
  <2>1. U \in SUBSET S /\ i \in U
    OBVIOUS
  <2>2. IsFiniteSet(U) /\ Cardinality(U) <= Cardinality(S)
    BY <1>2, <2>1, FS_Subset
  <2>3. Cardinality(U) \in Nat /\ Cardinality(U) # 0
    BY <2>1, <2>2, FS_CardinalityType, FS_EmptySet
  <2> HIDE DEF U
  <2>4. Cardinality(U) \in 1..Cardinality(S)
    BY <1>3, <2>2, <2>3
  <2> QED
    BY <2>4 DEF U
<1> QED
  BY <1>2, <1>3, <1>7, <1>8

(* What was right of the text so far is right with another line.           *)
LEMMA FilteredLine ==
  ASSUME NEW text \in Seq(Byte), text = <<>> \/ text[Len(text)] = "newline",
         NEW line \in Seq(Byte), line # <<>>,
         \A i \in 1..Len(line) - 1 : line[i] # "newline",
         NEW out \in Seq(Byte), Filtered(text, out)
  PROVE  Filtered(text \o line, IF IsNoTestFilesLine(line) THEN out ELSE out \o line)
<1> DEFINE both == text \o line
           n == Len(text)
           m == Len(line)
           S == Unmarked(text)
<1>1. /\ n \in Nat /\ m \in Nat /\ DOMAIN text = 1..n
      /\ \A i \in 1..n : both[i] = text[i]
      /\ \A i \in n + 1..n + m : both[i] = line[i - n]
  <2>1. n \in Nat /\ m \in Nat /\ DOMAIN text = 1..n
    OBVIOUS
  <2>2. \A i \in 1..n + m : both[i] = IF i <= n THEN text[i] ELSE line[i - n]
    BY ConcatProperties
  <2> HIDE DEF both, n, m
  <2> QED
    BY <2>1, <2>2
<1>2. S \in SUBSET (1..n)
  BY <1>1 DEF Unmarked
<1>3. Unmarked(both) = IF IsNoTestFilesLine(line) THEN S ELSE S \cup (n + 1)..(n + m)
  BY UnmarkedLine
<1>4. /\ Len(out) = Cardinality(S)
      /\ \A i \in S : out[Cardinality({j \in S : j <= i})] = text[i]
  BY DEF Filtered
<1>5. CASE IsNoTestFilesLine(line)
  <2>1. Unmarked(both) = S
    BY <1>3, <1>5
  <2>2. \A i \in S : both[i] = text[i]
    BY <1>1, <1>2
  <2> HIDE DEF both, S, n, m
  <2>3. Filtered(both, out)
    BY <1>4, <2>1, <2>2 DEF Filtered
  <2> QED
    BY <1>5, <2>3 DEF both
<1>6. CASE ~IsNoTestFilesLine(line)
  <2> DEFINE new == out \o line
             T == S \cup (n + 1)..(n + m)
             c == Cardinality(S)
  <2>1. Unmarked(both) = T
    BY <1>3, <1>6
  <2>2. c \in Nat /\ Len(out) = c /\ Cardinality(T) = c + m
    BY <1>1, <1>2, <1>4, CountUpTo
  <2>3. /\ Len(new) = c + m
        /\ \A x \in 1..c + m : new[x] = IF x <= c THEN out[x] ELSE line[x - c]
    <3>1. /\ Len(out \o line) = Len(out) + Len(line)
          /\ \A x \in 1..Len(out) + Len(line) :
               (out \o line)[x] = IF x <= Len(out) THEN out[x] ELSE line[x - Len(out)]
      BY ConcatProperties
    <3>2. Len(out) = c
      BY <2>2
    <3> HIDE DEF c
    <3> QED
      BY <3>1, <3>2
  <2> HIDE DEF both, n, m, S, new
  <2>4. ASSUME NEW i \in S PROVE new[Cardinality({j \in T : j <= i})] = both[i]
    <3>1. {j \in T : j <= i} = {j \in S : j <= i}
      BY <1>1, <1>2
    <3>2. Cardinality({j \in S : j <= i}) \in 1..c
      BY <1>1, <1>2, CountUpTo
    <3>3. new[Cardinality({j \in S : j <= i})] = out[Cardinality({j \in S : j <= i})]
      <4> DEFINE x == Cardinality({j \in S : j <= i})
      <4> HIDE DEF x
      <4>1. x \in 1..c
        BY <3>2 DEF x
      <4>2. x \in 1..c + m /\ x <= c
        BY <1>1, <2>2, <4>1
      <4>3. new[x] = out[x]
        BY <2>3, <4>2
      <4> QED
        BY <4>3 DEF x
    <3> QED
      BY <1>1, <1>2, <1>4, <3>1, <3>3
  <2>5. ASSUME NEW i \in n + 1..n + m PROVE new[Cardinality({j \in T : j <= i})] = both[i]
    <3>1. PICK d \in 1..m : i = n + d
      <4>1. i - n \in 1..m /\ i = n + (i - n)
        BY <1>1
      <4> QED
        BY <4>1
    <3>2. {j \in T : j <= i} = S \cup (n + 1)..(n + d)
      <4>1. \A j \in S : j <= i
        BY <1>1, <1>2, <3>1
      <4>2. \A j \in n + 1..n + m : j <= i <=> j \in n + 1..n + d
        BY <1>1, <3>1
      <4>3. \A j \in n + 1..n + d : j \in n + 1..n + m
        BY <1>1, <3>1
      <4> QED
        BY <4>1, <4>2, <4>3
    <3>3. Cardinality(S \cup (n + 1)..(n + d)) = c + d
      <4>1. d \in Nat
        BY <3>1
      <4> QED
        BY <1>1, <1>2, <4>1, CountUpTo
    <3>4. c + d \in 1..c + m /\ ~(c + d <= c) /\ (c + d) - c = d
      <4> HIDE DEF c
      <4>1. c \in Nat /\ m \in Nat /\ d \in Nat /\ 1 <= d /\ d <= m
        BY <1>1, <2>2, <3>1
      <4> QED
        BY <4>1
    <3>5. new[c + d] = line[d]
      BY <2>3, <3>4
    <3>6. both[i] = line[d]
      <4>1. i - n = d
        BY <1>1, <3>1
      <4> QED
        BY <1>1, <4>1
    <3> QED
      BY <3>2, <3>3, <3>5, <3>6
  <2>6. \A i \in T : new[Cardinality({j \in T : j <= i})] = both[i]
    BY <2>4, <2>5
  <2>7. Filtered(both, new)
    BY <2>1, <2>2, <2>3, <2>6 DEF Filtered
  <2> QED
    BY <1>6, <2>7 DEF both, new
<1> QED
  BY <1>5, <1>6

(* A chunk is a text.                                                      *)
LEMMA ChunkIsText == Chunk \subseteq Seq(Byte)
<1>1. ASSUME NEW n \in 1..MaxChunk, NEW c \in [1..n -> Byte] PROVE c \in Seq(Byte)
  <2>1. n \in Nat
    BY TestCommandAssumption
  <2> QED
    BY <2>1
<1> QED
  BY <1>1 DEF Chunk

FilterTyped ==
  /\ written \in Seq(Byte) /\ pending \in Seq(Byte) /\ forwarded \in Seq(Byte)
  /\ writing \in BOOLEAN /\ outErr \in BOOLEAN /\ dropped \in Nat

(* A line is left out or passed on, or the write fails.                    *)
LEMMA PassLine ==
  ASSUME FilterTyped, NEW line \in Seq(Byte), Pass(line), written' \in Seq(Byte),
         pending' \in Seq(Byte), writing' \in BOOLEAN
  PROVE  /\ FilterTyped'
         /\ ~outErr' => ~outErr /\ forwarded' =
              IF IsNoTestFilesLine(line) THEN forwarded ELSE forwarded \o line
<1>1. CASE IsNoTestFilesLine(line)
  BY <1>1 DEF Pass, FilterTyped
<1>2. CASE ~IsNoTestFilesLine(line)
  <2>1. /\ dropped' = dropped
        /\ \/ forwarded' = forwarded \o line /\ outErr' = outErr
           \/ outErr' = TRUE /\ forwarded' = forwarded
    BY <1>2 DEF Pass
  <2>2. forwarded \o line \in Seq(Byte)
    BY ConcatProperties DEF FilterTyped
  <2> QED
    BY <1>2, <2>1, <2>2 DEF FilterTyped
<1> QED
  BY <1>1, <1>2

(* While go test writes to the filter, the reporter is not concerned.      *)
LEMMA RawQuiet ==
  ASSUME Inv, raw, step = "read", UNCHANGED <<truth, stage, tool, pipe, reporterVars>>,
         UNCHANGED <<raw, scanErr>>
  PROVE  ToolInv' /\ PipeInv' /\ HeldInv' /\ ReportInv' /\ ReadInv' /\ ToldInv'
<1> USE DEF reporterVars
<1>1. ToolInv' /\ PipeInv'
  BY DEF Inv, ToolInv, PipeInv
<1>2. HeldInv'
  BY DEF Inv, HeldInv, Status, Known
<1>3. ReportInv'
  BY DEF Inv, ReportInv, OneBlock, ParentsFirst
<1>4. ReadInv'
  BY DEF ReadInv
<1>5. ToldInv'
  BY DEF Inv, ToldInv, Status, Says, Listed
<1> QED
  BY <1>1, <1>2, <1>3, <1>4, <1>5

(* A chunk is taken in, or a line of it is passed on or left out.          *)
LEMMA CopiesInv == Inv /\ Copies => Inv'
<1> SUFFICES ASSUME Inv, Copies PROVE Inv'
  OBVIOUS
<1>1. /\ raw /\ step = "read"
      /\ UNCHANGED <<truth, stage, tool, pipe, reporterVars>> /\ UNCHANGED <<raw, step, scanErr>>
      /\ (\E chunk \in Chunk : Write(chunk)) \/ TakeLine \/ WriteDone
  BY DEF Copies, toolVars, commandVars
<1>2. ToolInv' /\ PipeInv' /\ HeldInv' /\ ReportInv' /\ ReadInv' /\ ToldInv'
  BY <1>1, RawQuiet
<1>3. StepInv'
  BY <1>1 DEF Inv, StepInv, Returned
<1>4. /\ FilterTyped
      /\ written \in Seq(Byte) /\ pending \in Seq(Byte) /\ forwarded \in Seq(Byte)
      /\ writing \in BOOLEAN /\ outErr \in BOOLEAN /\ dropped \in Nat
  BY DEF Inv, TypeInv, FilterTyped
<1>5. ~Returned /\ ~Returned'
  BY <1>1 DEF Returned
<1>6. ~outErr => \E done \in Seq(Byte) :
        /\ written = done \o pending /\ Filtered(done, forwarded)
        /\ done = <<>> \/ done[Len(done)] = "newline"
        /\ ~writing => ~WholeLine(pending)
  BY <1>1, <1>5 DEF Inv, FilterInv
<1>7. FilterTyped' /\ FilterInv'
  <2>1. ASSUME NEW chunk \in Chunk, Write(chunk) PROVE FilterTyped' /\ FilterInv'
    <3>1. /\ written' = written \o chunk /\ pending' = pending \o chunk /\ writing' = TRUE
          /\ UNCHANGED <<forwarded, dropped, outErr>>
      BY <2>1 DEF Write
    <3>2. chunk \in Seq(Byte)
      BY ChunkIsText
    <3>3. FilterTyped'
      BY <1>4, <3>1, <3>2 DEF FilterTyped
    <3>4. ASSUME ~outErr' PROVE FilterInv'
      <4>1. PICK done \in Seq(Byte) :
              /\ written = done \o pending /\ Filtered(done, forwarded)
              /\ done = <<>> \/ done[Len(done)] = "newline"
        BY <1>6, <3>1, <3>4
      <4>2. written' = done \o pending'
        <5>1. pending \in Seq(Byte)
          BY <1>4
        <5>2. (done \o pending) \o chunk = done \o (pending \o chunk)
          BY <3>2, <5>1, ConcatAssociative
        <5> QED
          BY <3>1, <4>1, <5>2
      <4> QED
        BY <1>5, <3>1, <4>1, <4>2 DEF FilterInv
    <3> QED
      BY <3>3, <3>4 DEF FilterInv
  <2>2. ASSUME TakeLine PROVE FilterTyped' /\ FilterInv'
    <3> DEFINE line == FirstLine(pending)
               rest == SubSeq(pending, Len(line) + 1, Len(pending))
    <3>1. /\ WholeLine(pending) /\ Pass(line) /\ pending' = rest /\ writing' = ~outErr'
          /\ UNCHANGED written
      BY <2>2 DEF TakeLine
    <3>2. /\ line \in Seq(Byte) /\ rest \in Seq(Byte) /\ line # <<>>
          /\ line[Len(line)] = "newline"
          /\ \A i \in 1..Len(line) - 1 : line[i] # "newline"
          /\ pending = line \o rest
      BY <1>4, <3>1, FirstLineOf
    <3> HIDE DEF line, rest
    <3>3. FilterTyped' /\ (~outErr' => ~outErr /\ forwarded' =
            IF IsNoTestFilesLine(line) THEN forwarded ELSE forwarded \o line)
      <4>1. /\ written' \in Seq(Byte) /\ pending' \in Seq(Byte)
            /\ writing' \in BOOLEAN
        BY <1>4, <3>1, <3>2
      <4>2. FilterTyped /\ Pass(line) /\ line \in Seq(Byte)
        BY <1>4, <3>1, <3>2
      <4> QED BY <4>1, <4>2, PassLine
    <3>4. ASSUME ~outErr' PROVE FilterInv'
      <4>1. PICK done \in Seq(Byte) :
              /\ written = done \o pending /\ Filtered(done, forwarded)
              /\ done = <<>> \/ done[Len(done)] = "newline"
        BY <1>6, <3>3, <3>4
      <4> DEFINE more == done \o line
      <4>2. more \in Seq(Byte) /\ written' = more \o pending'
        <5>1. (done \o line) \o rest = done \o (line \o rest)
          <6>1. \A s, t, u \in Seq(Byte) : (s \o t) \o u = s \o (t \o u)
            BY ConcatAssociative
          <6> HIDE DEF more
          <6> QED
            BY <3>2, <6>1
        <5>2. done \o line \in Seq(Byte)
          BY <3>2
        <5> QED
          BY <3>1, <3>2, <4>1, <5>1, <5>2
      <4>3. Filtered(more, forwarded')
        BY <1>4, <3>2, <3>3, <3>4, <4>1, FilteredLine
      <4>4. more[Len(more)] = "newline"
        <5>1. Len(line) \in Nat \ {0} /\ Len(done) \in Nat
          BY <3>2, EmptySeq
        <5>2. Len(more) = Len(done) + Len(line)
          BY <3>2, ConcatProperties
        <5>3. more[Len(done) + Len(line)] = line[Len(line)]
          <6>1. \A i \in 1..Len(done) + Len(line) :
                  more[i] = IF i <= Len(done) THEN done[i] ELSE line[i - Len(done)]
            BY <3>2, ConcatProperties
          <6> HIDE DEF more
          <6> QED
            BY <5>1, <6>1
        <5> QED
          BY <3>2, <5>2, <5>3
      <4> HIDE DEF more
      <4> QED
        BY <1>5, <3>1, <3>4, <4>2, <4>3, <4>4 DEF FilterInv
    <3> QED
      BY <3>3, <3>4 DEF FilterInv
  <2>3. ASSUME WriteDone PROVE FilterTyped' /\ FilterInv'
    <3>1. /\ ~WholeLine(pending) /\ writing' = FALSE
          /\ UNCHANGED <<written, pending, forwarded, dropped, outErr>>
      BY <2>3 DEF WriteDone
    <3>2. FilterTyped'
      BY <1>4, <3>1 DEF FilterTyped
    <3> QED
      BY <1>5, <1>6, <3>1, <3>2 DEF FilterInv
  <2> QED
    BY <1>1, <2>1, <2>2, <2>3
<1>8. TypeInv'
  BY <1>1, <1>7 DEF Inv, TypeInv, FilterTyped, reporterVars
<1> QED
  BY <1>2, <1>3, <1>7, <1>8 DEF Inv

(* The rest is passed on, and the command returns.                         *)
LEMMA ReturnsRawInv == Inv /\ ReturnsRaw => Inv'
<1> SUFFICES ASSUME Inv, ReturnsRaw PROVE Inv'
  OBVIOUS
<1>1. /\ raw /\ step = "read" /\ tool # "running" /\ FlushRest
      /\ step' = IF outErr' \/ tool = "failed" THEN "error" ELSE "ok"
      /\ UNCHANGED <<truth, stage, tool, pipe, reporterVars>> /\ UNCHANGED <<raw, scanErr>>
  BY DEF ReturnsRaw, toolVars
<1>2. ToolInv' /\ PipeInv' /\ HeldInv' /\ ReportInv' /\ ReadInv' /\ ToldInv'
  BY <1>1, RawQuiet
<1>3. StepInv'
  BY <1>1 DEF Inv, StepInv, Returned
<1>4. FilterTyped /\ pending \in Seq(Byte) /\ forwarded \in Seq(Byte)
  BY DEF Inv, TypeInv, FilterTyped
<1>5. ~Returned /\ Returned'
  BY <1>1 DEF Returned
<1>6. /\ ~writing /\ pending' = <<>> /\ UNCHANGED <<written, writing>>
      /\ IF pending = <<>> THEN UNCHANGED <<forwarded, dropped, outErr>> ELSE Pass(pending)
  BY <1>1 DEF FlushRest
<1>7. <<>> \in Seq(Byte)
  OBVIOUS
<1>8. ~WholeLine(<<>>)
  BY DEF WholeLine, Contains
<1>9. FilterTyped' /\ FilterInv'
  <2>1. ~outErr => \E done \in Seq(Byte) :
          /\ written = done \o pending /\ Filtered(done, forwarded)
          /\ done = <<>> \/ done[Len(done)] = "newline"
          /\ ~WholeLine(pending)
    BY <1>1, <1>5, <1>6 DEF Inv, FilterInv
  <2>2. CASE pending = <<>>
    <3>1. FilterTyped'
      BY <1>4, <1>6, <1>7, <2>2 DEF FilterTyped
    <3> QED
      BY <1>6, <1>8, <2>1, <2>2, <3>1 DEF FilterInv
  <2>3. CASE pending # <<>>
    <3>1. FilterTyped' /\ (~outErr' => ~outErr /\ forwarded' =
            IF IsNoTestFilesLine(pending) THEN forwarded ELSE forwarded \o pending)
      <4>1. written' \in Seq(Byte) /\ pending' \in Seq(Byte) /\ writing' \in BOOLEAN
        BY <1>4, <1>6, <1>7 DEF FilterTyped
      <4> QED
        BY <1>4, <1>6, <2>3, <4>1, PassLine
    <3>2. ASSUME ~outErr' PROVE FilterInv'
      <4>1. PICK done \in Seq(Byte) :
              /\ written = done \o pending /\ Filtered(done, forwarded)
              /\ done = <<>> \/ done[Len(done)] = "newline"
              /\ ~WholeLine(pending)
        BY <2>1, <3>1, <3>2
      <4>2. \A i \in 1..Len(pending) - 1 : pending[i] # "newline"
        BY <1>4, <4>1 DEF WholeLine, Contains
      <4>3. Filtered(written, forwarded')
        BY <1>4, <2>3, <3>1, <3>2, <4>1, <4>2, FilteredLine
      <4>4. written \in Seq(Byte) /\ written = written \o <<>>
        BY <1>4, ConcatEmptySeq DEF FilterTyped
      <4> QED
        BY <1>5, <1>6, <1>8, <4>3, <4>4 DEF FilterInv
    <3> QED
      BY <3>1, <3>2 DEF FilterInv
  <2> QED
    BY <2>2, <2>3
<1>10. TypeInv'
  BY <1>1, <1>9 DEF Inv, TypeInv, FilterTyped, reporterVars
<1> QED
  BY <1>2, <1>3, <1>9, <1>10 DEF Inv

-----------------------------------------------------------------------------
(* Every step of go test and of the command keeps the invariant.           *)
LEMMA NextInv == Inv /\ [Next]_vars => Inv'
<1> SUFFICES ASSUME Inv, [Next]_vars PROVE Inv'
  OBVIOUS
<1>1. CASE ToolProgress \/ \E k \in Package : PrintsTooMuch(k)
  <2>1. ASSUME NEW k \in Package, NEW t \in Test, TestStarts(k, t) PROVE Inv'
    <3>1. Speaks(k, t, "run")
      BY <2>1 DEF Speaks
    <3> QED
      BY <3>1, SpeaksInv
  <2>2. ASSUME NEW k \in Package, NEW t \in Test, NEW how \in Ends, TestEnds(k, t, how)
        PROVE  Inv'
    <3>1. Speaks(k, t, how)
      BY <2>2 DEF Speaks
    <3> QED
      BY <3>1, SpeaksInv
  <2>3. ASSUME NEW k \in Package, NEW how \in Ends, PackageEnds(k, how) PROVE Inv'
    <3>1. Speaks(k, NoTest, how)
      BY <2>3 DEF Speaks
    <3> QED
      BY <3>1, SpeaksInv
  <2>4. ASSUME NEW k \in Package, PrintsTooMuch(k) PROVE Inv'
    <3>1. Speaks(k, NoTest, "oversize")
      BY <2>4 DEF Speaks
    <3> QED
      BY <3>1, SpeaksInv
  <2>5. ASSUME ToolExits PROVE Inv'
    BY <2>5, ToolEndsInv
  <2> QED
    BY <1>1, <2>1, <2>2, <2>3, <2>4, <2>5 DEF ToolProgress
<1>2. CASE ToolKilled
  BY <1>2, ToolEndsInv
<1>3. CASE CommandStep
  <2>1. CASE ReadsRecord
    BY <2>1, ReadsPackageInv, ReadsTestInv
  <2>2. CASE ScanFails \/ ReadsEnd \/ Waits \/ Returns
    BY <2>2, StopsInv
  <2>3. CASE FlushesHeld
    BY <2>3, FlushesHeldInv
  <2>4. CASE Copies
    BY <2>4, CopiesInv
  <2>5. CASE ReturnsRaw
    BY <2>5, ReturnsRawInv
  <2>6. CASE StartFails
    BY <2>6, StartFailsInv
  <2> QED
    BY <1>3, <2>1, <2>2, <2>3, <2>4, <2>5, <2>6 DEF CommandStep
<1>4. CASE UNCHANGED vars
  <2> USE <1>4 DEF vars, toolVars, commandVars, reporterVars, filterVars
  <2>1. TypeInv' /\ ToolInv' /\ PipeInv'
    BY DEF Inv, TypeInv, ToolInv, PipeInv
  <2>2. HeldInv'
    BY DEF Inv, HeldInv, Status, Known
  <2>3. ReportInv'
    BY DEF Inv, ReportInv, OneBlock, ParentsFirst
  <2>4. ReadInv'
    BY DEF Inv, ReadInv, Known, Reported, Says
  <2>5. ToldInv'
    BY DEF Inv, ToldInv, Status, Listed, Says
  <2>6. StepInv'
    BY DEF Inv, StepInv, Returned, Held, Verdict
  <2>7. FilterInv'
    BY DEF Inv, FilterInv, Returned
  <2> QED
    BY <2>1, <2>2, <2>3, <2>4, <2>5, <2>6, <2>7 DEF Inv
<1> QED
  BY <1>1, <1>2, <1>3, <1>4 DEF Next

LEMMA InvHolds == Spec => []Inv
  BY InitInv, NextInv, PTL DEF Spec

-----------------------------------------------------------------------------
(* The variables stay in their types, and what is printed is lines about   *)
(* tests that have ended.                                                  *)
THEOREM TypeCorrect == Spec => []TypeOK
<1>1. ASSUME Inv PROVE TypeOK
  <2>1. TypeInv
    BY <1>1 DEF Inv
  <2>2. report \in Seq(Block)
    BY <2>1 DEF TypeInv
  <2>3. ASSUME NEW b \in DOMAIN report
        PROVE  /\ report[b].pkg \in Package
               /\ \A i \in DOMAIN report[b].lines : report[b].lines[i] \in Line
    BY <2>2, <2>3, BlockLines
  <2>4. ReporterTypeOK
    BY <2>1, <2>3 DEF ReporterTypeOK, TypeInv
  <2>5. FilterTypeOK
    BY <2>1 DEF FilterTypeOK, TypeInv
  <2> QED
    BY <2>1, <2>4, <2>5 DEF TypeOK, TypeInv
<1> QED
  BY <1>1, InvHolds, PTL

(* However the packages interleave, what the Reporter prints of one is in  *)
(* one block, each test in it once and below the test it is part of.       *)
THEOREM GroupedHolds == Spec => []Grouped
<1>1. Inv => Grouped
  BY DEF Inv, ReportInv, Grouped
<1> QED
  BY <1>1, InvHolds, PTL

(* No result is printed wrongly, and when the command returns none that    *)
(* could be read has been left out, whatever became of its package.        *)
THEOREM NothingSwallowedHolds == Spec => []NothingSwallowed
<1>1. ASSUME Inv PROVE NothingSwallowed
  <2>1. \A b \in DOMAIN report : \A i \in DOMAIN report[b].lines :
          truth[report[b].pkg][report[b].lines[i].test] = report[b].lines[i].status
    BY <1>1 DEF Inv, ReportInv
  <2>2. ASSUME Returned, ~raw, ~scanErr, NEW k \in Package, NEW t \in Test, truth[k][t] \in Ends
        PROVE  Listed(k, t)
    <3>1. pipe = <<>> /\ Held = {}
      BY <1>1, <2>2 DEF Inv, StepInv, Returned
    <3>2. Status(k, t) = "none"
      <4>1. packages[k].order = <<>>
        BY <3>1 DEF Held
      <4>2. ~Known(k, t)
        BY <4>1 DEF Known
      <4> QED
        BY <1>1, <4>2 DEF Inv, HeldInv
    <3> QED
      BY <1>1, <2>2, <3>1, <3>2 DEF Inv, ToldInv
  <2> QED
    BY <2>1, <2>2 DEF NothingSwallowed
<1> QED
  BY <1>1, InvHolds, PTL

(* The command says ok only if go test did, everything it said was read    *)
(* and passed on and no test of it failed, and error only for a reason.    *)
THEOREM VerdictHolds == Spec => []VerdictTrue
<1>1. ASSUME Inv PROVE VerdictTrue
  <2>1. ASSUME step = "ok"
        PROVE  /\ tool = "ok" /\ ~scanErr /\ ~outErr /\ pipe = <<>>
               /\ \A k \in Package, t \in Test : truth[k][t] # "fail"
    <3>1. CASE raw
      BY <1>1, <2>1, <3>1 DEF Inv, TypeInv, StepInv, ToolInv, Returned
    <3>2. CASE ~raw
      <4>1. /\ step = Verdict /\ ~outErr /\ tool # "running"
        BY <1>1, <2>1, <3>2 DEF Inv, StepInv, Returned
      <4>2. ~scanErr /\ tool # "failed"
        BY <2>1, <4>1 DEF Verdict
      <4>3. tool = "ok" /\ pipe = <<>>
        BY <1>1, <2>1, <3>2, <4>1, <4>2 DEF Inv, TypeInv, StepInv
      <4>4. \A k \in Package : stage[k] \in {"pass", "skip"}
        BY <1>1, <3>2, <4>3 DEF Inv, ToolInv
      <4>5. \A k \in Package, t \in Test : truth[k][t] # "fail"
        BY <1>1, <4>4 DEF Inv, ToolInv
      <4> QED
        BY <4>1, <4>2, <4>3, <4>5
    <3> QED
      BY <3>1, <3>2
  <2>2. ASSUME step = "error" PROVE tool = "failed" \/ scanErr \/ outErr
    <3>1. CASE raw
      BY <1>1, <2>2, <3>1 DEF Inv, StepInv, Returned
    <3>2. CASE ~raw
      <4>1. step = Verdict /\ tool # "running"
        BY <1>1, <2>2, <3>2 DEF Inv, StepInv, Returned
      <4>2. ASSUME ~scanErr, tool # "failed" PROVE FALSE
        <5>1. failures # {} /\ tool = "ok"
          BY <1>1, <2>2, <4>1, <4>2 DEF Verdict, Inv, TypeInv
        <5>2. PICK t \in failures : TRUE
          BY <5>1
        <5>3. PICK k \in Package : truth[k][t] = "fail"
          BY <1>1 DEF Inv, ReportInv
        <5>4. t \in Test /\ stage[k] \in {"pass", "skip"}
          BY <1>1, <3>2, <5>1 DEF Inv, TypeInv, ToolInv
        <5> QED
          BY <1>1, <5>3, <5>4 DEF Inv, ToolInv
      <4> QED
        BY <4>2
    <3> QED
      BY <3>1, <3>2
  <2> QED
    BY <2>1, <2>2 DEF VerdictTrue
<1> QED
  BY <1>1, InvHolds, PTL

(* The summary repeats each failure that could be read, under a package in *)
(* which a test of that name has failed.                                   *)
THEOREM FailuresNamedHolds == Spec => []FailuresNamed
<1>1. ASSUME Inv PROVE FailuresNamed
  <2>1. \A t \in failures : \E k \in Package : failedIn[t] = k /\ truth[k][t] = "fail"
    BY <1>1 DEF Inv, ReportInv
  <2>2. ASSUME Returned, ~raw, ~scanErr, NEW k \in Package, NEW t \in Test, truth[k][t] = "fail"
        PROVE  t \in failures
    <3>1. pipe = <<>> /\ Held = {}
      BY <1>1, <2>2 DEF Inv, StepInv, Returned
    <3>2. Status(k, t) = "none"
      <4>1. packages[k].order = <<>>
        BY <3>1 DEF Held
      <4>2. ~Known(k, t)
        BY <4>1 DEF Known
      <4> QED
        BY <1>1, <4>2 DEF Inv, HeldInv
    <3>3. truth[k][t] \in Ends
      BY <2>2 DEF Ends
    <3>4. Listed(k, t)
      BY <1>1, <2>2, <3>1, <3>2, <3>3 DEF Inv, ToldInv
    <3>5. PICK b \in DOMAIN report : report[b].pkg = k /\
            \E i \in DOMAIN report[b].lines : report[b].lines[i].test = t
      BY <3>4 DEF Listed
    <3>6. PICK i \in DOMAIN report[b].lines : report[b].lines[i].test = t
      BY <3>5
    <3>7. report[b].lines[i].status = "fail"
      BY <1>1, <2>2, <3>5, <3>6 DEF Inv, ReportInv
    <3> QED
      BY <1>1, <3>6, <3>7 DEF Inv, ReportInv
  <2> QED
    BY <2>1, <2>2 DEF FailuresNamed
<1> QED
  BY <1>1, InvHolds, PTL

(* Wherever the chunks end, what the filter has passed on is the text it   *)
(* was given without the marked lines, and at the end it keeps nothing.    *)
THEOREM FilteredByLineHolds == Spec => []FilteredByLine
<1>1. ASSUME Inv, raw, ~outErr
      PROVE  /\ ~writing => Filtered(SubSeq(written, 1, Len(written) - Len(pending)), forwarded)
             /\ Returned => pending = <<>> /\ Filtered(written, forwarded)
  <2>1. PICK done \in Seq(Byte) :
          /\ written = done \o pending /\ Filtered(done, forwarded)
          /\ Returned => pending = <<>>
    BY <1>1 DEF Inv, FilterInv
  <2>2. pending \in Seq(Byte)
    BY <1>1 DEF Inv, TypeInv
  <2>3. SubSeq(written, 1, Len(written) - Len(pending)) = done
    <3>1. Len(written) - Len(pending) = Len(done)
      BY <2>1, <2>2, ConcatProperties
    <3>2. \A i \in 1..Len(done) : written[i] = done[i] /\ done[i] \in Byte
      BY <2>1, <2>2, ConcatProperties
    <3>3. 1 \in Int /\ Len(done) \in Int /\ Len(done) \in Nat
      OBVIOUS
    <3>4. /\ SubSeq(written, 1, Len(done)) \in Seq(Byte)
          /\ Len(SubSeq(written, 1, Len(done))) = IF 1 <= Len(done) THEN Len(done) - 1 + 1 ELSE 0
          /\ \A i \in 1..Len(done) - 1 + 1 :
               SubSeq(written, 1, Len(done))[i] = written[1 + i - 1]
      BY <3>2, <3>3, SubSeqProperties
    <3>5. Len(SubSeq(written, 1, Len(done))) = Len(done)
      BY <3>3, <3>4
    <3>6. ASSUME NEW i \in 1..Len(done) PROVE SubSeq(written, 1, Len(done))[i] = done[i]
      <4>1. i \in 1..Len(done) - 1 + 1 /\ 1 + i - 1 = i
        BY <3>3
      <4> QED
        BY <3>2, <3>4, <4>1
    <3> QED
      BY <3>1, <3>4, <3>5, <3>6, SeqEqual
  <2>4. ASSUME Returned PROVE pending = <<>> /\ written = done
    BY <2>1, <2>4, ConcatEmptySeq
  <2> QED
    BY <2>1, <2>3, <2>4
<1>2. Inv => FilteredByLine
  BY <1>1 DEF FilteredByLine
<1> QED
  BY <1>2, InvHolds, PTL

=============================================================================
