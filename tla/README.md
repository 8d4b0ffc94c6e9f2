# Verification of gin-di

TLA+ models of the parts of gin-di whose correctness depends on order: concurrent
requests, several processes over one database or one directory, signals, failures
and restarts. TLC checks the models on small instances; TLAPS proves the central
results about the throttle, the migrator, the server's exit, login, the log files, the
pipeline, the console commands and the test command for every value of the constants.

Paths below are relative to the repository (`app/...`) or to this directory (`*.tla`).
`PROJECT.json` maps every definition that models code to the lines it stands for.

## 1. The system

gin-di is a Laravel-shaped Go web application in one binary: `main.go` starts the
HTTP server, and with arguments the console (`app/providers`).

| Component | State it keeps | Operations | Interacts with | Hard behaviour |
|---|---|---|---|---|
| Throttle store, `app/services/throttle` | map of token buckets, time of the last sweep, under a mutex | `Allow` (refill, spend, insert, sweep, evict) | called by the middlewares | stamps read before the mutex, sweep and eviction at the cap |
| Throttle middleware, `app/http/middlewares/throttle_middleware.go`, `configs/throttle.go` | none; the request's place in its chain | read clock, ask, admit or answer 429 with `Retry-After` | two limits of one route share the store | order of decisions, rounding of the header |
| Schema migrator, `database/migrator.go` | tables, foreign keys, rows of `migrations` | `Run`, `Reset`/`Refresh`, `Fresh` | Postgres; other consoles | no lock between consoles; failure, kill and lost acknowledgement between statements |
| HTTP lifecycle, `main.go`, `app/providers/http_service_provider.go` | pool, log file, trapped signals, listener channel | boot steps, serve, drain, deferred clean-up | listener goroutine, handlers, signals | signal against listener failure, drain against hanging handlers, order of deferred calls |
| Daily log writer, `app/services/core/log_service.go` | open file, its date | `Write`, `rotate`, `pruneLogs`, `Close` | the directory, shared by processes | two sweeps at midnight, removal of an open file, failed rotation |
| Models and connection pool, `app/models`, `app/services/core/pgsql_service.go` | connections handed out | `Create`, `Find…`, `Paginate…`, `Update`, `Delete` | `database/sql` | calls without deadline, rows that must be closed, deferred errors |
| Login, `app/services/user_service.go`, `app/http/controllers/v1` | slots for password checks | lookup, wait for a slot, check, sign | the pool, the other routes | slot given back on every path, slow checks against other routes |
| Request pipeline, the other middlewares and `app/http/responses` | errors and the response of one request | request id, access log, recovery, CORS, body limit, exception handler, authentication | the handlers | one response whatever fails or panics |
| Tokens, `app/services/auth_service.go`, `configs/jwt.go` | none | sign, parse | login, authentication | overflow of the lifetime |
| `jwt:secret`, `app/console/jwt/secret.go` | `.env`; temporary files beside it | read, edit a line, write a sibling, rename | the operator's editor, other consoles; every command loads `.env` | lost update, kill between two calls, failed clean-up |
| Test command, `app/console/test` | results held per package, failures; the text between two newlines | `Handle`, `flush`, `Summary`; `Write`, `Flush` | `go test` in a process of its own, through a pipe | interleaved packages, tests that never end, chunks that end anywhere, a full pipe nobody reads |
| Seeders and factories, `database/seeder.go`, `database/seeders`, `database/factories`, `app/console/migrations/seed.go` | rows | confirm, look up, insert one by one, stop at the first failure | models, the pool, `APP_ENV` in `.env` | reruns after a failure, two runs at once, failed lookup |
| Console dispatch, `main.go`, `app/providers/console_service_provider.go` | none | load `.env`, find a command, exit with its outcome | every command | what was read at the start is stale later |
| Configuration, validation, routes, container | none after boot | read the environment, register | everything | numeric edges of the configuration |

What makes each of them correct:

* **Throttle**: a client is judged as if each limit held one steadily refilled
  allowance; sweeping and eviction do not let anyone exceed it by more than stated;
  the map stays below its cap; a client that obeys `Retry-After` gets in.
* **Migrator**: the schema and its `migrations` rows agree at all times, success is
  reported over a whole schema only, rows of one batch belong to one run, and
  `migrate:fresh` repairs anything.
* **Lifecycle**: what was opened is closed on every exit, an orderly stop has really
  drained, a signal or a listener failure does end the process.
* **Log files**: no record goes before its retention is over, none is filed under an
  earlier day, nothing expired survives a complete sweep.
* **Pipeline**: a request is answered once whatever fails, every answer leaves an
  access record and every failure its cause, and no handler runs past a guard that
  rejected it or panicked.
* **jwt:secret**: `.env` is whole at every moment, a live secret and the operator's
  changes go only in an overlap that the code cannot see, the exit code is truthful.
* **Test command**: no result is swallowed, scattered or printed under a package that
  did not have it (the summary of failures knows them by name only, see below), the
  verdict is that of `go test`, and the command returns.
* **Seeding**: reruns do not double an account, success is reported over complete
  fixtures only, and production is asked about.
* **Pool and login**: no connection and no slot is lost on any path, failure never
  passes for success, every login and every listing is answered.

## 2. Modules

```
RateLimit ── MemoryStore ── Throttle ──┬── MCThrottle ──┐
    │                          │       └── RetryHeader ──┴── MCRetryHeader
    └── IdealThrottle <── refines              └── Throttle_proofs
Migrator ──┬── MCMigrator
           └── Migrator_proofs
HttpServer ── HttpServer_proofs        Connections ── Login ── Login_proofs
DailyWriter ── DailyWriter_proofs      Pipeline ──┬── MCPipeline
                                                  └── Pipeline_proofs
Shell ──┬── EnvFile ──┬── Console ──┬── MCConsole
        └── Seeding ──┘             └── Console_proofs
Reporter ──┬── TestCommand ──┬── MCTestCommand
LineFilter ┘                 └── TestCommand_proofs
```

### Throttle (`RateLimit`, `MemoryStore`, `Throttle`, `RetryHeader`)

`RateLimit` has the two configured limits. A limit of `Requests` per `Per` ticks
refills `Requests` units a tick when a token is worth `Per` units, so that all
levels are integers. The code's `float64` levels are thereby exact; their rounding
is not modelled.

`MemoryStore` is `memory.go`. `buckets` is the map, `prunedAt` the field of that
name. `Allow` runs under the mutex and is one action: the unforced sweep
(`Sweep`), the refill (`Held`), the insertion with a forced sweep and an eviction
(`MakeRoom`, `Evicted`), the spending (`Spent`) and the new `fullAt`
(`ResetAfter`). The eviction sorts by `seenAt` over a map walked in any order, so
among equals any subset may go.

`Throttle` composes it with concurrent requests. `Arrive` routes a request into
its chain, `ReadClock` is `time.Now()` in the middleware, `Admit` and `Refuse` are
`Allow` with that stamp and what follows (`Next` or `Abort`). `Tick` keeps the
time between stamp and mutex within `MaxLag`: that is the only assumption about
scheduling, and with `MaxLag = 0` stamps are decided in order.

`IdealThrottle` is the abstract specification: an allowance per key that refills
each tick and is never forgotten. `Throttle!Ideal` instantiates it with the level
that each bucket amounts to at present. `RetryHeader` adds the header and what it
promised.

### Migrator

One process runs one command at a time; `pc` is the statement it executes next, in
the order of `Run`, `Reset`, `Fresh`, `apply`, `revert`. A transaction's effects
appear in `CommitApply`/`CommitRevert`. Postgres is modelled by what the code
relies on: `IF [NOT] EXISTS` decides on committed state, a UNIQUE name rejects,
`DROP` without CASCADE is rejected while referenced, and `Free`/`Contended` are the
locks that make a transaction wait. `Fail` covers rejected statements, lost
connections and kills; `Unacknowledged` a commit whose answer never arrives.

### HttpServer

`boot` is where the main goroutine stands: the six `Setup` steps, the `select`, the
drain, the deferred calls (`Unwind` gives the next), `Return` is `main`. The
listener goroutine has `Bind`, `ListenFails`, `SendListenErr`, `ListenerStops`;
`listenErr` is its buffered channel. `Accept`, `Handle`, `Answer` are a request:
the pool is used, then the access log is written. `Signal` comes at any time and
kills unless trapped.

### DailyWriter

A write is stamped, checks the date, and rotates if the day has changed: today's
file is opened (`Rotate`), and each directory entry is a step of its own
(`Inspect`, `Remove`), because two processes may sweep at once and the other may
write between the inspection and the removal. `unlinked` holds the processes whose
open file has been removed by someone: what they append is gone. `Restart` is a
stop, kill or crash, followed by a new process over the same directory.

### Connections, Login

`Connections` follows a model call from waiting for a connection to its result:
`Borrow` and `Query` are `database/sql`, `Execute` an update or a deletion, which
no route performs and `PoolSpec` adds, `ReadRows` the scan and
the deferred `Close`, `Refuse` a statement Postgres refuses. `Login` puts the
login controller and the event routes over it: `Found` takes a slot or queues (a
blocked send on the buffered channel), `LeaveSlot` is the deferred receive.

### Pipeline

`Layers` is the order `GlobalMiddleware` registers, `RouteLayers` what the routes
add (the routing table, its guards and how its handlers fail are constants, which
`MCPipeline` gives the values of this application), and `index`, `aborted` and `stack` are how gin walks the chain: `Called` is a
turn of the loop in `Next`, `CallsNext` a layer that waits for those below,
`Resumed` its way out. Each middleware has its decisions as actions (`CorsAnswers`,
`GuardRejects`, `Renders`, ...). A panic may strike at any call below Recovery;
`Recovers` unwinds the stack to it, after which gin's outer loop would go on. That
Recovery ends the chain on both of its paths is what `HandlersGuarded` rests on.
A handler reports at most one error, since each report is followed by a return or
is the failed write that ends it.

### Shell, EnvFile, Seeding, Console

`Shell` is what commands share: `Begin` is `main` finding and calling one, `Exit` its
end by a return, a panic or a kill. A process has one `pc`, the step of `Handle` that
is next, and a run number that names its secret and its temporary file.

`EnvFile` is `jwt:secret` call by call, from `Stat` to `Rename` and to the exit behind it
(`Succeeds`: the deferred `Remove`, the log record, the return), over `files`, the
directory. A text keeps the value of the `JWT_SECRET` line and, for all other lines,
`APP_ENV`; `Cut` stands for a file that is empty or written in part. `Abandon` is a
failure after `CreateTemp` with the deferred `Remove`, `SecretKilled` a kill without
it at any step, also between the rename and the exit, and `Operator` an editor that
saves or removes `.env` at any time. (`Abandon` joins the deferred `Remove` with the
exit: a kill between them leaves what a kill before `CreateTemp` does.) Three things are history, for properties only: `draft.stale`,
whether `.env` has changed since a run looked there; `draft.issued`, whether the run's
secret has been in `.env`; and `saved`, the `APP_ENV` the operator saved last, or "lost"
once a run whose draft was stale has put another one there.

`Seeding` is `db:seed` statement by statement: `Confirm`, the lookup and the insert of
the user seeder, the lookup of the owner and one insert per event. A statement that
fails may have been executed (`SeedFails` after the insert), and nothing is rolled
back. `Console` composes the two: `jwt:secret` rewrites the file whose `APP_ENV`
decides, at the next start, whether `db:seed` asks.

### Reporter, LineFilter, TestCommand

`Reporter` holds `packages` until each has finished (`Handle`, `Flush`), `Lines` is
the block it prints, each test at its place in the order, and `failures` the set it
keeps for the summary. `LineFilter` works on bytes of
an alphabet of three (a marker of two bytes and the newline), so that every way to
cut a text into chunks is there; `TakeLine` is a turn of its loop, `Pass` what becomes
of a line. `Filtered` is the reference, a definition over the whole text:
every byte of an unmarked line, at the place that the number of unmarked bytes before
it says.
`TestCommand` joins them to `go test`: tests start and end in any interleaving of the
packages (`truth` is what became of each), records wait for room in `pipe`, a package
may end with tests unfinished, a line may be over the scanner's limit, the tool may be
killed, or not start at all (`StartFails`, before anything else). The command reads on,
waits, flushes what is held and returns `Verdict`.

## 3. Runs

| Run | Shows | Bounds, and why they are enough |
|---|---|---|
| `throttle_ideal` | With stamps in order and no eviction the store implements `IdealThrottle`: sweeps and lazy refills are invisible, and the limits of a login draw on allowances of their own. | One client has both keys, so `MaxKeys = 2` never evicts; 7 ticks are two refills of a whole allowance after a sweep; two requests interleave. |
| `throttle_crowded` | With late stamps and a store at its cap: a sweep forgives at most one lag, nothing but an admission lowers an allowance and none of another client's, the cap holds, eviction forgets the stalest only, and `Retry-After` is honoured. | Three clients for two keys, so that every third insert evicts; `MaxLag = 1` lets two requests be decided in reverse; two ticks a second make the header round; 4 ticks are a refill, a sweep and a retry. |
| `migrator_schema` | `InStep`, `Grounded`, `BatchOwned`, `SuccessMeansBuilt` with failures anywhere. Rollbacks and rebuilds run alone (`Disciplined`), deployments beside each other. | Two processes; three migrations give the loops a middle; four commands allow a failure, a repair, a rollback and a rerun. |
| `migrator_rebuild` | `migrate:fresh` rebuilds from every combination of tables, keys and rows. | All 2-table-or-more subsets of three migrations as initial states. |
| `server_life` | Clean exits, honest drains, a failure that is not passed off as an orderly stop, effective signals, termination. | Two requests in flight, two signals (one to drain, one during it). |
| `log_files` | Retention, filing and complete sweeps with two processes. | Two-tick days, two days of retention, and a clock that runs two days past the first expiry. |
| `login_traffic` | No connection or slot is lost, no failure passes for success, checks are bounded, logins are answered if checks end and listings even if they do not. | Three requests for one connection and one slot: a holder, a waiter and an outsider of each. |
| `pipeline_requests` | One answer, one access record, a recorded cause, readable answers for browsers, and no handler past a rejection or a panic. | Every route and origin, every subset of the optional layers; the chain is as long as in the code, and no bound is needed. |
| `console_commands` | `.env` stays whole, no failure leaves a secret lying about, a success has put its secret into `.env` and an error has not, a live secret and a concurrent edit are lost in an overlap only; reruns do not double an account, success means complete fixtures, production is asked about unless such an overlap put an older `APP_ENV` back. | Two terminals, three runs (two that overlap and a rerun), one edit, three events, so that the loop has a middle; failures and kills at every step. |
| `test_report` | One block per package, parents above their subtests, no result swallowed or printed under another package, failures named under a package in which a test of that name failed, a truthful verdict, also if `go test` does not start, the filter equal to its definition, and a return. | Two packages that share a test and its subtest, one with another test; a pipe of one record, so that the tool blocks at once; all texts of 5 bytes over the alphabet in chunks of 1 and 2, so that a marker and a line are cut everywhere. |

`CHECK_DEADLOCK FALSE` is set where the system really stops: the commands of the
migrator are finite in number, the server exits, and callers that lost every
connection (`pool_update_doc`) wait for ever, the test command returns and leaves
nothing to do. The console has deadlock checked: an unknown command can always be
tried. In the throttle and the log writer
the clock is bounded, yet requests keep arriving and processes restarting, and the
pipeline always takes another request, so deadlock is checked.

Every property was also checked against a mutant of the model (`PROJECT.json`,
"mutants"): a dropped guard, a swapped order, a missing reset, as a bug in the code
would have it.

### Disagreements between code and documentation

Each of these runs ends in a counterexample to what a comment says.

| Run | Comment | What the code does |
|---|---|---|
| `migrator_diverge_doc` | `migrator.go:82`: schema and row cannot diverge. | Beside a `migrate:refresh`, `CREATE … IF NOT EXISTS` skips a table whose drop is about to commit. |
| `pool_update_doc` | `event.go:91`: `Update` writes the row. | The `*sql.Row`, and with it the error, is discarded. |

Met while modelling, without a violating run of their own:

* `http_service_provider.go:293` says that the listener failure is returned. With a
  signal pending as well, the `select` at line 330 may take the signal; the failure is
  never read and the process exits 0. `FailureReturned` therefore speaks of processes
  that no signal has reached.
* `secret.go:96` promises that every other line of `.env` is preserved. An edit saved
  between the read and the rename is lost (`OnlyOverlapLoses` states what is left).
* Such a lost edit may be the operator's `APP_ENV=production`: a `jwt:secret` that read
  `.env` before it was saved and replaces it after puts `APP_ENV=local` back, and the
  next `db:seed` does not ask. `AskedInProduction` exempts a `db:seed` that starts in this
  state, and no other.
* `user_seeder.go:19` takes a failed lookup for a missing account, and
  `users.username` is not UNIQUE: such a run doubles the account, as `OneAccount` says.
* `db:seed` ignores the error of the first connection and panics on the nil handle
  (`Connect`), a start without a database being no error until then.
* `reporter.go:193` skips a test that never ended. A package that timed out is
  reported as failed, yet the test that hung is in no line of it
  (`NothingSwallowed` speaks of tests that ended).
* `failedIn` is keyed by the name of the test alone: of two packages in which a test of
  one name failed, the summary names the later for both.
* After a line over the scanner's limit (`command.go:151`) nobody reads the pipe any
  more: `go test` may wait for room and `Wait` for `go test`. `CommandReturns` exempts
  exactly this.
* After a failed write `LineFilter.Flush` treats all that is pending as one line, and
  a marker in any part of it drops the whole.
* `memory.go:167` calls sweeping lossless. A stamp older than the bucket's `seenAt`
  yields a `fullAt` that is too early, and the bucket may be swept while it lacks up
  to a lag of refill: the bound of `SweepLosesAtMostLag` is reached.
* The exception handler says that earlier errors "are still logged below"
  (`exception_handler_middleware.go:31`), but logs the last only; no handler reports
  two.
* `THROTTLE_MAX_KEYS=1` passes `validate` (`configs/throttle.go:139`), although the
  two buckets of one login then evict each other and nothing is refused.
* `Fresh` lists the tables in a statement of its own (`migrator.go:329`); one that a
  concurrent `migrate` creates before the drop can survive without its foreign key.
* The reason of a failed start is logged (`main.go:24`) after Boot has closed the
  file (`http_service_provider.go:80`), so it reaches stdout only.

## 4. Fairness

* `HttpServer`: weak fairness of the main goroutine and of the send on the buffered
  channel. Main is never blocked for good: the drain has a timer, the deferred
  calls return. Handlers get none, since nothing bounds them.
* `Migrator` (`migrator_rebuild`): weak fairness of each process; a lone process
  waits for no lock.
* `Login`: weak fairness of goroutines that can go on and of statements, which end.
  Strong fairness of `Borrow`: `database/sql` hands a returned connection to one of
  its waiters at random, so a waiter is passed over any finite number of times only.
  That password checks end (argon2 has no unbounded loop) is a premise of
  `LoginsAnswered` only; `ListingsAnswered` does without.
* `TestCommand`: weak fairness of `go test` (its `-timeout` ends every test, and it
  exits once its packages have ended) and of the command, which reads on while there
  is something to read. Neither a kill nor an overlong line is ever assumed.
* The throttle, the log writer, the pipeline and the console have safety properties
  only: an operator may leave a question unanswered.

## 5. Proofs

`Throttle_proofs` proves, for any clients, requests, limits that `validate` lets
through, caps, prune intervals and lags:

* `TypeCorrect`: `Spec => []TypeOK`;
* `SweepLossBounded`: `Spec => []SweepLosesAtMostLag`;
* `StoreBounded`: `Spec => []Bounded`.

Assumptions: `LimitAssumption` (both limits are numbers, a window is positive, the
login limit is not zero), `StoreAssumption` (the cap is positive, as `validate`
demands), `TimingAssumption`. No proof needs finitely many clients.

`SweepLosesAtMostLag` is not inductive: it speaks of buckets that are replenished
now, and a bucket becomes that by time alone. `Inv` strengthens it to every bucket:
`BucketOK` says that a bucket's tokens, refilled from `seenAt` to `MaxLag` after
`fullAt`, make up the burst. `RequestInv` keeps every pending stamp within `MaxLag`
of the clock, which is what `Allow` needs to re-establish it from an old stamp
(`HeldFacts`, `AllowKeepsStore`). `CeilDivCovers` says that the division in
`ResetAfter` rounds up; with one that truncates the invariant fails.
`StoreBounded` is inductive by `MakeRoomBelowCap`: what `MakeRoom` may leave is
finite and leaves room for one key, by cases on its three outcomes.

It also relates the store to ideal allowances:

* `RefinesIdeal`: `Spec => ImplementsIdeal`, if `Punctual` (`MaxLag = 0`: stamps are
  decided in order) and `Roomy` (finitely many keys, no more than the cap). Without
  either the code does not implement it: a late stamp finds less refilled than there
  is, and an eviction restores a whole allowance;
* `SpendingIsAdmission`: `Spec => OnlyAdmissionsSpend`, and `EvictionForgetsStalest`:
  `Spec => ForgetsOnlyTheStalest`, without these conditions.

The refinement mapping is `Level`, what a bucket has when refilled to now. `RefillTwice`
and `RefillSpans` say that refilling in two steps is refilling in one, which makes the
lazy refill of `Allow` invisible (`HeldIsLevel`); `NothingForgotten` says that a roomy
store loses only what it sweeps, and `SweepLosesAtMostLag`, with a lag of zero, that
this has its whole allowance back. Then each action maps to one of `IdealThrottle` or to a stutter
(`TickRefines`, `AdmitRefines`, `RefuseRefines`). `SpendingIsAdmission` asks less than a
refinement and holds with any lag: `LevelFacts` and `HeldCoversLevel` say that a late
stamp, a sweep and an eviction can only raise a level.

And it proves `WaitingIsEnough`: `HeaderSpec => RetryAfterHonoured`, for
any rate, any number of ticks a second and any lag (`HeaderAssumption`). `PromiseInv`
says that a bucket with a promise outstanding is `Ripe`: refilled up to the promised
time it holds a token. `ReturnIsRipe` is the arithmetic of the header,
`HeldStaysRipe` says that a late `Allow` cannot undo it, and `HeaderRefines` carries the
invariant of the store over.

`Migrator_proofs` proves, for any migrations, any number of processes and failures
anywhere:

* `NeverDiverges`: `Spec => []InStep`;
* `StandsOnEarlier`: `Spec => []Grounded`;
* `BatchHasOneRun`: `Spec => []BatchOwned`;
* `SuccessIsWhole`: `Spec => SuccessMeansBuilt`;
* `TypeCorrect`: `Spec => []TypeOK`.

Assumptions: `MigrationAssumption` (names are distinct, a table refers to earlier ones
only) and `Orderly`: rollbacks and rebuilds run alone (`Disciplined`), or there are
none. Without it `InStep` is false, which is what `migrator_diverge_doc` shows. `Solo`
carries `Orderly` through a run. `ApplyInv` says what a deployment knows in spite of
the others: everything before the migration in hand is recorded, and if that one is
not, no row bears the run's batch but its own. This is why two deployments with one
batch number do no harm: the one that commits first leaves the other with a migration
in hand that is recorded, and so with an `INSERT` that fails (`ApplyCommits`). A table
that `IF NOT EXISTS` skips is recorded already, so the run that skipped it fails too
(`RecordKeeps`). `RevertInv` says that a rollback has nothing recorded above the
migration in hand, which makes `Grounded` survive the removal (`RevertCommits`).
`NatMin` and `NatMax` give the loops their next migration, from the well-foundedness
of `<`.

`HttpServer_proofs` proves, for any number of requests in flight and of signals:

* `CleanExit`: `Spec => []ExitsClean`;
* `OrderlyStop`: `Spec => []OrderlyMeansDrained`;
* `TypeCorrect`: `Spec => []TypeOK`;
* `ReasonReturned`: `Spec => []FailureReturned`;
* `DrainInterruptible`: `Spec => SecondSignalKills`.

Assumptions: `SignalAssumption`, and `RecordAssumption` (the record of a failed close
is none of a handler). The safety properties speak of the end and are inductive only
with what leads to it. `UnwindInv` ties each deferred call to what is still open,
`OpenInv` says that nothing is closed before, `CloseInv` that the log outlives the
pool, `ListenInv` that the channel can hold an error only until `Shutdown`, so that
an outcome of the `select` that is no failure has drained, and `DrainInv` that
nobody is accepted after the drain and nothing lost before something is closed.

`Login_proofs` proves, for any callers (infinitely many included), any pool and any
number of slots:

* `TypeCorrect`: `Spec => []TypeOK`;
* `NoFalseSuccess`: `Spec => []DoneMeansAccepted`;
* `NothingLost`: `Spec => []NothingLeaks`.

Assumptions: `PoolAssumption` and `SlotAssumption` (pool and slots are positive; no
route updates or deletes, without which `NoFalseSuccess` is false). `PoolInv` counts
the holders, a set that is finite because each took a connection. `QueueInv` says
that the queue lists each waiting login once: `LeaveSlotKeepsSlots` needs it, since a
slot handed to somebody who has one already would be lost.

`Console_proofs` proves, for any number of terminals, runs, edits and events:

* `EnvAlwaysWhole`: `Spec => []EnvWhole`;
* `OutcomeTruthful`: `Spec => OutcomeTold`;
* `LiveSecretNeedsForce`: `Spec => LiveSecretKept`;
* `RestPreserved`: `Spec => OnlyOverlapLoses`;
* `TypeCorrect`: `Spec => []TypeOK`;
* `AccountNotDoubled`: `Spec => OneAccount`;
* `SeedingComplete`: `Spec => SeededMeansThere`;
* `ProductionAsked`: `Spec => AskedInProduction`.

Assumptions: `ShellAssumption`, `EditAssumption`, `SeedAssumption`. `FileInv` is
inductive for the directory: `ShellInv` (a process runs a step of its own command, and
no two runs have one number), `FilesInv` (every file is typed and `.env` whole), and of
each process `Owns` (its temporary file exists exactly from `CreateTemp` to `Rename`,
and has its whole text from `Write` on; its secret has been in `.env` exactly behind the
`Rename`) and `Knows` (unless `.env` has changed since, the draft is its text with the
secret set, and its mode). `EnvWhole` needs `Owns`, since a rename is safe only because
the file it moves has been written, and so does `OutcomeTold`: a run has put its secret
there at no exit but those behind the rename. `AskedInProduction` needs `Knows`: a run
that nobody has overtaken carries the `APP_ENV` that the operator saved. `SeedInv` adds that a
process past the confirmation was allowed, that one about to insert found no account
or was misled, and how many events each step of the loop has behind it. The action
properties follow from these by cases on the steps that end a run.

`DailyWriter_proofs` proves, for any number of processes, any length of a day and any
retention:

* `RetentionKept`: `Spec => []RecentKept`;
* `NeverFiledEarly`: `Spec => []FiledByDay`;
* `SweepsComplete`: `Spec => SweptClean`;
* `TypeCorrect`: `Spec => []TypeOK`.

Assumption: `LogAssumption` (a day and the retention are positive, and a record waits
for its file no longer than the retention less a day). `RecentKept` is about what has
been deleted, so the invariant has to say why every deletion to come is harmless.
`SweepInv` says that an entry about to be removed is expired still, whatever others
have done since it was inspected; that needs `WritesToday`: a record goes to a file
whose day is not past its retention, since `RecordInv` bounds the age of a record and
ties its file to its day. `LinkInv` follows in the same way: a process writes to a file
that somebody removed only if its day is past retention, that is never. `DirInv` dates
the files by their days. `DayFacts`, `StartFacts` and `RetentionFacts` are the
arithmetic of days and ticks.

`Pipeline_proofs` proves, for any routes with any guards, whatever their handlers may
report, and any subset of the optional layers:

* `HandlersAlwaysGuarded`: `Spec => HandlersGuarded`;
* `AlwaysAnsweredOnce`: `Spec => []AnsweredOnce`;
* `EverythingOnRecord`: `Spec => []OnRecord`;
* `BrowserCanRead`: `Spec => []ReadableByBrowser`;
* `TypeCorrect`: `Spec => []TypeOK`.

Assumption: `PipelineAssumption` (a route is neither "unmatched" nor a preflight, adds
guards only, and its handler reports statuses that the exceptions have). TLC settles
the chains of this application; the theorems are about the next route somebody adds.
The properties speak of a request that has been answered, so the invariant says what is
known at every depth of the stack. `ChainShape` and `Places` say where each layer is in
the chain, whatever is installed, and `StackInv` that the stack is the chain without
CORS, which never waits: Recovery is always third on it and the exception handler
fifth. `InInv` says that on the way in everybody has let the request go on and nothing
has happened to it, `PanicInv` that a panic leaves nothing behind but what a handler has
written, and `OutInv`, the heart of it, that on the way out an answer is missing only
while the exception handler is still to come and has an error to render. With a guard
that reports and does not abort, a Recovery that does not, or layers in another order
one of these fails. `ErrorInv` and `AccessInv` place the records: an error is logged
once the stack is lower than its handler, an access record is there exactly when the
stack is lower than the log.

`TestCommand_proofs` proves, for any packages and tests, any nesting of subtests, any
room in the pipe, and texts of any length in chunks of any size:

* `GroupedHolds`: `Spec => []Grouped`;
* `NothingSwallowedHolds`: `Spec => []NothingSwallowed`;
* `VerdictHolds`: `Spec => []VerdictTrue`;
* `FailuresNamedHolds`: `Spec => []FailuresNamed`;
* `FilteredByLineHolds`: `Spec => []FilteredByLine`;
* `TypeCorrect`: `Spec => []TypeOK`.

Assumption: `TestCommandAssumption`. `ToolInv` and `PipeInv` say what `go test` keeps to:
a package's end is its last record, and a record in the pipe is true (`SpeakSends`,
`SpeakTruth`). `HeldInv` says that the reporter holds each test once, below the one it is
part of, `ReportInv` that a printed package is no longer held, and `ReadInv` that nothing
of a printed package is still on its way, which is why no package is printed twice.
`ToldInv` is what makes `NothingSwallowed` hold: the end of every test is on its way,
held or printed, so that a command that has read everything and flushed
(`FlushKeeps`) has printed everything. `SpeaksInv` and `ReadsTestInv` are the two
steps in which all of these change at once. `FilterInv` says that what the filter has
passed on and what is pending are the text read so far; `FilteredLine`, `UnmarkedLine`
and `CountUpTo` say that a line behind whole lines is judged by itself, so that it does
not matter where the chunks end (`ChunkIsText`, `PassLine`).

The type invariants of these modules are proved (`TypeCorrect`) and are therefore not
among the properties of the runs.

Every safety property of the runs is a theorem. Only model-checked is all liveness
(`FreshRebuilds`, `CommandReturns`, the termination of the server, the answers of
`Login`), which is beyond TLAPS.

## 6. Not modelled

* Rounding of `float64` token levels; the contents of rows, tokens and records.
* `net/http`: a connection accepted while `Shutdown` begins; the supervisor's
  `SIGKILL` after the container's stop timeout.
* A write after `Close` that opens the file of a new day (`dailyWriter` has no
  closed state; the server writes nothing after `Close` but the start error).
* A log record that is suspended for longer than the retention less a day
  (`LogAssumption`).
* Two migrations that create the same table; timeouts of locks other than as `Fail`.
* In the pipeline: gin's own handling of a broken connection inside Recovery (nobody
  is left to answer), what gin reports when the exception handler, Recovery or CORS
  cannot write (nobody is left to look at `ctx.Errors`), and a panic in the request id or the access log, which only
  `net/http` would catch.
* In the console: the lines of `.env` other than `JWT_SECRET` and `APP_ENV`, the values
  the factories invent, the text a test prints, durations and colours. A power failure:
  `replaceFile` renames a file it has not synced, and what is on the disk then is the
  file system's. The deferred `Remove` of a temporary file is taken to succeed; its error
  is discarded (`secret.go:150`).
* What is pure computation on one value, without steps or state: the lifetime and the
  claims of a token, the offset of a page, the reading of the configuration, the
  argon2 arithmetic, the choice of a message for an exception. Their edges are not
  covered: that the lifetime of a token may overflow, for one, is among neither the
  properties nor the hazards.
* Static wiring: routes, container, validation rules.

## 7. Plan

What would be worth adding next: one model of `migrate` beside `db:seed`, which meet in
the tables; what the throttle's properties become when levels are rounded.
