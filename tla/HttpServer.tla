----------------------------- MODULE HttpServer -----------------------------
(***************************************************************************)
(* The life of the HTTP process, main.go and                               *)
(* app/providers/http_service_provider.go: the main goroutine boots, waits *)
(* for a signal or for the listener to fail, drains and unwinds its        *)
(* deferred calls, while the listener goroutine accepts, handlers run and  *)
(* signals come at any time.  net/http and os/signal are modelled by what  *)
(* the code relies on.  A listener that is asked to stop takes no further  *)
(* request; how long anything takes is left open.                          *)
(***************************************************************************)
EXTENDS Integers, FiniteSets

CONSTANTS
  Request,        (* Requests that may be in flight at once.               *)
  MaxSignals      (* Bound: how many signals are sent.                     *)

ASSUME SignalAssumption == MaxSignals \in Nat

(* What Boot does before it serves, and what may fail.                     *)
Setup     == {"logger", "jwt", "database", "validation", "throttle", "engine"}
Following == [logger |-> "jwt", jwt |-> "database", database |-> "validation",
              validation |-> "throttle", throttle |-> "engine", engine |-> "serve"]

(* Records that Boot and main write besides the handlers'.                 *)
CloseError == "closing database connection"
StartError == "http server failed to start"

ASSUME RecordAssumption == CloseError \notin Request

VARIABLES
  boot,           (* What the main goroutine does next.                    *)
  failed,         (* Whether Boot's result is an error.                    *)
  db,             (* The connection pool.                                  *)
  logFile,        (* The file behind the logger.                           *)
  trapping,       (* Whether signals are caught rather than fatal.         *)
  caught,         (* signalCtx is done.                                    *)
  signals,        (* Signals sent so far.                                  *)
  listener,       (* The goroutine that runs ListenAndServe.               *)
  listenErr,      (* What its channel has for a receiver.                  *)
  stopping,       (* Shutdown has been called.                             *)
  handler,        (* Request -> what its goroutine does next.              *)
  denied,         (* Requests that found the pool closed.                  *)
  lost,           (* Records written when their file was closed.           *)
  process         (* "alive", "exited" of itself or "killed" by a signal.  *)

resources == <<db, logFile>>
signalled == <<trapping, caught, signals>>
listening == <<listener, listenErr, stopping>>
requests  == <<handler, denied>>
vars == <<boot, failed, db, logFile, trapping, caught, signals, listener, listenErr,
          stopping, handler, denied, lost, process>>

Init ==
  /\ boot = "logger" /\ failed = FALSE
  /\ db = "unopened" /\ logFile = "unopened"
  /\ trapping = FALSE /\ caught = FALSE /\ signals = 0
  /\ listener = "unborn" /\ listenErr = "nothing" /\ stopping = FALSE
  /\ handler = [r \in Request |-> "idle"] /\ denied = {} /\ lost = {}
  /\ process = "alive"

Alive    == process = "alive"
InFlight == {r \in Request : handler[r] # "idle"}

(* The logger writes to its file, unless that has been closed.             *)
Log(record) == lost' = IF logFile = "closed" THEN lost \cup {record} ELSE lost

(* Mutant: the calls are deferred the other way round.                     *)
UnwindLogFirst ==
  IF logFile = "open" THEN "closeLog" ELSE IF db = "open" THEN "closeDb" ELSE "return"

(* The deferred call that comes next once Boot returns.                    *)
Unwind ==
  IF db = "open" THEN "closeDb" ELSE IF logFile = "open" THEN "closeLog" ELSE "return"

-----------------------------------------------------------------------------
(* Boot, up to the server.                                                 *)
SetUp ==
  /\ Alive /\ boot \in Setup
  /\ boot' = Following[boot]
  /\ logFile' = IF boot = "logger" THEN "open" ELSE logFile
  /\ db' = IF boot = "database" THEN "open" ELSE db
  /\ UNCHANGED <<failed, signalled, listening, requests, lost, process>>

(* Mutant: log.Fatal instead of a return.                                  *)
SetUpFailsFatally ==
  /\ Alive /\ boot \in Setup
  /\ failed' = TRUE
  /\ process' = "exited"
  /\ UNCHANGED <<boot, resources, signalled, listening, requests, lost>>

SetUpFails ==
  /\ Alive /\ boot \in Setup
  /\ failed' = TRUE
  /\ boot' = Unwind
  /\ UNCHANGED <<resources, signalled, listening, requests, lost, process>>

(* serve: signals are trapped, and the listener is started.                *)
Serve ==
  /\ Alive /\ boot = "serve"
  /\ trapping' = TRUE
  /\ listener' = "starting"
  /\ boot' = "select"
  /\ UNCHANGED <<failed, resources, caught, signals, listenErr, stopping, requests, lost, process>>

(* select, when both are ready, takes either.                              *)
ReceiveListenErr ==
  /\ Alive /\ boot = "select"
  /\ listenErr # "nothing"
  /\ failed' = (listenErr = "error")
  /\ trapping' = FALSE
  /\ boot' = Unwind
  /\ UNCHANGED <<resources, caught, signals, listening, requests, lost, process>>

ReceiveSignal ==
  /\ Alive /\ boot = "select"
  /\ caught
  /\ boot' = "stop"
  /\ UNCHANGED <<failed, resources, signalled, listening, requests, lost, process>>

(* Mutant: signals stay trapped while the server drains.                   *)
StopTrappingLate ==
  /\ Alive /\ boot = "stop"
  /\ boot' = "shutdown"
  /\ UNCHANGED <<failed, resources, signalled, listening, requests, lost, process>>

StopTrapping ==
  /\ Alive /\ boot = "stop"
  /\ trapping' = FALSE
  /\ boot' = "shutdown"
  /\ UNCHANGED <<failed, resources, caught, signals, listening, requests, lost, process>>

Shutdown ==
  /\ Alive /\ boot = "shutdown"
  /\ stopping' = TRUE
  /\ boot' = "drain"
  /\ UNCHANGED <<failed, resources, signalled, listener, listenErr, requests, lost, process>>

(* Mutant: Close, which waits for nothing, instead of Shutdown.            *)
DrainedAtOnce ==
  /\ Alive /\ boot = "drain"
  /\ boot' = Unwind
  /\ UNCHANGED <<failed, resources, signalled, listening, requests, lost, process>>

Drained ==
  /\ Alive /\ boot = "drain"
  /\ InFlight = {}
  /\ boot' = Unwind
  /\ UNCHANGED <<failed, resources, signalled, listening, requests, lost, process>>

(* shutdownTimeout has passed; the handlers are left to themselves.        *)
DrainExpires ==
  /\ Alive /\ boot = "drain"
  /\ failed' = TRUE
  /\ boot' = Unwind
  /\ UNCHANGED <<resources, signalled, listening, requests, lost, process>>

(* The deferred calls, and main.                                           *)
CloseDb ==
  /\ Alive /\ boot = "closeDb"
  /\ db' = "closed"
  /\ \/ UNCHANGED lost
     \/ Log(CloseError)
  /\ boot' = IF logFile = "open" THEN "closeLog" ELSE "return"
  /\ UNCHANGED <<failed, logFile, signalled, listening, requests, process>>

CloseLog ==
  /\ Alive /\ boot = "closeLog"
  /\ logFile' = "closed"
  /\ boot' = IF db = "open" THEN "closeDb" ELSE "return"
  /\ UNCHANGED <<failed, db, signalled, listening, requests, lost, process>>

Return ==
  /\ Alive /\ boot = "return"
  /\ IF failed THEN Log(StartError) ELSE UNCHANGED lost
  /\ process' = "exited"
  /\ UNCHANGED <<boot, failed, resources, signalled, listening, requests>>

Main ==
  \/ SetUp \/ SetUpFails \/ Serve
  \/ ReceiveListenErr \/ ReceiveSignal \/ StopTrapping
  \/ Shutdown \/ Drained \/ DrainExpires
  \/ CloseDb \/ CloseLog \/ Return

-----------------------------------------------------------------------------
(* The listener goroutine: ListenAndServe binds, accepts until it fails or *)
(* is asked to stop, and its outcome goes to the channel.                  *)
Bind ==
  /\ Alive /\ listener = "starting" /\ ~stopping
  /\ listener' = "listening"
  /\ UNCHANGED <<boot, failed, resources, signalled, listenErr, stopping, requests, lost, process>>

ListenFails ==
  /\ Alive /\ listener \in {"starting", "listening"} /\ ~stopping
  /\ listener' = "failed"
  /\ UNCHANGED <<boot, failed, resources, signalled, listenErr, stopping, requests, lost, process>>

(* Mutant: the failure is not sent, and the channel never closed.          *)
SwallowListenErr ==
  /\ Alive /\ listener = "failed"
  /\ listener' = "returned"
  /\ UNCHANGED <<boot, failed, resources, signalled, listenErr, stopping, requests, lost, process>>

(* Mutant: the failure is not told from http.ErrServerClosed.              *)
SendListenErrAsClosed ==
  /\ Alive /\ listener = "failed"
  /\ listener' = "returned"
  /\ listenErr' = "closed"
  /\ UNCHANGED <<boot, failed, resources, signalled, stopping, requests, lost, process>>

SendListenErr ==
  /\ Alive /\ listener = "failed"
  /\ listener' = "returned"
  /\ listenErr' = "error"
  /\ UNCHANGED <<boot, failed, resources, signalled, stopping, requests, lost, process>>

(* http.ErrServerClosed: nothing is sent, and the channel is closed.       *)
ListenerStops ==
  /\ Alive /\ listener \in {"starting", "listening"} /\ stopping
  /\ listener' = "returned"
  /\ listenErr' = "closed"
  /\ UNCHANGED <<boot, failed, resources, signalled, stopping, requests, lost, process>>

Listener == Bind \/ ListenFails \/ SendListenErr \/ ListenerStops

-----------------------------------------------------------------------------
(* Requests: the handler uses the pool, then the access log is written.    *)
Accept(r) ==
  /\ Alive /\ listener = "listening" /\ ~stopping
  /\ handler[r] = "idle"
  /\ handler' = [handler EXCEPT ![r] = "handling"]
  /\ UNCHANGED <<boot, failed, resources, signalled, listening, denied, lost, process>>

Handle(r) ==
  /\ Alive /\ handler[r] = "handling"
  /\ handler' = [handler EXCEPT ![r] = "answering"]
  /\ denied' = IF db = "closed" THEN denied \cup {r} ELSE denied
  /\ UNCHANGED <<boot, failed, resources, signalled, listening, lost, process>>

Answer(r) ==
  /\ Alive /\ handler[r] = "answering"
  /\ handler' = [handler EXCEPT ![r] = "idle"]
  /\ Log(r)
  /\ UNCHANGED <<boot, failed, resources, signalled, listening, denied, process>>

(* SIGINT or SIGTERM: trapped, or the end of the process.                  *)
Signal ==
  /\ Alive /\ signals < MaxSignals
  /\ signals' = signals + 1
  /\ caught' = (caught \/ trapping)
  /\ process' = IF trapping THEN "alive" ELSE "killed"
  /\ UNCHANGED <<boot, failed, resources, trapping, listening, requests, lost>>

Next ==
  \/ Main \/ Listener \/ Signal
  \/ \E r \in Request : Accept(r) \/ Handle(r) \/ Answer(r)

Spec == Init /\ [][Next]_vars

(* The main and the listener goroutine are scheduled, and the timer of the *)
(* drain fires.  Nothing is assumed of the handlers, which may hang, nor   *)
(* that the listener ever fails.                                           *)
FairSpec == Spec /\ WF_vars(Main) /\ WF_vars(SendListenErr)

-----------------------------------------------------------------------------
TypeOK ==
  /\ boot \in Setup \cup {"serve", "select", "stop", "shutdown", "drain",
                          "closeDb", "closeLog", "return"}
  /\ failed \in BOOLEAN /\ caught \in BOOLEAN /\ stopping \in BOOLEAN
  /\ db \in {"unopened", "open", "closed"}
  /\ logFile \in {"unopened", "open", "closed"}
  /\ trapping \in BOOLEAN /\ (trapping <=> boot \in {"select", "stop"})
  /\ signals \in Nat
  /\ listener \in {"unborn", "starting", "listening", "failed", "returned"}
  /\ listenErr \in {"nothing", "error", "closed"}
  /\ handler \in [Request -> {"idle", "handling", "answering"}]
  /\ denied \subseteq Request
  /\ lost \subseteq Request \cup {CloseError, StartError}
  /\ process \in {"alive", "exited", "killed"}

(* Whenever the process ends by itself, on whichever of its failure paths, *)
(* what it opened is closed (Boot: the deferred cleanup actually runs),    *)
(* and if closing the pool failed that is on record: the log outlives it.  *)
ExitsClean ==
  process = "exited" => db # "open" /\ logFile # "open" /\ CloseError \notin lost

(* A stop that is reported as orderly never took the pool or the log away  *)
(* from a request, nor lost the record of one (serve's drain).             *)
OrderlyMeansDrained ==
  ~failed /\ boot \in {"closeDb", "closeLog", "return"} =>
    InFlight = {} /\ denied = {} /\ lost = {}

(* A signal that comes while the server drains ends the process at once:   *)
(* it is not swallowed until the drain is over (serve, stop()).            *)
SecondSignalKills ==
  [][boot = "drain" /\ signals' > signals => process' = "killed"]_vars

(* A signal that was caught or a listener that failed ends the process,    *)
(* though handlers may hang (shutdownTimeout, the buffered channel).       *)
Ends == caught \/ listener = "failed" ~> ~Alive

(* Without a signal there is no orderly shutdown: whatever else stops the  *)
(* server is what Boot returns ("the reason the server stopped"), though   *)
(* it has to come through a channel from another goroutine.                *)
FailureReturned == process = "exited" /\ ~caught => failed

=============================================================================
