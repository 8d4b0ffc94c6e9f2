-------------------------- MODULE HttpServer_proofs -------------------------
(***************************************************************************)
(* Proofs about the life of the HTTP process, for any number of requests   *)
(* in flight and of signals: whatever fails and in whatever order, main    *)
(* exits with everything closed, and an orderly stop has drained.          *)
(***************************************************************************)
EXTENDS HttpServer, TLAPS

Unwinding == {"closeDb", "closeLog", "return"}

(* Each deferred call runs on what is open, the pool's before the log's.   *)
UnwindInv ==
  /\ db = "open" => boot \notin {"closeLog", "return"}
  /\ logFile = "open" => boot # "return"
  /\ boot = "closeDb" => db = "open"
  /\ boot = "closeLog" => logFile = "open"
  /\ process = "exited" => boot = "return"

(* Nothing is closed before the deferred calls run.                        *)
OpenInv ==
  /\ db = "closed" => boot \in {"closeLog", "return"}
  /\ logFile = "closed" => boot = "return"

(* Until Shutdown is called, the channel can have an error only, and it is *)
(* a signal that leads there.                                              *)
ListenInv ==
  /\ boot = "drain" => stopping
  /\ stopping => boot \in {"drain"} \cup Unwinding
  /\ listenErr = "closed" => stopping
  /\ boot \in {"stop", "shutdown", "drain"} \/ stopping => caught

(* The pool is closed while the log is open.                               *)
CloseInv == CloseError \notin lost

(* No request or record is lost before something is closed, and from an    *)
(* orderly end of the drain on no request can be lost at all.              *)
DrainInv ==
  /\ boot \notin Unwinding => denied = {} /\ lost = {}
  /\ boot \in Unwinding /\ ~failed =>
       stopping /\ InFlight = {} /\ denied = {} /\ lost = {}

Inv == TypeOK /\ UnwindInv /\ OpenInv /\ ListenInv /\ CloseInv /\ DrainInv

USE DEF Unwinding

LEMMA InitInv == Init => Inv
<1> SUFFICES ASSUME Init PROVE Inv
  OBVIOUS
<1>1. TypeOK
  <2>1. handler \in [Request -> {"idle", "handling", "answering"}]
    BY DEF Init
  <2> QED
    BY <2>1 DEF Init, TypeOK, Setup
<1>2. UnwindInv /\ OpenInv /\ ListenInv
  BY DEF Init, UnwindInv, OpenInv, ListenInv
<1>3. CloseInv /\ DrainInv
  BY DEF Init, CloseInv, DrainInv
<1> QED
  BY <1>1, <1>2, <1>3 DEF Inv

(* No step takes anything to a value it does not have.                     *)
LEMMA TypePreserved == TypeOK /\ [Next]_vars => TypeOK'
<1> SUFFICES ASSUME TypeOK, [Next]_vars PROVE TypeOK'
  OBVIOUS
<1> USE DEF TypeOK, Setup, Alive, resources, signalled, listening, requests
<1>1. CASE SetUp
  BY <1>1 DEF SetUp, Following
<1>2. CASE SetUpFails
  BY <1>2 DEF SetUpFails, Unwind
<1>3. CASE Serve
  BY <1>3 DEF Serve
<1>4. CASE ReceiveListenErr
  BY <1>4 DEF ReceiveListenErr, Unwind
<1>5. CASE ReceiveSignal \/ StopTrapping
  BY <1>5 DEF ReceiveSignal, StopTrapping
<1>6. CASE Shutdown
  BY <1>6 DEF Shutdown
<1>7. CASE Drained
  BY <1>7 DEF Drained, Unwind
<1>8. CASE DrainExpires
  BY <1>8 DEF DrainExpires, Unwind
<1>9. CASE CloseDb \/ CloseLog \/ Return
  BY <1>9 DEF CloseDb, CloseLog, Return, Log
<1>10. CASE Listener
  BY <1>10 DEF Listener, Bind, ListenFails, SendListenErr, ListenerStops
<1>11. CASE Signal
  BY <1>11 DEF Signal
<1>12. ASSUME NEW r \in Request, Accept(r) \/ Handle(r) \/ Answer(r) PROVE TypeOK'
  BY <1>12 DEF Accept, Handle, Answer, Log
<1>13. CASE UNCHANGED vars
  BY <1>13 DEF vars
<1> QED
  BY <1>1, <1>2, <1>3, <1>4, <1>5, <1>6, <1>7, <1>8, <1>9, <1>10,
     <1>11, <1>12, <1>13 DEF Next, Main

(* The steps of main, which are the only ones to open and close.           *)
LEMMA MainKeepsInv == Inv /\ Main => Inv'
<1> SUFFICES ASSUME Inv, Main PROVE Inv'
  OBVIOUS
<1>t. TypeOK'
  BY TypePreserved DEF Inv, Next
<1> USE <1>t DEF Inv, TypeOK, UnwindInv, OpenInv, ListenInv, CloseInv, DrainInv, Setup,
          Alive, InFlight, resources, signalled, listening, requests
<1>1. CASE SetUp
  BY <1>1 DEF SetUp, Following
<1>2. CASE SetUpFails
  BY <1>2 DEF SetUpFails, Unwind
<1>3. CASE Serve
  BY <1>3 DEF Serve
<1>4. CASE ReceiveListenErr
  <2>1. listenErr = "error"
    BY <1>4 DEF ReceiveListenErr
  <2> QED
    BY <1>4, <2>1 DEF ReceiveListenErr, Unwind
<1>5. CASE ReceiveSignal \/ StopTrapping
  BY <1>5 DEF ReceiveSignal, StopTrapping
<1>6. CASE Shutdown
  BY <1>6 DEF Shutdown
<1>7. CASE Drained
  BY <1>7 DEF Drained, Unwind
<1>8. CASE DrainExpires
  BY <1>8 DEF DrainExpires, Unwind
<1>9. CASE CloseDb
  BY <1>9 DEF CloseDb, Log
<1>10. CASE CloseLog
  BY <1>10 DEF CloseLog
<1>11. CASE Return
  <2>1. StartError # CloseError
    BY DEF StartError, CloseError
  <2> QED
    BY <1>11, <2>1 DEF Return, Log
<1> QED
  BY <1>1, <1>2, <1>3, <1>4, <1>5, <1>6, <1>7, <1>8, <1>9, <1>10, <1>11 DEF Main

(* The listener, the handlers and signals: what they lose, they lose once  *)
(* something is closed, and after an orderly drain no handler is left.     *)
LEMMA OthersKeepInv ==
  ASSUME Inv,
         \/ Listener \/ Signal
         \/ \E r \in Request : Accept(r) \/ Handle(r) \/ Answer(r)
  PROVE  Inv'
<1>t. TypeOK'
  BY TypePreserved DEF Inv, Next
<1> USE <1>t DEF Inv, TypeOK, UnwindInv, OpenInv, ListenInv, CloseInv, DrainInv,
          Alive, InFlight, resources, signalled, listening, requests
<1>1. CASE Listener
  BY <1>1 DEF Listener, Bind, ListenFails, SendListenErr, ListenerStops
<1>2. CASE Signal
  BY <1>2 DEF Signal
<1>3. ASSUME NEW r \in Request, Accept(r) PROVE Inv'
  BY <1>3 DEF Accept
<1>4. ASSUME NEW r \in Request, Handle(r) PROVE Inv'
  <2>1. handler[r] # "idle"
    BY <1>4 DEF Handle
  <2> QED
    BY <1>4, <2>1 DEF Handle
<1>5. ASSUME NEW r \in Request, Answer(r) PROVE Inv'
  <2>1. handler[r] # "idle"
    BY <1>5 DEF Answer
  <2> QED
    BY <1>5, <2>1, RecordAssumption DEF Answer, Log
<1> QED
  BY <1>1, <1>2, <1>3, <1>4, <1>5

LEMMA Invariance == Spec => []Inv
<1>1. Inv /\ [Next]_vars => Inv'
  <2> SUFFICES ASSUME Inv, [Next]_vars PROVE Inv'
    OBVIOUS
  <2>1. CASE Next
    BY <2>1, MainKeepsInv, OthersKeepInv DEF Next
  <2>2. CASE UNCHANGED vars
    BY <2>2 DEF vars, Inv, TypeOK, UnwindInv, OpenInv, ListenInv, CloseInv, DrainInv, InFlight
  <2> QED
    BY <2>1, <2>2
<1> QED
  BY InitInv, <1>1, PTL DEF Spec

(* However Boot returns, the pool and the log file are closed before the   *)
(* process exits, the log last (http_service_provider.go: the deferred     *)
(* clean-up).                                                              *)
THEOREM CleanExit == Spec => []ExitsClean
<1>1. Inv => ExitsClean
  BY DEF Inv, UnwindInv, CloseInv, ExitsClean
<1> QED
  BY Invariance, <1>1, PTL

(* A stop that Boot reports as orderly has answered every request it       *)
(* accepted, with the pool open, and lost no record (serve: the drain).    *)
THEOREM OrderlyStop == Spec => []OrderlyMeansDrained
<1>1. Inv => OrderlyMeansDrained
  BY DEF Inv, DrainInv, OrderlyMeansDrained
<1> QED
  BY Invariance, <1>1, PTL

(* Every reachable state has its types, and signals are trapped exactly    *)
(* while the server waits for one or is about to stop trapping (serve).    *)
THEOREM TypeCorrect == Spec => []TypeOK
<1>1. Inv => TypeOK
  BY DEF Inv
<1> QED
  BY Invariance, <1>1, PTL

(* Unless a signal was caught, main exits with an error: nothing else that *)
(* stops the server is lost on its way to Boot (serve: the channel).       *)
THEOREM ReasonReturned == Spec => []FailureReturned
<1>1. Inv => FailureReturned
  BY DEF Inv, UnwindInv, ListenInv, DrainInv, FailureReturned
<1> QED
  BY Invariance, <1>1, PTL

(* A signal that comes while the server drains is not trapped, whatever    *)
(* came before (serve: stop() before Shutdown).                            *)
THEOREM DrainInterruptible == Spec => SecondSignalKills
<1>1. Inv /\ [Next]_vars =>
        [boot = "drain" /\ signals' > signals => process' = "killed"]_vars
  <2> SUFFICES ASSUME Inv, Next, boot = "drain", signals' > signals PROVE process' = "killed"
    OBVIOUS
  <2> USE DEF Inv, TypeOK, Setup, signalled
  <2>1. CASE Signal
    BY <2>1 DEF Signal
  <2>2. CASE Main
    BY <2>2 DEF Main, SetUp, SetUpFails, Serve, ReceiveListenErr, ReceiveSignal, StopTrapping,
                Shutdown, Drained, DrainExpires, CloseDb, CloseLog, Return
  <2>3. CASE Listener
    BY <2>3 DEF Listener, Bind, ListenFails, SendListenErr, ListenerStops
  <2>4. ASSUME NEW r \in Request, Accept(r) \/ Handle(r) \/ Answer(r) PROVE UNCHANGED signals
    BY <2>4 DEF Accept, Handle, Answer
  <2> QED
    BY <2>1, <2>2, <2>3, <2>4 DEF Next
<1> QED
  BY Invariance, <1>1, PTL DEF Spec, SecondSignalKills

=============================================================================
