------------------------------ MODULE Pipeline ------------------------------
(***************************************************************************)
(* The middleware chain of a request: what GlobalMiddleware and the routes *)
(* register, app/providers/http_service_provider.go, and the layers of     *)
(* app/http/middlewares.  gin calls the layers in order; a layer that      *)
(* calls Next goes on only after those below it have returned, Abort ends  *)
(* the chain, and a panic unwinds it down to Recovery.  Only what a layer  *)
(* decides is modelled; wording, headers and payloads are not.             *)
(***************************************************************************)
EXTENDS Integers, Sequences

CONSTANTS
  Route,          (* The registered routes.                                *)
  Guards,         (* What each of them puts before its handler, in order.  *)
  Failures        (* The statuses a handler may report.                    *)

VARIABLES
  installed,      (* The optional layers this deployment has.              *)
  route,          (* The route of the request in hand, or what it is else. *)
  origin,         (* Its Origin header: none, one that is allowed, or not. *)
  index,          (* gin's index: how many layers have been called.        *)
  aborted,        (* gin's index is beyond the chain.                      *)
  stack,          (* The layers that wait for Next to return.              *)
  panicking,      (* A layer has panicked and nobody has recovered yet.    *)
  passed,         (* The positions whose layer let the request go on.      *)
  errors,         (* ctx.Errors, by the status each stands for.            *)
  status,         (* The status that was sent, or Unsent.                  *)
  bodies,         (* How many envelopes were sent.                         *)
  readable,       (* Whether the response has its CORS headers.            *)
  records         (* What was logged: <<message, status>>.                 *)

chain == <<index, aborted, stack, panicking, passed>>
reply == <<status, bodies, readable>>
given == <<installed, route, origin>>
vars  == <<given, chain, errors, reply, records>>

Unsent == 0

(* Layers a route may add: what throttles it, and what asks for a token.   *)
Guard == {"throttle", "authenticate"}

(* What can become of a body that cannot be bound (it breaks a rule, or is *)
(* no JSON), of a failed statement (a value that does not fit, a conflict, *)
(* no row, anything else), and of wrong credentials or a failed signature. *)
BindErrors == {422, 400}
DatabaseErrors == {422, 409, 404, 500}
Reportable == BindErrors \cup DatabaseErrors \cup {401, 500}

(* A request is for a route, for none (or with a method that none has), or *)
(* a preflight: no route registers OPTIONS.                                *)
Requests == Route \cup {"unmatched", "preflight"}

ASSUME PipelineAssumption ==
  /\ Route \cap {"unmatched", "preflight"} = {}
  /\ Guards \in [Route -> Seq(Guard)]
  /\ Failures \in [Route -> SUBSET Reportable]

(* Mutant: Recovery is outside the access log.                             *)
LayersRecoveryFirst ==
  <<"requestId", "recovery", "logger">>
  \o (IF "cors" \in installed THEN <<"cors">> ELSE <<>>)
  \o <<"limitBody", "exceptionHandler">>
  \o (IF "throttle" \in installed THEN <<"throttle">> ELSE <<>>)

(* Mutant: CORS is registered last.                                        *)
LayersCorsLast ==
  <<"requestId", "logger", "recovery", "limitBody", "exceptionHandler">>
  \o (IF "throttle" \in installed THEN <<"throttle">> ELSE <<>>)
  \o (IF "cors" \in installed THEN <<"cors">> ELSE <<>>)

(* The order of GlobalMiddleware.                                          *)
Layers ==
  <<"requestId", "logger", "recovery">>
  \o (IF "cors" \in installed THEN <<"cors">> ELSE <<>>)
  \o <<"limitBody", "exceptionHandler">>
  \o (IF "throttle" \in installed THEN <<"throttle">> ELSE <<>>)

(* What the routes add.                                                    *)
RouteLayers ==
  IF route \in Route THEN Append(Guards[route], "handler") ELSE <<"fallback">>

Chain == Layers \o RouteLayers

(* CORS is there if origins are configured, and then allows the            *)
(* application's own besides; the throttle, if its limit is not zero.      *)
Optional == {"cors", "throttle"}

(* A preflight always names an origin.                                     *)
Origins(rt) == IF rt = "preflight" THEN {"allowed", "foreign"}
               ELSE {"none", "allowed", "foreign"}

Init ==
  /\ installed \in SUBSET Optional
  /\ route \in Requests /\ origin \in Origins(route)
  /\ index = 0 /\ aborted = FALSE /\ stack = <<>> /\ panicking = FALSE
  /\ passed = {} /\ errors = <<>> /\ records = {}
  /\ status = Unsent /\ bodies = 0 /\ readable = FALSE

-----------------------------------------------------------------------------
(* gin.                                                                    *)
LoopOver == aborted \/ index = Len(Chain)
Finished == LoopOver /\ stack = <<>> /\ ~panicking

(* The loop of Next calls layer l.                                         *)
Called(l) ==
  /\ ~panicking /\ ~LoopOver
  /\ Chain[index + 1] = l
  /\ index' = index + 1
  /\ UNCHANGED given

(* l calls Next in its turn, or returns and the loop goes on.              *)
CallsNext(l) ==
  /\ stack' = Append(stack, l) /\ passed' = passed \cup {index'}
  /\ UNCHANGED <<aborted, panicking>>

Leaves(abort) ==
  /\ aborted' = (aborted \/ abort)
  /\ UNCHANGED <<stack, panicking, passed>>

(* Layer l, whose Next has returned, executes what follows it and returns. *)
Resumed(l) ==
  /\ ~panicking /\ LoopOver
  /\ stack # <<>> /\ stack[Len(stack)] = l
  /\ stack' = SubSeq(stack, 1, Len(stack) - 1)
  /\ UNCHANGED <<given, index, panicking, passed>>

(* The status goes out with the first write, and never again.              *)
Send(code, envelopes) ==
  /\ status' = IF status = Unsent THEN code ELSE status
  /\ bodies' = bodies + envelopes
  /\ UNCHANGED readable

Last(s) == s[Len(s)]

-----------------------------------------------------------------------------
(* The layers on the way in.                                               *)
Wraps(l) ==
  /\ l \in {"requestId", "logger", "recovery", "limitBody", "exceptionHandler"}
  /\ Called(l) /\ CallsNext(l)
  /\ UNCHANGED <<errors, reply, records>>

(* CORS ignores a request without an origin, refuses a foreign one with a  *)
(* bare 403, answers a preflight and marks what else comes out readable.   *)
CorsPasses ==
  /\ Called("cors")
  /\ origin = "allowed" => route # "preflight"
  /\ origin # "foreign"
  /\ passed' = passed \cup {index'}
  /\ readable' = (origin = "allowed")
  /\ UNCHANGED <<aborted, stack, panicking, errors, status, bodies, records>>

CorsAnswers ==
  /\ Called("cors")
  /\ origin = "foreign" \/ route = "preflight"
  /\ Leaves(TRUE)
  /\ status' = IF origin = "foreign" THEN 403 ELSE 204
  /\ readable' = (origin = "allowed")
  /\ UNCHANGED <<errors, bodies, records>>

GuardPasses(l) ==
  /\ l \in Guard
  /\ Called(l) /\ CallsNext(l)
  /\ UNCHANGED <<errors, reply, records>>

GuardRejects(l) ==
  /\ l \in Guard
  /\ Called(l) /\ Leaves(TRUE)
  /\ errors' = Append(errors, IF l = "throttle" THEN 429 ELSE 401)
  /\ UNCHANGED <<reply, records>>

HandlerSucceeds ==
  /\ Called("handler") /\ Leaves(FALSE)
  /\ Send(200, 1)
  /\ UNCHANGED <<errors, records>>

(* The client is gone: gin reports that the write failed, unclassified.    *)
HandlerUnheard ==
  /\ Called("handler") /\ Leaves(TRUE)
  /\ Send(200, 1)
  /\ errors' = Append(errors, 500)
  /\ UNCHANGED records

HandlerFails ==
  /\ Called("handler") /\ Leaves(FALSE)
  /\ \E code \in Failures[route] : errors' = Append(errors, code)
  /\ UNCHANGED <<reply, records>>

(* The fallbacks answer by themselves; again the client may be gone.       *)
Fallback ==
  /\ Called("fallback") /\ Leaves(TRUE)
  /\ \E code \in {404, 405} : Send(code, 1)
  /\ errors' \in {errors, Append(errors, 500)}
  /\ UNCHANGED records

(* Any layer below Recovery may panic when it is called, a handler also    *)
(* after it has begun to answer.                                           *)
Panics ==
  /\ panicking' = TRUE
  /\ \/ /\ \E l \in {"cors", "limitBody", "exceptionHandler", "throttle",
                     "authenticate", "handler", "fallback"} : Called(l)
        /\ UNCHANGED reply
     \/ Called("handler") /\ Send(200, 1)
  /\ UNCHANGED <<aborted, stack, passed, errors, records>>

-----------------------------------------------------------------------------
(* The way out.                                                            *)
Returns(l) ==
  /\ l \in {"requestId", "recovery", "limitBody", "throttle", "authenticate"}
  /\ Resumed(l)
  /\ UNCHANGED <<aborted, errors, reply, records>>

LogsRequest ==
  /\ Resumed("logger")
  /\ records' = records \cup {<<"request", IF status = Unsent THEN 200 ELSE status>>}
  /\ UNCHANGED <<aborted, errors, reply>>

NothingReported ==
  /\ Resumed("exceptionHandler")
  /\ errors = <<>>
  /\ UNCHANGED <<aborted, errors, reply, records>>

(* Mutant: the error is rendered though a response has been written.       *)
RendersAnyway ==
  /\ Resumed("exceptionHandler")
  /\ errors # <<>>
  /\ records' = records \cup {<<"requestFailed", Last(errors)>>}
  /\ Send(Last(errors), 1) /\ aborted' = TRUE
  /\ UNCHANGED errors

(* Mutant: nothing is done about an error once a response was written.     *)
RendersOrForgets ==
  /\ Resumed("exceptionHandler")
  /\ errors # <<>>
  /\ IF status = Unsent
       THEN /\ records' = records \cup {<<"requestFailed", Last(errors)>>}
            /\ Send(Last(errors), 1) /\ aborted' = TRUE
       ELSE UNCHANGED <<reply, aborted, records>>
  /\ UNCHANGED errors

(* ExceptionHandler logs the last error, and renders it unless a response  *)
(* has been written.                                                       *)
Renders ==
  /\ Resumed("exceptionHandler")
  /\ errors # <<>>
  /\ records' = records \cup {<<"requestFailed", Last(errors)>>}
  /\ IF status = Unsent THEN Send(Last(errors), 1) /\ aborted' = TRUE
     ELSE UNCHANGED <<reply, aborted>>
  /\ UNCHANGED errors

(* What is left of the stack once a panic has reached Recovery.            *)
Above(l) ==
  SubSeq(stack, 1, (CHOOSE i \in DOMAIN stack : stack[i] = l) - 1)

(* Mutant: the response is written without an abort.                       *)
RecoversUnaborted ==
  /\ panicking /\ panicking' = FALSE
  /\ stack' = IF Len(stack) > 2 THEN Above("recovery") ELSE stack
  /\ records' = records \cup {<<"panicRecovered", 500>>}
  /\ IF status = Unsent THEN Send(500, 1) ELSE UNCHANGED reply
  /\ UNCHANGED <<given, index, aborted, passed, errors>>

(* Recovery answers a panic, and ends the chain in either case.            *)
Recovers ==
  /\ panicking /\ panicking' = FALSE
  /\ stack' = Above("recovery")
  /\ records' = records \cup {<<"panicRecovered", 500>>}
  /\ IF status = Unsent THEN Send(500, 1) ELSE UNCHANGED reply
  /\ aborted' = TRUE
  /\ UNCHANGED <<given, index, passed, errors>>

(* gin takes the context up again for another request, and resets it.      *)
Arrive ==
  /\ Finished
  /\ \E rt \in Requests : \E o \in Origins(rt) : route' = rt /\ origin' = o
  /\ index' = 0 /\ aborted' = FALSE /\ stack' = <<>> /\ panicking' = FALSE
  /\ passed' = {} /\ errors' = <<>> /\ records' = {}
  /\ status' = Unsent /\ bodies' = 0 /\ readable' = FALSE
  /\ UNCHANGED installed

Next ==
  \/ \E i \in DOMAIN Chain :
       \/ Wraps(Chain[i]) \/ GuardPasses(Chain[i]) \/ GuardRejects(Chain[i])
       \/ Returns(Chain[i])
  \/ CorsPasses \/ CorsAnswers
  \/ HandlerSucceeds \/ HandlerUnheard \/ HandlerFails \/ Fallback
  \/ Panics \/ Recovers
  \/ LogsRequest \/ NothingReported \/ Renders
  \/ Arrive

Spec == Init /\ [][Next]_vars

-----------------------------------------------------------------------------
TypeOK ==
  /\ installed \subseteq Optional
  /\ route \in Requests /\ origin \in Origins(route)
  /\ index \in 0 .. Len(Chain) /\ Len(stack) <= index
  /\ passed \subseteq 1 .. index
  /\ \A i \in DOMAIN errors : errors[i] \in 400 .. 500
  /\ status \in {Unsent} \cup 200 .. 500
  /\ bodies \in Nat
  /\ panicking => \E i \in DOMAIN stack : stack[i] = "recovery"

(* No handler runs unless every layer before it let the request go on: not *)
(* after a rejection, and not after one of those layers panicked (reject,  *)
(* Throttle, Recovery: Abort).                                             *)
HandlersGuarded ==
  [][Called("handler") => passed = 1 .. index]_vars

(* Whatever fails, panics or was written already, a request is answered    *)
(* once: with one envelope, or with the bare answer of CORS (Fail:         *)
(* "a rendered failure must be the last word on the request").             *)
AnsweredOnce ==
  Finished =>
    /\ status # Unsent
    /\ bodies = IF "cors" \in installed /\ (origin = "foreign" \/ route = "preflight")
                   /\ <<"panicRecovered", 500>> \notin records
                THEN 0 ELSE 1

(* Every request leaves one access record with the status that was sent,   *)
(* that of a panic included (Logger is outside Recovery).                  *)
AccessRecorded ==
  Finished => {s \in Unsent .. 500 : <<"request", s>> \in records} = {status}

(* A failed answer has its cause on record, and what was reported is on    *)
(* record though another answer went out before; the fallbacks and CORS,   *)
(* which answer by themselves, are no failures (ExceptionHandler, Recovery:*)
(* "the failure happened either way").                                     *)
CauseRecorded ==
  Finished =>
    /\ status >= 400 /\ Chain[index] \notin {"fallback", "cors"} =>
         {<<"requestFailed", status>>, <<"panicRecovered", status>>} \cap records # {}
    /\ errors # <<>> => <<"requestFailed", Last(errors)>> \in records

(* Nothing that happened to a request goes unrecorded.                     *)
OnRecord == AccessRecorded /\ CauseRecorded

(* A browser may read whatever answer its allowed origin gets, an error's  *)
(* and a panic's included, and asking whether it may costs it no token     *)
(* (GlobalMiddleware: CORS runs before the route chain and the throttle).  *)
ReadableByBrowser ==
  Finished /\ "cors" \in installed /\ origin = "allowed" =>
    /\ readable \/ Chain[index] = "cors"
    /\ route = "preflight" => errors = <<>>

=============================================================================
