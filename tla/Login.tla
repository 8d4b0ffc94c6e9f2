------------------------------- MODULE Login -------------------------------
(***************************************************************************)
(* Logins and listings in flight together: the login controller and        *)
(* UserService.Authenticate, which looks the account up over the pool and  *)
(* then waits for one of a few slots to check the password in, and the     *)
(* event routes, which only use the pool.  Routing, binding and the token  *)
(* of an authenticated route come before and change nothing here.          *)
(***************************************************************************)
EXTENDS Connections, Sequences

CONSTANT
  MaxVerifications  (* maxConcurrentVerifications.                         *)

ASSUME SlotAssumption ==
  /\ MaxVerifications \in Nat \ {0}
  /\ Operations = Rows    (* No route updates or deletes.                   *)

VARIABLES
  at,             (* Caller -> where its request is.                       *)
  queue           (* Logins that wait for a slot, first come first served. *)

loginVars == <<at, queue>>
vars == <<poolVars, loginVars>>

Init ==
  /\ InitPool
  /\ at = [r \in Caller |-> "idle"]
  /\ queue = <<>>

Checking == {r \in Caller : at[r] = "checking"}

(* Mutant: model calls and password checks exclude each other.             *)
UsePoolExclusively(r) == Checking = {} /\ Serve(r) /\ UNCHANGED loginVars

(* The pool serves r; its request waits meanwhile.                         *)
UsePool(r) == Serve(r) /\ UNCHANGED loginVars

Leave(r, p) == at' = [at EXCEPT ![r] = p]

(* GET or POST on the events, by a caller with a valid token.              *)
Browse(r, o) ==
  /\ at[r] = "idle"
  /\ o # "Find"
  /\ Call(r, o)
  /\ Leave(r, "listing")
  /\ UNCHANGED queue

Listed(r) ==
  /\ at[r] = "listing" /\ TakeResult(r)
  /\ Leave(r, "idle")
  /\ UNCHANGED queue

Attempt(r) ==
  /\ at[r] = "idle"
  /\ Call(r, "Find")
  /\ Leave(r, "finding")
  /\ UNCHANGED queue

(* No such account, or the lookup failed: the same answer, a 401.          *)
NotFound(r) ==
  /\ at[r] = "finding" /\ result[r] # "done" /\ TakeResult(r)
  /\ Leave(r, "idle")
  /\ UNCHANGED queue

(* Mutant: the slots are there, and nobody waits for one.                  *)
FoundUnbounded(r) ==
  /\ at[r] = "finding" /\ result[r] = "done" /\ TakeResult(r)
  /\ Leave(r, "checking")
  /\ UNCHANGED queue

(* verify: the send takes a slot, or waits its turn.                       *)
Found(r) ==
  /\ at[r] = "finding" /\ result[r] = "done" /\ TakeResult(r)
  /\ IF Cardinality(Checking) < MaxVerifications
     THEN Leave(r, "checking") /\ UNCHANGED queue
     ELSE Leave(r, "queued") /\ queue' = Append(queue, r)

(* The slot of r goes to the first in the queue.                           *)
LeaveSlot(r, p) ==
  /\ at' = [s \in Caller |-> IF s = r THEN p
                             ELSE IF queue # <<>> /\ s = Head(queue) THEN "checking"
                             ELSE at[s]]
  /\ queue' = IF queue = <<>> THEN queue ELSE Tail(queue)
  /\ UNCHANGED poolVars

(* The password is right, or the answer is a 401.                          *)
Checked(r) ==
  /\ at[r] = "checking"
  /\ \E p \in {"signing", "idle"} : LeaveSlot(r, p)

(* Mutant: the slot is given back by the last statement, not deferred.     *)
CheckFailsInSlot(r) ==
  /\ at[r] = "checking"
  /\ Leave(r, "broken")
  /\ UNCHANGED <<poolVars, queue>>

(* The stored hash is malformed, or the check panics and Recovery answers. *)
CheckFails(r) ==
  /\ at[r] = "checking"
  /\ LeaveSlot(r, "idle")

(* The token is signed, or that fails; either is an answer.                *)
Sign(r) ==
  /\ at[r] = "signing"
  /\ Leave(r, "idle")
  /\ UNCHANGED <<poolVars, queue>>

Verify(r)  == Checked(r) \/ CheckFails(r)
Proceed(r) == Listed(r) \/ NotFound(r) \/ Found(r) \/ Sign(r)

Next ==
  \E r \in Caller :
    \/ Attempt(r) \/ UsePool(r) \/ Proceed(r) \/ Verify(r)
    \/ \E o \in Operations : Browse(r, o)

Spec == Init /\ [][Next]_vars

(* Goroutines are scheduled, statements end, and whoever goes on waiting   *)
(* for a connection is at some point the one that is handed it.  Of the    *)
(* password checks, slow as they are, nothing is assumed.                  *)
FairSpec ==
  /\ Spec
  /\ \A r \in Caller :
       /\ SF_vars(Borrow(r) /\ UNCHANGED loginVars)
       /\ WF_vars(UsePool(r)) /\ WF_vars(Proceed(r))

-----------------------------------------------------------------------------
TypeOK ==
  /\ PoolTypeOK
  /\ at \in [Caller -> {"idle", "listing", "finding", "queued", "checking", "signing"}]
  /\ {queue[i] : i \in DOMAIN queue} = {r \in Caller : at[r] = "queued"}

(* However many log in, no more passwords are checked at once, with 64 MiB *)
(* each, than there are slots (UserService.verify).                        *)
VerificationsBounded == Cardinality(Checking) <= MaxVerifications

(* While logins wait for a slot there is no slot left unused.              *)
SlotsInUse == queue # <<>> => Cardinality(Checking) = MaxVerifications

(* No connection and no slot is lost or made up, on any path of a call or  *)
(* of a check.                                                             *)
NothingLeaks == Conserved /\ VerificationsBounded /\ SlotsInUse

ChecksEnd == \A r \in Caller : WF_vars(Verify(r))

(* Every login is answered, as long as the checks that are started end,    *)
(* whatever fails on the way of those before it.                           *)
LoginsAnswered == ChecksEnd => \A r \in Caller : at[r] = "finding" ~> at[r] = "idle"

(* The other routes are answered although no password check may ever end:  *)
(* a login holds no connection while it waits for a slot or checks.        *)
ListingsAnswered == \A r \in Caller : at[r] = "listing" ~> at[r] = "idle"

=============================================================================
