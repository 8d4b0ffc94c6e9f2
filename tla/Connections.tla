---------------------------- MODULE Connections ----------------------------
(***************************************************************************)
(* Model calls on the shared pool, app/models over                         *)
(* app/services/core/pgsql_service.go.  No call has a deadline: it waits   *)
(* for a connection as long as none is free, and holds the one it gets     *)
(* until its rows are closed.  database/sql hands a connection that comes  *)
(* back to any of those that wait.                                         *)
(***************************************************************************)
EXTENDS Integers, FiniteSets

CONSTANTS
  Caller,         (* Goroutines that call models, one call at a time.      *)
  Operations,     (* The operations they call.                             *)
  MaxOpenConns    (* DB_MAX_OPEN_CONNS.                                    *)

Rows == {"Create", "Find", "Paginate"}

ASSUME PoolAssumption ==
  /\ MaxOpenConns \in Nat \ {0}
  /\ Operations \subseteq Rows \cup {"Update", "Delete"}

VARIABLES
  free,           (* Connections that are not handed out.                  *)
  operation,      (* Caller -> what it has called.                         *)
  link,           (* Caller -> how far its call has come.                  *)
  result,         (* Caller -> what its last call returned.                *)
  refused         (* Callers whose last statement the database refused.    *)

poolVars == <<free, operation, link, result, refused>>

InitPool ==
  /\ free = MaxOpenConns
  /\ operation = [c \in Caller |-> "none"]
  /\ link = [c \in Caller |-> "none"]
  /\ result = [c \in Caller |-> "none"]
  /\ refused = {}

Returned(c) == link[c] = "none"
Holds(c)    == link[c] \in {"querying", "reading"}

Call(c, o) ==
  /\ operation[c] = "none"
  /\ operation' = [operation EXCEPT ![c] = o]
  /\ link' = [link EXCEPT ![c] = "waiting"]
  /\ UNCHANGED <<free, result, refused>>

Borrow(c) ==
  /\ link[c] = "waiting"
  /\ free > 0
  /\ free' = free - 1
  /\ link' = [link EXCEPT ![c] = "querying"]
  /\ UNCHANGED <<operation, result, refused>>

(* The call returns r to its caller.                                       *)
ReturnResult(c, r) ==
  /\ link' = [link EXCEPT ![c] = "none"]
  /\ result' = [result EXCEPT ![c] = r]
  /\ UNCHANGED operation

(* The caller goes by what it returned, and has no further use for it.     *)
TakeResult(c) ==
  /\ Returned(c)
  /\ operation' = [operation EXCEPT ![c] = "none"]
  /\ result' = [result EXCEPT ![c] = "none"]
  /\ refused' = refused \ {c}
  /\ UNCHANGED <<free, link>>

(* Mutant: Create does not look at the row it gets.                        *)
RefuseUnseen(c) ==
  /\ link[c] = "querying"
  /\ free' = free + 1
  /\ refused' = refused \cup {c}
  /\ ReturnResult(c, IF operation[c] \in {"Update", "Create"} THEN "done" ELSE "error")

(* The statement fails, and the driver gives the connection back.  Create  *)
(* learns of it from Scan; Update discards the row that has the error.     *)
Refuse(c) ==
  /\ link[c] = "querying"
  /\ free' = free + 1
  /\ refused' = refused \cup {c}
  /\ ReturnResult(c, IF operation[c] = "Update" THEN "done" ELSE "error")

(* Exec gives the connection back; QueryRow leaves that to the Scan, which *)
(* Update never makes.                                                     *)
Execute(c) ==
  /\ link[c] = "querying"
  /\ operation[c] \notin Rows
  /\ free' = IF operation[c] = "Delete" THEN free + 1 ELSE free
  /\ ReturnResult(c, "done")
  /\ UNCHANGED refused

Query(c) ==
  /\ link[c] = "querying"
  /\ operation[c] \in Rows
  /\ link' = [link EXCEPT ![c] = "reading"]
  /\ UNCHANGED <<free, operation, result, refused>>

(* Mutant: rows that could not be scanned are left open.                   *)
ReadRowsUnclosed(c) ==
  /\ link[c] = "reading"
  /\ \E r \in {"done", "empty", "error"} :
       /\ ReturnResult(c, r)
       /\ free' = IF r = "error" THEN free ELSE free + 1
  /\ UNCHANGED refused

(* Rows are scanned and closed, whatever came of the scan.                 *)
ReadRows(c) ==
  /\ link[c] = "reading"
  /\ \E r \in {"done", "empty", "error"} : ReturnResult(c, r)
  /\ free' = free + 1
  /\ UNCHANGED refused

Serve(c) == Borrow(c) \/ Refuse(c) \/ Query(c) \/ ReadRows(c)

PoolNext ==
  \E c \in Caller :
    \/ Serve(c) \/ Execute(c)
    \/ \E o \in Operations : Call(c, o)
    \/ operation[c] # "none" /\ TakeResult(c)

PoolSpec == InitPool /\ [][PoolNext]_poolVars

-----------------------------------------------------------------------------
PoolTypeOK ==
  /\ free \in 0 .. MaxOpenConns
  /\ operation \in [Caller -> Operations \cup {"none"}]
  /\ link \in [Caller -> {"none", "waiting", "querying", "reading"}]
  /\ result \in [Caller -> {"none", "done", "empty", "error"}]
  /\ refused \subseteq Caller

(* Connections are neither lost nor made up: what is not free is held by a *)
(* call that has yet to return.                                            *)
Conserved == free + Cardinality({c \in Caller : Holds(c)}) = MaxOpenConns

(* The docs of Update: it "writes the model's current values back to its   *)
(* row".  A model that says so has had its statement accepted.             *)
DoneMeansAccepted == \A c \in refused : Returned(c) => result[c] # "done"

=============================================================================
