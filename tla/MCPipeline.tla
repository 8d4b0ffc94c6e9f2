----------------------------- MODULE MCPipeline -----------------------------
(***************************************************************************)
(* The routes of this application for TLC: the home page, which is open,   *)
(* the login, which is throttled by itself, and the events, which are only *)
(* there with a token (routes/http).                                       *)
(***************************************************************************)
EXTENDS Pipeline

AppRoute == {"home", "login", "events"}

AppGuards == [rt \in AppRoute |->
  CASE rt = "home"   -> <<>>
    [] rt = "login"  -> <<"throttle">>
    [] rt = "events" -> <<"authenticate">>]

(* A lookup that fails, and a wrong password, are both a 401 to the login; *)
(* the events report what became of their statement.                       *)
AppFailures == [rt \in AppRoute |->
  CASE rt = "home"   -> {}
    [] rt = "login"  -> BindErrors \cup {401, 500}
    [] rt = "events" -> BindErrors \cup DatabaseErrors]

=============================================================================
