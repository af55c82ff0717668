-------------------------------- MODULE Fetch --------------------------------
(***************************************************************************)
(* One call of the query API as the pages see it: fetchJSON in             *)
(* web/src/search/api.ts.  A call waits for the response ("head") and then *)
(* reads its body ("body").  It ends "ok", with a SearchError ("failed"),  *)
(* or with the AbortError of its caller's signal ("aborted"), which every  *)
(* page ignores.                                                           *)
(*                                                                         *)
(* A definition whose name ends in an underscore and a few words is a      *)
(* wrong variant of the one after it.                                      *)
(***************************************************************************)
Phases == {"head", "body"}
Outcomes == {"ok", "failed", "aborted"}

\* Wrong: whoever aborts the controller, the caller gets its own AbortError.
EndOf_TimerIsAbort(phase, byCaller, byTimer) ==
  IF byCaller \/ byTimer THEN {"aborted"} ELSE {"ok", "failed"}

\* How a call may end in this phase when its page has aborted it (byCaller) or
\* its 15 s timer has (byTimer).  An abort while the body is read is caught with
\* the errors of the JSON parser and becomes "invalid response".
EndOf(phase, byCaller, byTimer) ==
  CASE ~byCaller /\ ~byTimer -> {"ok", "failed"}
    [] phase = "body" /\ (byCaller \/ byTimer) -> {"failed"}
    [] phase = "head" /\ byCaller -> {"aborted"}
    [] OTHER -> {"failed"}
=============================================================================
