---------------------------- MODULE ServicesPage ----------------------------
(***************************************************************************)
(* The services page: web/src/search/ServicesView.tsx.  A list of the      *)
(* services of a time window that slides every 15 s, and a dashboard of    *)
(* the selected one, loaded by three calls in a row (metrics, error        *)
(* causes, operations).                                                    *)
(*                                                                         *)
(* "view" is the component's state, its refs and the service in the URL;   *)
(* "calls" are its calls of the query API.  A window is a number: the      *)
(* sliding ones are later and later.  What the page knows of a service is  *)
(* the record [svc, win] it asked the server for.                          *)
(*                                                                         *)
(* A definition whose name ends in an underscore and a few words is a      *)
(* wrong variant of the one after it.                                      *)
(***************************************************************************)
EXTENDS Naturals, Fetch

CONSTANTS
  Services, None,
  MaxWins,        \* bound: the windows of a behaviour
  MaxDash         \* bound: the dashboard loads of a behaviour

VARIABLES view, calls

Here == view.page = "services"
Of(svc, win) == [svc |-> svc, win |-> win]
ListCall(n) == [kind |-> "list", n |-> n]
DashCall(v) ==
  [kind |-> "dash", n |-> v.dashSeq, of |-> Of(v.selected, v.win),
   stage |-> "metrics", phase |-> "head", doomed |-> FALSE]
Chains == {c \in calls : c.kind = "dash"}

\* Aborting a chain ends it silently, except while a call of it reads its body:
\* that is a failure still to come (see EndOf).  A chain that went on after such
\* a failure is "stray": its controller is aborted already, and its last call,
\* made since, does not hear of it.
Doom(cs) ==
  LET heard == {c \in cs : c.kind = "dash" /\ ~c.doomed /\ c.stage # "stray"}
  IN  (cs \ heard) \cup {[c EXCEPT !.doomed = TRUE] : c \in {d \in heard : d.phase = "body"}}

-----------------------------------------------------------------------------
(* Rendering: the effects whose dependencies a step has changed *)

\* The effect on [start, end]: abort, and load the list again.
ListEffect(v, cs) ==
  [v |-> [v EXCEPT !.seq = @ + 1, !.fetching = TRUE], cs |-> cs \cup {ListCall(v.seq + 1)}]

\* Wrong: the chain of the service selected before is not outdated.
DashEffect_SameSeq(v, cs) ==
  IF v.selected = None
  THEN [v |-> [v EXCEPT !.kpis = None, !.causes = None, !.ops = None, !.dash = "idle"], cs |-> Doom(cs)]
  ELSE [v |-> [v EXCEPT !.dash = "loading"], cs |-> cs \cup {DashCall(v)}]

\* The effect on [selected, start, end]: abort, and load or clear the dashboard.
\* Without a selection dashSeq stays: the aborted chain still counts as the latest.
DashEffect(v, cs) ==
  IF v.selected = None
  THEN [v |-> [v EXCEPT !.kpis = None, !.causes = None, !.ops = None, !.dash = "idle"],
        cs |-> Doom(cs)]
  ELSE LET w == [v EXCEPT !.dashSeq = @ + 1, !.dash = "loading"]
       IN  [v |-> w, cs |-> Doom(cs) \cup {DashCall(w)}]

Render(w, cs) ==
  LET slid == w.win # view.win
      a == IF slid THEN ListEffect(w, cs) ELSE [v |-> w, cs |-> cs]
      b == IF slid \/ w.selected # view.selected THEN DashEffect(a.v, a.cs) ELSE a
  IN  /\ b.v.dashSeq <= MaxDash
      /\ view' = b.v
      /\ calls' = b.cs

\* slide(): the next window, unless a list is being fetched.
Slid(v) == IF v.fetching \/ v.win = MaxWins THEN v ELSE [v EXCEPT !.win = @ + 1]

-----------------------------------------------------------------------------
(* The user and the timer *)

Poll == Here /\ view.active /\ Slid(view) # view /\ Render(Slid(view), calls)

ApplyRange ==
  /\ Here /\ view.active /\ view.win < MaxWins
  /\ Render([view EXCEPT !.win = @ + 1], calls)

Leave(url) == view' = [view EXCEPT !.active = FALSE, !.url = url] /\ UNCHANGED calls
GoElsewhere == Here /\ view.active /\ \E url \in Services \cup {None} : Leave(url)

Enter == Here /\ ~view.active /\ Render([Slid(view) EXCEPT !.active = TRUE], calls)

\* Another page opens a service here (openService of App.tsx): focus.
Focus(svc) ==
  /\ Here /\ ~view.active
  /\ Render([Slid(view) EXCEPT !.active = TRUE, !.selected = svc, !.url = svc], calls)

\* What the list pane and the work pane show.
ListShown(v) == IF v.status = "ok" THEN v.rows ELSE {}
Work(v) ==
  IF v.dash = "error" THEN [says |-> "error"]
  ELSE IF v.selected = None THEN [says |-> "select a service"]
  ELSE [says |-> "dashboard", title |-> v.selected, listed |-> v.selected \in v.rows,
        kpis |-> v.kpis, causes |-> v.causes, ops |-> v.ops]
Dashboard == Work(view).says = "dashboard"

Select(svc) ==
  /\ Here /\ view.active /\ svc \in ListShown(view)
  /\ Render([view EXCEPT !.selected = svc], calls)

OpenNeighbor(svc) ==
  /\ Here /\ view.active /\ Dashboard /\ view.status = "ok" /\ svc # view.selected
  /\ Render([view EXCEPT !.selected = svc, !.url = svc], calls)

\* "open traces", a cause or an operation: the traces page, with the service in its form.
OpenTraces == Here /\ view.active /\ Dashboard /\ Leave(view.selected)
OpenCause == Here /\ view.active /\ Dashboard /\ view.causes # None /\ Leave(view.selected)
OpenOp == Here /\ view.active /\ Dashboard /\ view.ops # None /\ Leave(view.selected)

-----------------------------------------------------------------------------
(* Answers *)

\* The selection survives when it is listed; otherwise the URL's service is tried.
Reselected(v, found) ==
  CASE v.selected \in found -> v.selected
    [] v.selected \notin found /\ v.url \in found -> v.url
    [] OTHER -> None

\* Wrong: the list's failure does not end the fetch.
ListFails_StillFetching(c) ==
  /\ Here /\ calls' = calls \ {c}
  /\ view' = IF c.n # view.seq THEN view
             ELSE [view EXCEPT !.rows = {}, !.status = "error"]

ListFails(c) ==
  /\ Here /\ calls' = calls \ {c}
  /\ view' = IF c.n # view.seq THEN view
             ELSE [view EXCEPT !.rows = {}, !.status = "error", !.fetching = FALSE]

\* The graph's own failure counts as a graph without edges.
ListAnswered(c, found) ==
  /\ Here
  /\ IF c.n # view.seq THEN UNCHANGED view /\ calls' = calls \ {c}
     ELSE Render([view EXCEPT !.rows = found, !.status = "ok", !.fetching = FALSE,
                              !.selected = Reselected(view, found)], calls \ {c})

HeadArrives(c) ==
  /\ Here /\ c.kind = "dash" /\ c.phase = "head"
  /\ calls' = (calls \ {c}) \cup {[c EXCEPT !.phase = "body"]}
  /\ UNCHANGED view

NextStage(c, s) == (calls \ {c}) \cup {[c EXCEPT !.stage = s, !.phase = "head", !.doomed = FALSE]}
AfterCauses(c) == IF c.doomed THEN "stray" ELSE "operations"

MetricsEnd(c, end) ==
  /\ Here /\ c.stage = "metrics"
  /\ IF end = "aborted" \/ c.n # view.dashSeq THEN UNCHANGED view /\ calls' = calls \ {c}
     ELSE IF end = "ok"
     THEN /\ view' = [view EXCEPT !.kpis = c.of, !.dash = "ok"]
          /\ calls' = NextStage(c, "causes")
     ELSE /\ view' = [view EXCEPT !.kpis = None, !.causes = None, !.ops = None, !.dash = "error"]
          /\ calls' = calls \ {c}

\* Wrong: a failure leaves the causes of the service before.
CausesEnd_KeepsOld(c, end) ==
  /\ Here /\ c.stage = "causes"
  /\ IF end = "aborted" \/ c.n # view.dashSeq THEN UNCHANGED view /\ calls' = calls \ {c}
     ELSE /\ view' = IF end = "ok" THEN [view EXCEPT !.causes = c.of] ELSE view
          /\ calls' = NextStage(c, AfterCauses(c))

\* The causes are optional: their failure empties them and the chain goes on,
\* also when the failure is that of an aborted call.
CausesEnd(c, end) ==
  /\ Here /\ c.stage = "causes"
  /\ IF end = "aborted" \/ c.n # view.dashSeq THEN UNCHANGED view /\ calls' = calls \ {c}
     ELSE /\ view' = [view EXCEPT !.causes = IF end = "ok" THEN c.of ELSE None]
          /\ calls' = NextStage(c, AfterCauses(c))

OperationsEnd(c, end) ==
  /\ Here /\ c.stage \in {"operations", "stray"} /\ calls' = calls \ {c}
  /\ view' = IF end = "aborted" \/ c.n # view.dashSeq THEN view
             ELSE [view EXCEPT !.ops = IF end = "ok" THEN c.of ELSE None]

Init ==
  /\ \E svc \in Services \cup {None} :
       LET v == [page |-> "services", active |-> TRUE, win |-> 1, rows |-> {},
                 status |-> "loading", selected |-> svc, url |-> svc, kpis |-> None, causes |-> None,
                 ops |-> None, dash |-> "idle", seq |-> 0, dashSeq |-> 0, fetching |-> FALSE]
           a == ListEffect(v, {})
           b == DashEffect(a.v, a.cs)
       IN  view = b.v /\ calls = b.cs

Next ==
  \/ Poll \/ ApplyRange \/ GoElsewhere \/ Enter
  \/ OpenTraces \/ OpenCause \/ OpenOp
  \/ \E svc \in Services : Focus(svc) \/ Select(svc) \/ OpenNeighbor(svc)
  \/ \E c \in calls :
       \/ /\ Here /\ c.kind = "list"
          /\ \/ ListFails(c)
             \/ \E found \in SUBSET Services : ListAnswered(c, found)
       \/ /\ Here /\ c.kind = "dash"
          /\ \/ HeadArrives(c)
             \/ \E late \in BOOLEAN : \E end \in EndOf(c.phase, c.doomed, late) :
                  MetricsEnd(c, end) \/ CausesEnd(c, end) \/ OperationsEnd(c, end)

-----------------------------------------------------------------------------
(* Properties *)

Current == Of(view.selected, view.win)

\* The call that brings a part of the dashboard for the selection is still to
\* come: the chain of the selection has not got past this stage.
Coming(stages) ==
  \E c \in Chains : c.n = view.dashSeq /\ c.of = Current /\ ~c.doomed /\ c.stage \in stages

\* A dashboard keeps the numbers, causes and operations of the service or the
\* window before, without a word, but only until the chain of calls for the
\* service in its title has got to them.
ShowsTheSelection ==
  Dashboard =>
    /\ view.kpis # Current => Coming({"metrics"})
    /\ view.causes \notin {Current, None} => Coming({"metrics", "causes"})
    /\ view.ops \notin {Current, None} => Coming({"metrics", "causes", "operations"})

\* A page that says "loading", or that keeps the timer from sliding, has the
\* call under way that will end it.
NeverStuck ==
  /\ view.fetching \/ view.status = "loading" => ListCall(view.seq) \in calls
  /\ view.dash = "loading" =>
       \E c \in Chains : c.n = view.dashSeq /\ c.stage = "metrics" /\ ~c.doomed
=============================================================================
