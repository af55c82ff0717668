------------------------------ MODULE MapPage -------------------------------
(***************************************************************************)
(* The service map: web/src/search/MapView.tsx.  Coming on screen, and     *)
(* every 5 s while it has no nodes, the page loads the graph and then the  *)
(* p95 of its services; MapLayout draws them.                              *)
(*                                                                         *)
(* "view" is the component's state and refs.  of and p95 are the numbers   *)
(* of the loads its graph and its percentiles come from.                   *)
(***************************************************************************)
EXTENDS Naturals

CONSTANTS
  Services, None,
  MaxLoads        \* bound: the loads of a behaviour

VARIABLES view, calls

Here == view.page = "map"
Call(n) == [n |-> n, stage |-> "graph"]
Load(v) ==
  /\ v.seq < MaxLoads
  /\ view' = [v EXCEPT !.seq = @ + 1]
  /\ calls' = calls \cup {Call(v.seq + 1)}

\* Leaving closes the effect: whatever its loads still return is ignored.
Enter == Here /\ ~view.active /\ Load([view EXCEPT !.active = TRUE])
Leave == Here /\ view.active /\ view' = [view EXCEPT !.active = FALSE] /\ calls' = {}
Poll == Here /\ view.active /\ view.nodes = {} /\ Load(view)

\* Wrong: a graph that a later load has overtaken is shown.
GraphArrives_Overtaken(c, nodes, failing) ==
  /\ Here /\ c.stage = "graph"
  /\ view' = [view EXCEPT !.nodes = nodes, !.failing = failing, !.of = c.n, !.status = "ok"]
  /\ calls' = (calls \ {c}) \cup {[c EXCEPT !.stage = "metrics"]}

\* failing: a box or a line of the graph has errors.
GraphArrives(c, nodes, failing) ==
  /\ Here /\ c.stage = "graph"
  /\ IF c.n # view.seq THEN UNCHANGED view /\ calls' = calls \ {c}
     ELSE /\ view' = [view EXCEPT !.nodes = nodes, !.failing = failing, !.of = c.n, !.status = "ok"]
          /\ calls' = (calls \ {c}) \cup {[c EXCEPT !.stage = "metrics"]}

GraphFails(c) ==
  /\ Here /\ c.stage = "graph" /\ calls' = calls \ {c}
  /\ view' = IF c.n # view.seq THEN view
             ELSE [view EXCEPT !.nodes = {}, !.failing = FALSE, !.of = c.n, !.p95 = c.n, !.status = "error"]

\* An answer, or a failure, which counts as no percentile at all.
MetricsArrive(c) ==
  /\ Here /\ c.stage = "metrics" /\ calls' = calls \ {c}
  /\ view' = IF c.n # view.seq THEN view ELSE [view EXCEPT !.p95 = c.n]

\* The work pane: the map, or why there is none; the detail pane: a node of it.
Shown(v) ==
  IF v.status # "ok" THEN v.status
  ELSE IF v.nodes = {} THEN "no services"
  ELSE IF v.mode = "errors" /\ ~v.failing THEN "no errors" ELSE "map"
Detail(v) == IF v.selected \in v.nodes THEN v.selected ELSE None

Select(s) ==
  /\ Here /\ view.active /\ (s = None \/ (Shown(view) = "map" /\ s \in view.nodes))
  /\ view' = [view EXCEPT !.selected = s] /\ UNCHANGED calls

SetMode(mode) == Here /\ view.active /\ view' = [view EXCEPT !.mode = mode] /\ UNCHANGED calls

Init ==
  /\ view = [page |-> "map", active |-> TRUE, nodes |-> {}, failing |-> FALSE, of |-> 0, p95 |-> 0, mode |-> "calls",
             status |-> "loading", selected |-> None, seq |-> 1]
  /\ calls = {Call(1)}

Next ==
  \/ Enter \/ Leave \/ Poll
  \/ \E s \in Services \cup {None} : Select(s)
  \/ \E mode \in {"calls", "errors"} : SetMode(mode)
  \/ \E c \in calls : \/ GraphFails(c) \/ MetricsArrive(c)
                      \/ \E nodes \in SUBSET Services, failing \in BOOLEAN :
                           (nodes = {} => ~failing) /\ GraphArrives(c, nodes, failing)

-----------------------------------------------------------------------------
(* Properties *)

\* Once the last load of the page on screen has ended, the percentiles are those of the map's boxes,
\* and both are that load's.
ShowsTheSelection ==
  view.active /\ (\A c \in calls : c.n # view.seq) => view.of = view.seq /\ view.p95 = view.seq

\* A page that says "loading" has a load under way that no other has overtaken.
NeverStuck ==
  view.active /\ view.status = "loading" => \E c \in calls : c.n = view.seq
=============================================================================
