------------------------------ MODULE DashChart ------------------------------
(***************************************************************************)
(* A chart: web/src/search/DashChart.tsx.  A plot of a library is built    *)
(* inside an element of the page once the element has a size, from the     *)
(* data, the colours and the axes of that time; later data are handed to   *)
(* it, and a change of the theme or of the lines builds it anew.           *)
(*                                                                         *)
(* "view" is the component's props (data: a number and, for each bucket,   *)
(* whether it has a value; key: the lines), the theme, its element and its *)
(* state and refs; payload is what the effect has captured.  missed is a   *)
(* history variable: data came while there was no plot to hand them to.    *)
(*                                                                         *)
(* A definition whose name ends in an underscore and a few words is a      *)
(* wrong variant of the one after it.                                      *)
(***************************************************************************)
EXTENDS Naturals, Sequences

CONSTANTS
  Themes, Keys, Charts, None,
  MaxData         \* bound: the data of a behaviour

VARIABLES view, calls

Here == view.page = "chart"
Empty(v) == \A i \in DOMAIN v.buckets : ~v.buckets[i]
Drawing(v) == [n |-> v.n, theme |-> v.theme, key |-> v.key]

\* Wrong: a change of the theme leaves the plot as it is.
Rebuilds_NotForTheme(v, w) == Empty(w) # Empty(v) \/ w.key # v.key

\* The dependencies of the effect that builds.
Rebuilds(v, w) == Empty(w) # Empty(v) \/ w.theme # v.theme \/ w.key # v.key

\* layout: build in an element that has a size, from what was captured.
Layout(v) ==
  IF v.sized /\ v.plot = None /\ v.payload # None THEN [v EXCEPT !.plot = v.payload] ELSE v

\* Tear the old plot down, capture, build.
Build(v, w) ==
  IF ~Rebuilds(v, w) THEN w
  ELSE Layout([w EXCEPT !.plot = None, !.hover = None, !.missed = FALSE,
                        !.payload = IF Empty(w) THEN None ELSE Drawing(w)])

\* Wrong: data do not reach a plot that is there.
SetData_NewPlotsOnly(v, w) == IF w.n = v.n \/ w.plot = None THEN w ELSE [w EXCEPT !.missed = FALSE]

\* The second effect, on the data, runs after the first.
SetData(v, w) ==
  CASE w.n = v.n \/ Empty(w) -> w
    [] w.n # v.n /\ ~Empty(w) /\ w.plot # None -> [w EXCEPT !.plot.n = w.n, !.missed = FALSE]
    [] OTHER -> [w EXCEPT !.missed = w.payload.n # w.n]

Render(w) == view' = SetData(view, Build(view, w)) /\ UNCHANGED calls

NewData(buckets) ==
  /\ Here /\ view.n < MaxData
  /\ \E key \in Keys : Render([view EXCEPT !.n = @ + 1, !.buckets = buckets, !.key = key])

NewTheme(t) == Here /\ t # view.theme /\ Render([view EXCEPT !.theme = t])

\* The observer of the element's size: a narrow screen takes a hidden page away.
Resize ==
  /\ Here /\ UNCHANGED calls
  /\ view' = Layout([view EXCEPT !.sized = ~@])

\* The cursor is on a bucket: the line nearest to it that has a value there.
Hover(i) ==
  /\ Here /\ view.sized /\ view.plot # None /\ i \in DOMAIN view.buckets
  /\ view' = [view EXCEPT !.hover = IF view.buckets[i] THEN i ELSE None] /\ UNCHANGED calls

Unhover == Here /\ view.hover # None /\ view' = [view EXCEPT !.hover = None] /\ UNCHANGED calls

\* On screen: "no data" or the plot, and the tip of the bucket under the cursor.
Shown(v) ==
  [says |-> IF Empty(v) THEN "no data" ELSE "plot",
   tip |-> IF v.hover \in DOMAIN v.buckets THEN v.hover ELSE None]

Init ==
  /\ \E sized \in BOOLEAN, theme \in Themes, key \in Keys :
       view = [page |-> "chart", sized |-> sized, theme |-> theme, key |-> key, n |-> 0, buckets |-> <<>>,
               plot |-> None, payload |-> None, hover |-> None, missed |-> FALSE]
  /\ calls = {}

Next ==
  \/ Resize \/ Unhover
  \/ \E buckets \in Charts : NewData(buckets)
  \/ \E t \in Themes : NewTheme(t)
  \/ \E i \in 1..2 : Hover(i)

-----------------------------------------------------------------------------
(* Properties *)

\* A plot is there exactly when there is something to draw and room for it, in
\* the page's theme and lines; it draws the page's last numbers, unless those
\* came while it was not there: it is then built from the numbers before, until
\* the next come.  Only a plot has a tip.
ShowsTheSelection ==
  /\ view.sized => (view.plot # None <=> ~Empty(view))
  /\ view.plot # None =>
       view.plot.theme = view.theme /\ view.plot.key = view.key /\ (view.plot.n = view.n \/ view.missed)
  /\ Shown(view).tip # None => view.plot # None
=============================================================================
