------------------------------ MODULE WebPages -------------------------------
(***************************************************************************)
(* The pages of the web UI.  Pages do not read each other's state, so a    *)
(* behaviour is one page from the moment it is mounted; the frame that     *)
(* hands them on (AppShell) is a page of its own.  A view in Inputs is the *)
(* input of a pure function, which has no step.                            *)
(***************************************************************************)
EXTENDS QueryWindow, MapLayout

CONSTANTS
  Pages,                        \* the pages to start
  Inputs,                       \* the inputs of the pure functions
  None,                         \* null, undefined and the empty name
  Services, Ranges, Traces, LogTraces, Spans,
  ServiceNames, OpNames, Texts, \* the names of the menus and what is typed
  Keys, Charts,                 \* the lines of a chart; for each bucket whether it has a value
  Panes, Fits, Ys,              \* heights: the dock's parent, its content, the pointer
  Values,                       \* numbers that are formatted
  FeedLimit, LogLimit, TableRows

CONSTANTS                       \* bounds: see the modules of the pages
  MaxServiceWins, MaxDash, MaxOverviewWins, MaxTraces, MaxFeedWins, MaxLogs, MaxSearches,
  MaxLoads, MaxOpens, MaxGestures, MaxData, MaxFormWins, MaxEpochs

VARIABLES view, calls
vars == <<view, calls>>

Themes == {"light", "dark"}

Svc == INSTANCE ServicesPage WITH MaxWins <- MaxServiceWins
Ovw == INSTANCE OverviewPage WITH MaxWins <- MaxOverviewWins
Feed == INSTANCE ActivityFeed WITH Limit <- FeedLimit, MaxWins <- MaxFeedWins
Logs == INSTANCE LogsPage WITH Traces <- LogTraces, Limit <- LogLimit
Map == INSTANCE MapPage
Trace == INSTANCE TracePage
Dock == INSTANCE InsightDock
Chart == INSTANCE DashChart
Form == INSTANCE Pickers WITH MaxWins <- MaxFormWins
Shell == INSTANCE AppShell
Text == INSTANCE Format
Dash == INSTANCE Dashboards

PureFunctions == {"layout", "window", "url", "cards", "format"}

\* null is neither a name nor a record; a list has room; heights are numbers.
ASSUME WebAssumption ==
  /\ None \notin Services \cup Traces \cup LogTraces \cup Spans \cup Themes
  /\ None \notin [range : Ranges, win : Nat] \cup [svc : Services, win : Nat] \cup Nat
  /\ None \notin [n : Nat, theme : Themes, key : Keys]
  /\ {FeedLimit, LogLimit} \subseteq Nat \ {0}
  /\ Charts \subseteq Seq(BOOLEAN)
  /\ Panes \cup Fits \cup Ys \subseteq Int

\* No input is taken for a page; the form of a trace is in whole seconds, and one
\* row at most was clicked; a search has all its fields; the answer the map draws
\* has a node for each service at most.
ASSUME InputsAssumption ==
  \A v \in Inputs :
    /\ v.page \in PureFunctions
    /\ v.page = "window" =>
         /\ v.form \in [start : Int, end : Int] /\ v.form.start % 2 = 0 /\ v.form.end % 2 = 0
         /\ v.rows \subseteq [at : Int, length : Int] /\ \A r, q \in v.rows : r = q
         /\ v.now \in Int
    /\ v.page = "url" => DOMAIN v.form = Fields
    /\ v.page = "layout" =>
         /\ v.nodes \in Seq(MapNode) /\ OnePerService(v.nodes)
         /\ v.edges \in Seq(MapEdge) /\ v.canvas \in MapCanvas

Init ==
  \/ "services" \in Pages /\ Svc!Init
  \/ "overview" \in Pages /\ Ovw!Init
  \/ "activity" \in Pages /\ Feed!Init
  \/ "logs" \in Pages /\ Logs!Init
  \/ "map" \in Pages /\ Map!Init
  \/ "trace" \in Pages /\ Trace!Init
  \/ "dock" \in Pages /\ Dock!Init
  \/ "chart" \in Pages /\ Chart!Init
  \/ "form" \in Pages /\ Form!Init
  \/ "shell" \in Pages /\ Shell!Init
  \/ "pure" \in Pages /\ view \in Inputs /\ calls = {}

Next ==
  \/ Svc!Next \/ Ovw!Next \/ Feed!Next \/ Logs!Next \/ Map!Next \/ Trace!Next
  \/ Dock!Next \/ Chart!Next \/ Form!Next \/ Shell!Next

Spec == Init /\ [][Next]_vars

-----------------------------------------------------------------------------
(* Properties *)

\* What a page shows is what was last asked for: the service, the range, the
\* search, the trace and span, the names and the series of the selection on
\* screen.  An answer to an earlier question is there, with or without the word
\* "loading", only while the call that replaces it is under way; no late answer
\* brings it back.  The one exception is a chart without a size when its last data
\* came: it is built from those before, and keeps them until the next (missed).
PagesShowTheSelection ==
  /\ Svc!Here => Svc!ShowsTheSelection
  /\ Ovw!Here => Ovw!ShowsTheSelection
  /\ Logs!Here => Logs!ShowsTheSelection
  /\ Map!Here => Map!ShowsTheSelection
  /\ Trace!Here => Trace!ShowsTheSelection
  /\ Chart!Here => Chart!ShowsTheSelection
  /\ Form!Here => Form!ShowsTheSelection

\* A page that says it loads, or that holds its timer back until an answer has
\* come, has the call under way that will end that: every page but the traces
\* page, which breaks this when it is left (LinkOpensTrace below, and TraceList's
\* BackKeepsSearch) and is meant here only for a trace not left before its head.
PagesNeverStuck ==
  /\ Svc!Here => Svc!NeverStuck
  /\ Ovw!Here => Ovw!NeverStuck
  /\ Logs!Here => Logs!NeverStuck
  /\ Map!Here => Map!NeverStuck
  /\ Trace!Here => Trace!NeverStuck

\* The latest rows of the stream are in the feed and in the table of logs, or
\* wait behind their button.
LiveListsLoseNothing ==
  /\ Feed!Here => Feed!LosesNothing
  /\ Logs!Here => Logs!LosesNothing

\* The service map: boxes and labels apart and on the canvas, callers before
\* those they call, and no bright line that ends at a dim box.
MapIsReadable ==
  view.page = "layout" => ReadsWell(view.nodes, view.edges, Layout(view.nodes, view.edges, view.canvas))

\* A trace is asked for with a window the server takes, which holds its row if
\* that is no older than the largest window; halves of a window are halves; and a
\* search survives its URL.
SearchesKeepTheirWindow ==
  /\ view.page = "window" => WindowIsLegal(view.form, view.rows, view.now) /\ HalvesAreEqual(view.form)
  /\ view.page = "url" => URLKeepsTheSearch(view.form, view.trace)

\* Numbers on different cards, charts and lists, and in different units, agree.
DashboardsAgree ==
  /\ view.page = "cards" =>
       /\ Dash!CardsAgree(view.now, view.before) /\ Dash!FeedMarksTheSlow(view.now)
       /\ Dash!ChartsAgree(SetToSeq(view.now), 3700, None)
  /\ view.page = "format" =>
       Text!FormatsKeepOrder(Values) /\ (view.n \in -1..110000000 => Text!TicksAreFew(view.n))

\* What the user has chosen stays: the dock under a span opens at the height it
\* was left with; the theme, where the browser stores it, is the chosen one; and
\* the URL names a trace on the page it was opened on and on its logs only.
ChoicesAreKept ==
  /\ Dock!Here => Dock!OpensAsLeft
  /\ Shell!Here => Shell!ShellKeepsTrack

\* A click on a trace ends with that trace or an error on screen.
LinkOpensTrace == Trace!Here => Trace!LinkOpensTrace

\* The logs page, opened from a trace, lists the logs of that trace.
JumpIsFiltered == Logs!Here => Logs!JumpIsFiltered
=============================================================================
