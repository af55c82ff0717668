------------------------------ MODULE AppShell -------------------------------
(***************************************************************************)
(* The frame around the pages: web/src/App.tsx, the tabs and the theme     *)
(* switch of web/src/chrome/Chrome.tsx, and web/src/theme.ts.  The frame   *)
(* shows one page, keeps those it has shown, and holds what one page hands *)
(* to another; the URL and the browser's storage outlive a reload.         *)
(*                                                                         *)
(* "view" is the component's state, the trace and the service in the URL,  *)
(* the theme the user has stored and the one of the system.                *)
(*                                                                         *)
(* A definition whose name ends in an underscore and a few words is a      *)
(* wrong variant of the one after it.                                      *)
(***************************************************************************)
EXTENDS Naturals

CONSTANTS
  Traces, Services, None,
  MaxEpochs       \* bound: jumps to the traces page since the page was loaded

VARIABLES view, calls

Here == view.page = "shell"
Tabs == {"overview", "services", "traces", "logs", "map"}
Themes == {"light", "dark"}
Stay(w) == view' = w /\ UNCHANGED calls

\* go: a page is mounted when it is first shown, and never unmounted.
Go(v, tab) == [v EXCEPT !.tab = tab, !.seen = @ \cup {tab}]

\* clearTraceURL keeps the form; a jump to the traces page reloads it.
ClearTraceURL(v) == [v EXCEPT !.urlTrace = None]
Jump(v) == [Go(v, "traces") EXCEPT !.tracesEpoch = @ + 1]
MayJump == Here /\ view.tracesEpoch < MaxEpochs

\* Wrong: going to another page leaves the trace in the URL.
OnView_KeepsURL(tab) ==
  Here /\ Stay(Go([view EXCEPT !.logsTrace = IF tab = "logs" THEN None ELSE @], tab))

\* A tab.
OnView(tab) ==
  LET v == [view EXCEPT !.logsTrace = IF tab = "logs" THEN None ELSE @]
  IN  Here /\ Stay(Go(IF tab = "traces" THEN v ELSE ClearTraceURL(v), tab))

OpenService(s) ==
  /\ Here /\ view.tab \in Tabs \ {"services"}
  /\ Stay(Go([ClearTraceURL(view) EXCEPT !.urlService = s, !.serviceFocus = s], "services"))

OpenTracesForService(s) ==
  /\ MayJump /\ view.tab \in {"services", "map"}
  /\ Stay(Jump([ClearTraceURL(view) EXCEPT !.urlService = s]))

\* A form may name no service: an issue of the whole fleet.
OpenTracesForm(s) ==
  /\ MayJump /\ view.tab \in {"overview", "services"}
  /\ Stay(Jump([ClearTraceURL(view) EXCEPT !.urlService = s]))

\* The feed, or a log.
OpenTrace(t) ==
  /\ MayJump /\ view.tab \in {"overview", "logs"}
  /\ Stay(Jump([view EXCEPT !.urlTrace = t, !.urlService = None]))

\* The traces page opens a trace of its own, or goes back to its table.
TracesPage(t) == Here /\ view.tab = "traces" /\ Stay([view EXCEPT !.urlTrace = t])

\* From the logs of a span; the trace stays in the URL.
OpenLogs == Here /\ view.tab = "traces" /\ view.urlTrace # None /\ Stay(Go([view EXCEPT !.logsTrace = view.urlTrace], "logs"))

-----------------------------------------------------------------------------
(* The theme *)

\* readTheme; storage that is blocked reads as empty.
StoredTheme(v) == IF v.blocked THEN None ELSE v.stored
ReadTheme(v) == IF StoredTheme(v) = None THEN v.system ELSE StoredTheme(v)

\* The switch: rememberTheme, setTheme.
OnTheme(t) ==
  /\ Here /\ t # view.theme
  /\ Stay([view EXCEPT !.theme = t, !.stored = IF view.blocked THEN @ ELSE t])

\* Wrong: the system's theme overrides the user's.
WatchSystemTheme_Always(t) == Here /\ t # view.system /\ Stay([view EXCEPT !.system = t, !.theme = t])

WatchSystemTheme(t) ==
  /\ Here /\ t # view.system
  /\ Stay([view EXCEPT !.system = t, !.theme = IF StoredTheme(view) = None THEN t ELSE @])

-----------------------------------------------------------------------------
(* The browser loads the page, the first time or again *)

Loaded(v) ==
  LET tab == IF v.urlTrace # None THEN "traces" ELSE "overview"
  IN  [v EXCEPT !.tab = tab, !.seen = {tab}, !.theme = ReadTheme(v), !.logsTrace = None,
                !.tracesEpoch = 0, !.serviceFocus = None]

Reload == Here /\ Stay(Loaded(view))

Init ==
  /\ \E t \in Traces \cup {None}, s \in Services \cup {None}, blocked \in BOOLEAN, system \in Themes,
        stored \in Themes \cup {None} :
       view = Loaded([page |-> "shell", tab |-> "overview", seen |-> {}, theme |-> system, logsTrace |-> None,
                      tracesEpoch |-> 0, serviceFocus |-> None, urlTrace |-> t, urlService |-> s,
                      blocked |-> blocked, stored |-> stored, system |-> system])
  /\ calls = {}

Next ==
  \/ OpenLogs \/ Reload
  \/ \E tab \in Tabs : OnView(tab)
  \/ \E s \in Services : OpenService(s) \/ OpenTracesForService(s)
  \/ \E s \in Services \cup {None} : OpenTracesForm(s)
  \/ \E t \in Traces : OpenTrace(t)
  \/ \E t \in Traces \cup {None} : TracesPage(t)
  \/ \E t \in Themes : OnTheme(t) \/ WatchSystemTheme(t)

-----------------------------------------------------------------------------
(* Properties *)

\* The URL names a trace on the traces page and on the logs opened from it, for
\* the trace they were opened for, and on no other page: a reload elsewhere goes
\* to no trace.  (Whether the traces page has that trace on screen is for
\* TraceList to say: TableURLIsShareable.)  Where the browser stores what the
\* user chooses, the theme is the one chosen, or the system's as long as none is.
\* Nothing is said of a browser that blocks storage: no choice is known there once
\* it is made, and the next change of the system's theme overrides it
\* (theme.ts:55-59).
ShellKeepsTrack ==
  /\ view.urlTrace # None => view.tab = "traces" \/ (view.tab = "logs" /\ view.logsTrace = view.urlTrace)
  /\ ~view.blocked => view.theme = ReadTheme(view)
=============================================================================
