------------------------------ MODULE TracePage -----------------------------
(***************************************************************************)
(* Opening a trace, in web/src/search/TracesView.tsx, and the inspector of *)
(* its selected span, web/src/search/SpanInspector.tsx, which loads the    *)
(* logs of that span.  TraceList models the table of the same page; here   *)
(* it is only its status.                                                  *)
(*                                                                         *)
(* "view" is the state and the refs of the two components and the trace in *)
(* the URL; "calls" are their calls of the query API.  lost is a history   *)
(* variable: the trace call of this number was ended, without a word, by   *)
(* leaving the page.                                                       *)
(*                                                                         *)
(* A definition whose name ends in an underscore and a few words is a      *)
(* wrong variant of the one after it.                                      *)
(***************************************************************************)
EXTENDS Naturals, Fetch

CONSTANTS
  Traces, Spans, None,
  MaxOpens        \* bound: the calls for a trace or a table in a behaviour

VARIABLES view, calls

Here == view.page = "trace"
TraceCall(v, kind) == [kind |-> kind, n |-> v.traceSeq, trace |-> v.trace, phase |-> "head", doomed |-> FALSE]
SearchCall(v) == [kind |-> "search", n |-> v.seq, phase |-> "head", doomed |-> FALSE]
LogsCall(v) == [kind |-> "logs", trace |-> v.trace, span |-> v.span]
NotLogs == {c \in calls : c.kind # "logs"}

\* The inspector is there for a span of a loaded trace, and new for each trace.
NoInspector(v) == [v EXCEPT !.span = None, !.logs = None, !.logsErr = FALSE, !.logsLoading = FALSE, !.tab = "details"]

\* Wrong: opening a trace does not outdate the answer for the one before.
Opening_SameSeq(v, trace) ==
  [NoInspector(v) EXCEPT !.trace = trace, !.loading = TRUE, !.err = FALSE, !.detail = None, !.url = trace]

\* openTrace up to its await.
Opening(v, trace) ==
  [NoInspector(v) EXCEPT !.traceSeq = @ + 1, !.trace = trace, !.loading = TRUE, !.err = FALSE,
                         !.detail = None, !.url = trace]

Closed(v) ==
  [NoInspector(v) EXCEPT !.trace = None, !.detail = None, !.err = FALSE, !.loading = FALSE]

\* What is on screen: the table or, for a trace, one of four things.
Shown(v) ==
  CASE v.trace = None -> "table"
    [] v.trace # None /\ v.loading -> "loading"
    [] v.trace # None /\ ~v.loading /\ v.err -> "error"
    [] v.trace # None /\ ~v.loading /\ ~v.err -> IF v.detail # None THEN "waterfall" ELSE "select a trace"

\* The inspector under its head: the words in place of a list, or whose span
\* the attributes, the events or the logs are, and what the user can leave by.
Inspector(v) ==
  CASE v.tab # "logs" ->
         [word |-> "", of |-> <<v.detail, v.span>>,
          links |-> IF v.tab = "details" THEN Traces \ {v.trace} ELSE {}, openLogs |-> FALSE]
    [] v.tab = "logs" ->
         [word |-> IF v.logsLoading THEN "loading" ELSE IF v.logsErr THEN "ERROR"
                   ELSE IF v.logs = None THEN "no related logs" ELSE "",
          of |-> v.logs, links |-> {}, openLogs |-> ~v.logsLoading /\ ~v.logsErr /\ v.logs # None]

-----------------------------------------------------------------------------
(* The user *)

\* A row of the table, which is there but for an error, or a link in the
\* inspector: a call without a signal.
Open(trace) ==
  /\ Here /\ view.active /\ view.traceSeq < MaxOpens
  /\ \/ view.trace = None /\ view.status # "error"
     \/ view.span # None /\ trace \in Inspector(view).links
  /\ view' = Opening(view, trace)
  /\ calls' = NotLogs \cup {TraceCall(view', "open")}

Back ==
  /\ Here /\ view.active /\ view.trace # None
  /\ view' = [Closed(view) EXCEPT !.traceSeq = @ + 1, !.url = None]
  /\ calls' = NotLogs

\* A span of the waterfall or of the dock; the inspector then loads its logs.
SelectSpan(span) ==
  /\ Here /\ view.active /\ Shown(view) = "waterfall" /\ span # view.span
  /\ view' = [view EXCEPT !.span = span, !.logsLoading = TRUE, !.logsErr = FALSE]
  /\ calls' = NotLogs \cup {LogsCall(view')}

SetTab(tab) ==
  /\ Here /\ view.active /\ view.span # None /\ view' = [view EXCEPT !.tab = tab] /\ UNCHANGED calls

-----------------------------------------------------------------------------
(* The effect on [active, reloadToken] *)

\* Its cleanup: the calls it made itself are aborted.  One that waits for its
\* response ends silently; one that reads its body fails.
Leave(url) ==
  LET silent == {c \in calls : c.kind \in {"search", "link"} /\ c.phase = "head"}
  IN  /\ Here /\ view.active
      /\ calls' = {IF c.kind \in {"search", "link"} THEN [c EXCEPT !.doomed = TRUE] ELSE c : c \in calls \ silent}
      /\ view' = [view EXCEPT !.active = FALSE, !.url = url,
                    !.lost = IF \E c \in silent : c.kind = "link" THEN view.traceSeq ELSE @]

\* "open logs" leaves the URL alone, every other way out takes the trace off it.
GoElsewhere ==
  \/ Leave(None)
  \/ Here /\ view.span # None /\ Inspector(view).openLogs /\ Leave(view.url)

\* The body of the effect: the trace of the URL, or else the table.
Reload(v) ==
  IF v.url # None
  THEN /\ view' = Opening(v, v.url)
       /\ calls' = NotLogs \cup {TraceCall(view', "link")}
  ELSE /\ view' = [Closed(v) EXCEPT !.seq = @ + 1, !.status = "searching"]
       /\ calls' = NotLogs \cup {SearchCall(view')}

\* The tab of the page: nothing to do when its table is there.
Return ==
  /\ Here /\ ~view.active /\ view.traceSeq < MaxOpens /\ view.seq < MaxOpens
  /\ LET v == [view EXCEPT !.active = TRUE]
     IN  IF view.status = "ok" THEN view' = v /\ UNCHANGED calls ELSE Reload(v)

\* A link to a trace, or to a search, from another page.
FollowLink(url) ==
  /\ Here /\ ~view.active /\ view.traceSeq < MaxOpens /\ view.seq < MaxOpens
  /\ Reload([view EXCEPT !.active = TRUE, !.url = url])

-----------------------------------------------------------------------------
(* Answers *)

\* A call the effect made may be told apart by how far it has come.
HeadArrives(c) ==
  /\ Here /\ c.kind \in {"search", "link"} /\ c.phase = "head"
  /\ calls' = (calls \ {c}) \cup {[c EXCEPT !.phase = "body"]}
  /\ UNCHANGED view

TraceEnds(c, end) ==
  /\ Here /\ c.kind \in {"open", "link"}
  /\ calls' = IF c.n = view.traceSeq THEN NotLogs \ {c} ELSE calls \ {c}
  /\ view' = IF c.n # view.traceSeq \/ end = "aborted" THEN view
             ELSE IF end = "ok"
             THEN [NoInspector(view) EXCEPT !.detail = c.trace, !.loading = FALSE]
             ELSE [NoInspector(view) EXCEPT !.detail = None, !.err = TRUE, !.loading = FALSE]

SearchEnds(c, end) ==
  /\ Here /\ c.kind = "search" /\ calls' = calls \ {c}
  /\ view' = IF c.n # view.seq \/ end = "aborted" THEN view
             ELSE [view EXCEPT !.status = IF end = "ok" THEN "ok" ELSE "error"]

\* Wrong: a failure leaves the logs of the span before.
LogsEnd_KeepsOld(c, end) ==
  /\ Here /\ c.kind = "logs" /\ calls' = calls \ {c}
  /\ view' = [view EXCEPT !.logs = CASE end = "rows" -> <<c.trace, c.span>> [] end = "none" -> None [] end = "error" -> @,
                          !.logsLoading = FALSE]

\* A changed span aborts the call, and an aborted call is ignored: it is dropped.
LogsEnd(c, end) ==
  /\ Here /\ c.kind = "logs" /\ calls' = calls \ {c}
  /\ view' = [view EXCEPT !.logs = IF end = "rows" THEN <<c.trace, c.span>> ELSE None,
                          !.logsErr = (end = "error"), !.logsLoading = FALSE]

Init ==
  /\ \E url \in Traces \cup {None} :
       LET v == [page |-> "trace", active |-> TRUE, trace |-> None, loading |-> FALSE, err |-> FALSE,
                 detail |-> None, span |-> None, tab |-> "details", logs |-> None, logsErr |-> FALSE,
                 logsLoading |-> FALSE, traceSeq |-> 0, seq |-> 0, status |-> "idle", url |-> url, lost |-> 0]
           w == IF url = None THEN [v EXCEPT !.seq = 1, !.status = "searching"] ELSE Opening(v, url)
       IN  view = w /\ calls = {IF url = None THEN SearchCall(w) ELSE TraceCall(w, "link")}

Next ==
  \/ Back \/ GoElsewhere \/ Return
  \/ \E t \in Traces : Open(t)
  \/ \E t \in Traces \cup {None} : FollowLink(t)
  \/ \E s \in Spans : SelectSpan(s)
  \/ \E tab \in {"details", "events", "logs"} : SetTab(tab)
  \/ \E c \in calls : \/ HeadArrives(c)
                      \/ \E end \in {"rows", "none", "error"} : LogsEnd(c, end)
                      \/ /\ Here /\ c.kind # "logs"
                         /\ \E late \in BOOLEAN : \E end \in EndOf(c.phase, c.doomed, late) :
                              TraceEnds(c, end) \/ SearchEnds(c, end)

-----------------------------------------------------------------------------
(* Properties *)

\* The waterfall is that of the trace opened, and what the inspector lists is of
\* the span selected in it.
ShowsTheSelection ==
  /\ Shown(view) = "waterfall" => view.detail = view.trace
  /\ view.span # None => Inspector(view).word # "" \/ Inspector(view).of = <<view.trace, view.span>>
  /\ view.span # None => view.detail = view.trace

\* The call for the trace opened last is under way.
Coming == \E c \in calls : c.kind \in {"open", "link"} /\ c.n = view.traceSeq

\* "loading" has a call under way that ends it, whatever was opened, left or
\* answered before, unless the page was left while that call waited for its
\* head: see LinkOpensTrace for that case.
NeverStuck ==
  /\ view.loading => Coming \/ view.lost = view.traceSeq
  /\ view.logsLoading => LogsCall(view) \in calls

\* docs/overview.md:44: "Click a row to open that trace's waterfall."  A page on
\* screen that says "loading" for a trace has a call under way that ends it.
LinkOpensTrace == view.active /\ Shown(view) = "loading" => Coming
=============================================================================
