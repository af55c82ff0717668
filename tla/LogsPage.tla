------------------------------ MODULE LogsPage ------------------------------
(***************************************************************************)
(* The logs page: web/src/search/LogsView.tsx.  A table of the logs of a   *)
(* search, on top of which a live stream puts the new ones that match the  *)
(* form.                                                                   *)
(*                                                                         *)
(* "view" is the component's state and refs; the trace it was opened for   *)
(* (initial); the server (logs: the trace of each log stored, oldest       *)
(* first, of which sent have come over the stream); and three history      *)
(* variables: the form last searched for (asked), the logs taken from the  *)
(* stream since the last answer (got), and whether the user has changed    *)
(* the form since it was last searched for or opened (edited).  "calls" are *)
(* its searches.  A form is a trace filter and an end: the number of logs  *)
(* before it.                                                              *)
(*                                                                         *)
(* A definition whose name ends in an underscore and a few words is a      *)
(* wrong variant of the one after it.                                      *)
(***************************************************************************)
EXTENDS Naturals, Sequences

CONSTANTS
  Traces, None,
  Limit,          \* the form's limit
  MaxLogs,        \* bound: logs stored
  MaxSearches     \* bound: searches of a behaviour

VARIABLES view, calls

Here == view.page = "logs"
Form(trace, end) == [trace |-> trace, end |-> end]
DefaultForm(v, trace) == Form(trace, Len(v.logs))
Row(v, i, live) == [id |-> i, trace |-> v.logs[i], live |-> live]
Newest(rows) == SubSeq(rows, 1, IF Len(rows) < Limit THEN Len(rows) ELSE Limit)

\* prependLiveLog: a log has no id to replace an older copy by.
PrependLiveLog(rows, row) == Newest(<<row>> \o rows)

\* Wrong: the newest pending row is applied first.
FlushPendingLogs_NewestFirst(rows, pending) ==
  LET out[i \in 0..Len(pending)] ==
        IF i = 0 THEN rows ELSE PrependLiveLog(out[i - 1], pending[i])
  IN  out[Len(pending)]

\* flushPendingLogs: pending is newest first and is applied from its end.
FlushPendingLogs(rows, pending) ==
  LET out[i \in 0..Len(pending)] ==
        IF i = 0 THEN rows ELSE PrependLiveLog(out[i - 1], pending[Len(pending) + 1 - i])
  IN  out[Len(pending)]

\* The server's answer: the newest logs of the window that match.
Answer(form) ==
  LET found[i \in 0..form.end] ==
        IF i = 0 THEN <<>>
        ELSE IF form.trace \in {None, view.logs[i]} THEN <<Row(view, i, FALSE)>> \o found[i - 1]
        ELSE found[i - 1]
  IN  Newest(found[form.end])

\* logMatchesForm
Matches(row, form, liveTail) ==
  form.trace \in {None, row.trace} /\ (liveTail \/ row.id <= form.end)

-----------------------------------------------------------------------------
(* Searches *)

Search(n, form, kind) == [n |-> n, form |-> form, kind |-> kind, doomed |-> FALSE]
Asking(v, form) == [v EXCEPT !.seq = @ + 1, !.status = "searching", !.asked = form, !.edited = FALSE]

\* The search and the reset button: runSearch up to its await, without a signal.
StartSearch(v, form) ==
  /\ v.seq < MaxSearches
  /\ view' = Asking(v, form)
  /\ calls' = calls \cup {Search(v.seq + 1, form, "user")}

\* The cleanup of the effect on [active, initialTraceID] aborts its search: one
\* that waits for its head ends silently, one that reads its body fails (EndOf).
Effects == {c \in calls : c.kind = "effect"}
Abort(next) ==
  \E reading \in SUBSET Effects :
    /\ {c \in Effects : c.doomed} \subseteq reading
    /\ calls' = (calls \ Effects) \cup {[c EXCEPT !.doomed = TRUE] : c \in reading} \cup next

\* Wrong: a page that already has an answer keeps it, whatever trace is asked for.
Shown_AnyTrace(v, trace) ==
  LET w == [v EXCEPT !.active = TRUE, !.initial = trace, !.edited = FALSE]
  IN  IF v.status = "ok" THEN view' = w /\ Abort({})
      ELSE /\ v.seq < MaxSearches
           /\ view' = Asking(w, DefaultForm(v, trace))
           /\ Abort({Search(v.seq + 1, DefaultForm(v, trace), "effect")})

\* The page comes on screen for this trace: it searches unless it has the answer.
\* The form on screen is left as it is.
Shown(v, trace) ==
  LET w == [v EXCEPT !.active = TRUE, !.initial = trace, !.prev = trace, !.edited = FALSE]
  IN  IF trace = v.prev /\ v.status = "ok" THEN view' = w /\ Abort({})
      ELSE /\ v.seq < MaxSearches
           /\ view' = Asking(w, DefaultForm(v, trace))
           /\ Abort({Search(v.seq + 1, DefaultForm(v, trace), "effect")})

\* The tab (no trace), or the jump from a trace.
Enter(trace) == Here /\ (view.active => trace = None /\ view.initial # None) /\ Shown(view, trace)
Leave == Here /\ view.active /\ view' = [view EXCEPT !.active = FALSE] /\ Abort({})

Disabled == view.status = "searching"
Edit(trace) ==
  /\ Here /\ view.active /\ ~Disabled /\ trace # view.form.trace
  /\ view' = [view EXCEPT !.form.trace = trace, !.edited = view.initial # None] /\ UNCHANGED calls
Submit == Here /\ view.active /\ ~Disabled /\ StartSearch(view, view.form)
Reset ==
  /\ Here /\ view.active /\ ~Disabled
  /\ LET f == DefaultForm(view, None)
     IN  StartSearch([view EXCEPT !.form = f], f)

\* The selection survives when it is found again; otherwise the newest log is selected.
Reselected(v, found) ==
  LET ids == {found[i].id : i \in DOMAIN found}
  IN  CASE ids = {} -> None
        [] v.selected \in ids -> v.selected
        [] OTHER -> found[1].id

\* Wrong: the detail pane keeps the log that was selected.
Succeeds_KeepsSelection(c, tail) ==
  /\ Here /\ ~c.doomed /\ calls' = calls \ {c}
  /\ view' = IF c.n # view.seq THEN view
             ELSE [view EXCEPT !.rows = Answer(c.form), !.of = c.form, !.status = "ok", !.tail = tail,
                               !.pending = <<>>, !.got = <<>>]

\* An answer.  tail: isLiveTail, whether the window ends at most 5 s before it.
Succeeds(c, tail) ==
  /\ Here /\ ~c.doomed /\ calls' = calls \ {c}
  /\ view' = IF c.n # view.seq THEN view
             ELSE [view EXCEPT !.rows = Answer(c.form), !.of = c.form, !.status = "ok", !.tail = tail,
                               !.pending = <<>>, !.got = <<>>, !.selected = Reselected(view, Answer(c.form))]

\* An error empties the table and the detail pane, but not the rows that wait.
Fails(c) ==
  /\ Here /\ calls' = calls \ {c}
  /\ view' = IF c.n # view.seq THEN view
             ELSE [view EXCEPT !.rows = <<>>, !.of = c.form, !.status = "error", !.got = <<>>, !.selected = None]

-----------------------------------------------------------------------------
(* Live rows and the reader *)

Write(trace) ==
  /\ Here /\ Len(view.logs) < MaxLogs
  /\ view' = [view EXCEPT !.logs = Append(@, trace)] /\ UNCHANGED calls

\* The stream's callback: the form is the one on screen, edited or not.
Receive ==
  /\ Here /\ view.sent < Len(view.logs) /\ UNCHANGED calls
  /\ LET row == Row(view, view.sent + 1, TRUE)
         v == [view EXCEPT !.sent = @ + 1]
     IN  view' = IF v.status = "error" \/ ~Matches(row, v.form, v.tail) THEN v
                 ELSE IF v.follow
                 THEN [v EXCEPT !.rows = PrependLiveLog(@, row), !.got = Append(@, row)]
                 ELSE [v EXCEPT !.pending = PrependLiveLog(@, row), !.got = Append(@, row)]

Synced(v) == [v EXCEPT !.follow = v.top /\ ~v.hover /\ v.pending = <<>>]
Scroll == Here /\ view.active /\ view.rows # <<>> /\ view' = Synced([view EXCEPT !.top = ~@]) /\ UNCHANGED calls
PointerEnter == Here /\ view.active /\ view' = [view EXCEPT !.hover = TRUE, !.follow = FALSE] /\ UNCHANGED calls
PointerLeave == Here /\ view.hover /\ view' = Synced([view EXCEPT !.hover = FALSE]) /\ UNCHANGED calls

\* The "N new" button: applyPending, scroll to the top, follow.
ShowPending ==
  /\ Here /\ view.active /\ view.pending # <<>> /\ UNCHANGED calls
  /\ view' = [view EXCEPT !.rows = FlushPendingLogs(@, view.pending), !.pending = <<>>,
                          !.hover = FALSE, !.top = TRUE, !.follow = TRUE]

\* What the page shows: an error, "searching" or the table.
Table(v) == IF v.status = "error" \/ (v.status = "searching" /\ v.rows = <<>>) THEN <<>> ELSE v.rows

\* A row, whose log the detail pane then shows.
Select(id) ==
  /\ Here /\ view.active /\ id \in {Table(view)[i].id : i \in DOMAIN Table(view)} \ {view.selected}
  /\ view' = [view EXCEPT !.selected = id] /\ UNCHANGED calls

\* The detail pane: a log, and the trace it can be left for.
Detail(v) ==
  IF v.selected = None THEN None ELSE [log |-> v.selected, openTrace |-> v.logs[v.selected]]

Init ==
  /\ \E trace \in Traces \cup {None} :
       view = [page |-> "logs", active |-> TRUE, initial |-> trace, prev |-> trace, form |-> Form(trace, 0),
               asked |-> Form(trace, 0), of |-> Form(trace, 0), rows |-> <<>>, status |-> "searching",
               seq |-> 1, tail |-> TRUE, pending |-> <<>>, follow |-> TRUE, hover |-> FALSE,
               top |-> TRUE, logs |-> <<>>, sent |-> 0, got |-> <<>>, selected |-> None, edited |-> FALSE]
  /\ calls = {Search(1, view.form, "effect")}

Next ==
  \/ Leave \/ Submit \/ Reset \/ Receive
  \/ \E id \in 1..MaxLogs : Select(id)
  \/ Scroll \/ PointerEnter \/ PointerLeave \/ ShowPending
  \/ \E trace \in Traces \cup {None} : Enter(trace) \/ Edit(trace) \/ Write(trace)
  \/ \E c \in calls : Fails(c) \/ \E tail \in BOOLEAN : Succeeds(c, tail)

-----------------------------------------------------------------------------
(* Properties *)

\* The search whose answer is wanted is under way.
Asked == \E c \in calls : c.n = view.seq /\ c.form = view.asked /\ ~c.doomed

\* The rows of an earlier search stay in the table, beside a form that is
\* disabled, only while the one last asked for is under way; no trace the page
\* was opened for goes unnoticed; once answered, the log in the detail pane is
\* one that search found or the stream added to it.
ShowsTheSelection ==
  /\ view.active /\ Table(view) # <<>> /\ view.of # view.asked => Disabled /\ Asked
  /\ view.active => view.prev = view.initial
  /\ view.status = "ok" /\ Detail(view) # None =>
       \/ Detail(view).log <= view.of.end /\ view.of.trace \in {None, Detail(view).openTrace}
       \/ \E i \in DOMAIN view.got : view.got[i].id = Detail(view).log

\* A page on screen that says "searching" has a search under way.
NeverStuck == view.status = "searching" /\ view.active => Asked

\* The latest Limit logs taken from the stream are in the table or wait behind
\* the button, newest on top, and a table that is followed has none waiting.
LosesNothing ==
  LET recent == {view.got[i] : i \in {j \in DOMAIN view.got : Len(view.got) - j < Limit}}
      shown == {view.rows[i] : i \in DOMAIN view.rows} \cup {view.pending[i] : i \in DOMAIN view.pending}
      InOrder(rows) == \A i, j \in DOMAIN rows :
        i < j /\ rows[j].live => rows[i].live /\ rows[i].id > rows[j].id
  IN  /\ recent \subseteq shown
      /\ view.follow => view.pending = <<>>
      /\ view.status = "ok" => InOrder(view.rows)

\* docs/logs.md:34: "the logs page opens already filtered to that trace": opened
\* from a trace, and as long as its user has not changed the form, the page
\* lists logs of that trace.
JumpIsFiltered ==
  view.status = "ok" /\ view.initial # None /\ view.asked.trace = view.initial /\ ~view.edited =>
    \A i \in DOMAIN Table(view) : Table(view)[i].trace = view.initial
=============================================================================
