------------------------------ MODULE TraceList ------------------------------
(***************************************************************************)
(* The traces page (web/src/search/TracesView.tsx) in the browser: its     *)
(* searches, the live stream that is merged into their result, follow mode *)
(* with its "N new" button, the trace page that covers the table, and the  *)
(* effect that searches when the page becomes the active one.              *)
(*                                                                         *)
(* JavaScript runs one handler at a time, so a handler is one action; an   *)
(* await ends it; the page is rendered before the next handler runs, so    *)
(* that refs set while rendering are up to date.  A row is stored before   *)
(* it is published (TraceIngest).                                          *)
(* The list limit is fixed and the load of the trace page is left out: of  *)
(* it only matters that the table is covered.                              *)
(*                                                                         *)
(* A definition whose name ends in an underscore and a few words is a      *)
(* wrong variant of the one after it.                                      *)
(***************************************************************************)
EXTENDS LiveRows, FiniteSets

CONSTANTS
  Traces,      \* trace ids, numbered by their timestamps
  Past,        \* the traces stored before the page is opened
  Forms,       \* what the search form may hold
  DefaultForm, \* defaultForm()
  Matches,     \* Matches[f]: traces the filters and the start of f let through
  Before,      \* Before[f]: traces whose timestamp is before the end of f
  EndsNow,     \* forms whose end is "now" when they are submitted
  Limit,       \* listLimit()
  MaxSearches, \* bound: calls of runSearch
  MaxWrites    \* bound: rows published by the server

ASSUME DefaultFormAssumption == DefaultForm \in Forms /\ DefaultForm \in EndsNow
ASSUME TracesAssumption == Traces \subseteq Nat
ASSUME PastAssumption == Past \subseteq Traces /\ IsFiniteSet(Past)
ASSUME LimitAssumption == Limit \in Nat \ {0}

VARIABLES
  stored,     \* the traces in ClickHouse
  writes,     \* rows published so far
  wire,       \* rows on their way through the WebSocket
  connected,  \* the WebSocket is open
  active,     \* the traces page is the visible one
  page,       \* a trace page covers the table (traceID is not empty)
  url,        \* the form in the URL, and whether a trace id is
  form,       \* formRef.current, the form as it is being edited
  seq,        \* seq.current
  searches,   \* calls of searchTraces that have not returned to runSearch
  status,     \* "idle", "searching", "ok" or "error"
  rows,       \* the table
  liveTail,   \* liveTailRef.current
  pending,    \* pendingRef.current
  follow,     \* followRef.current
  hover,      \* hoverRef.current
  over,       \* the pointer is over the table
  atTop,      \* the table is scrolled to its top
  shownBy,    \* history: the search whose answer the table started from
  heard       \* history: traces accepted from the stream since then

serverVars == <<stored, writes>>
streamVars == <<wire, connected>>
pageVars == <<active, page, url>>
searchVars == <<form, seq, searches>>
tableVars == <<status, rows, liveTail, pending, shownBy, heard>>
pointerVars == <<follow, hover, over, atTop>>
vars == <<serverVars, streamVars, pageVars, searchVars, tableVars, pointerVars>>

\* The table can be seen, and the form beside it used.
TableShown == active /\ ~page

-----------------------------------------------------------------------------
(* Searches *)

\* The n-th search, just sent.  byEffect: it can be aborted.
NewSearch(n, f, byEffect) ==
  [n |-> n, form |-> f, byEffect |-> byEffect, stage |-> "sent", answer |-> <<>>]

\* runSearch up to its await.
StartSearch(f, byEffect) ==
  /\ seq < MaxSearches
  /\ seq' = seq + 1
  /\ searches' = searches \cup {NewSearch(seq + 1, f, byEffect)}
  /\ status' = "searching"

\* A finite set of traces, newest first.
NewestFirst(traces) ==
  CHOOSE list \in [1..Cardinality(traces) -> traces] :
    \A i, j \in DOMAIN list : i < j => list[i] > list[j]

\* The newest traces that match, as the server sees them now.
Answer(f) ==
  LET hits == NewestFirst(stored \cap Matches[f] \cap Before[f])
  IN  FirstOf([i \in DOMAIN hits |-> [id |-> hits[i], at |-> 0]], Limit)

\* GET /api/traces is answered, or fails.
ServerAnswers(s) ==
  /\ s.stage = "sent"
  /\ \/ searches' = (searches \ {s}) \cup {[s EXCEPT !.stage = "ok", !.answer = Answer(s.form)]}
     \/ searches' = (searches \ {s}) \cup {[s EXCEPT !.stage = "error"]}
  /\ UNCHANGED <<serverVars, streamVars, pageVars, form, seq, tableVars, pointerVars>>

\* An answer that is not the last search's is thrown away.
Outdated(s) ==
  /\ s.stage # "sent"
  /\ s.n # seq
  /\ searches' = searches \ {s}
  /\ UNCHANGED <<serverVars, streamVars, pageVars, form, seq, tableVars, pointerVars>>

\* Wrong: the answer is shown whichever search it belongs to.
Succeeds_AnyAnswer(s) ==
  /\ s.stage = "ok"
  /\ searches' = searches \ {s}
  /\ rows' = s.answer
  /\ status' = "ok"
  /\ liveTail' \in (IF s.form \in EndsNow THEN BOOLEAN ELSE {FALSE})
  /\ pending' = <<>>
  /\ shownBy' = s.n
  /\ heard' = {}
  /\ UNCHANGED <<serverVars, streamVars, pageVars, form, seq, pointerVars>>

\* The table becomes the answer of the last search.  Whether its end is still
\* "now" is decided here, and a search may have taken long.
Succeeds(s) ==
  /\ s.stage = "ok"
  /\ s.n = seq
  /\ searches' = searches \ {s}
  /\ rows' = s.answer
  /\ status' = "ok"
  /\ liveTail' \in (IF s.form \in EndsNow THEN BOOLEAN ELSE {FALSE})
  /\ pending' = <<>>
  /\ shownBy' = s.n
  /\ heard' = {}
  /\ UNCHANGED <<serverVars, streamVars, pageVars, form, seq, pointerVars>>

\* The last search failed: no rows, an error.  Pending rows stay.
Fails(s) ==
  /\ s.stage = "error"
  /\ s.n = seq
  /\ searches' = searches \ {s}
  /\ rows' = <<>>
  /\ status' = "error"
  /\ UNCHANGED <<serverVars, streamVars, pageVars, form, seq, liveTail, pending, shownBy, heard,
                 pointerVars>>

\* The form is disabled while a search is on.
FormEnabled == TableShown /\ status # "searching"

Edit(f) ==
  /\ FormEnabled
  /\ f # form
  /\ form' = f
  /\ UNCHANGED <<serverVars, streamVars, pageVars, seq, searches, tableVars, pointerVars>>

\* The search button, and the reset button.
Submit(f) ==
  /\ FormEnabled
  /\ f \in {form, DefaultForm}
  /\ form' = f
  /\ StartSearch(f, FALSE)
  /\ url' = [form |-> f, trace |-> FALSE]
  /\ UNCHANGED <<serverVars, streamVars, active, page, rows, liveTail, pending, shownBy, heard,
                 pointerVars>>

-----------------------------------------------------------------------------
(* The effect on [active, reloadToken], and the trace page *)

\* The effect's body: the form comes from the URL; a trace id in it opens the
\* trace page, otherwise the page searches.  The URL is written with the trace
\* id the component had when it was rendered.
Reload(f, trace) ==
  /\ form' = f
  /\ page' = trace
  /\ url' = [form |-> f, trace |-> trace \/ page]
  /\ atTop' = (atTop \/ (page /\ ~trace))  \* a table that comes back is mounted anew
  /\ IF trace THEN UNCHANGED <<seq, searches, status>> ELSE StartSearch(f, TRUE)

\* Back to the page by its tab: nothing to do when it has a result.
ReturnToTab ==
  /\ ~active
  /\ active' = TRUE
  /\ IF status = "ok" THEN UNCHANGED <<page, url, atTop, form, seq, searches, status>>
     ELSE Reload(url.form, url.trace)
  /\ UNCHANGED <<serverVars, streamVars, rows, liveTail, pending, shownBy, heard, follow, hover, over>>

\* Another page links to a search or to a trace: it rewrites the URL and changes
\* reloadToken.
FollowLink(f, trace) ==
  /\ ~active
  /\ active' = TRUE
  /\ Reload(f, trace)
  /\ UNCHANGED <<serverVars, streamVars, rows, liveTail, pending, shownBy, heard, follow, hover, over>>

\* The page is left: by the rail, which takes the trace id out of the URL, or
\* from the trace page to logs or a service.  The effect's cleanup aborts the
\* search the effect started; one whose answer is in may still complete.
LeaveTab ==
  /\ active
  /\ ~over
  /\ active' = FALSE
  /\ \E gone \in SUBSET {s \in searches : s.byEffect} :
       /\ {s \in searches : s.byEffect /\ s.stage = "sent"} \subseteq gone
       /\ searches' = searches \ gone
  /\ \/ url' = [url EXCEPT !.trace = FALSE]
     \/ /\ page
        /\ \E f \in Forms : url' \in {url, [form |-> f, trace |-> FALSE]}
  /\ UNCHANGED <<serverVars, streamVars, page, form, seq, tableVars, pointerVars>>

\* A row of the table is clicked: the trace page covers the table, whose pane
\* is unmounted without a pointerleave.
OpenTrace ==
  /\ TableShown
  /\ status # "error"
  /\ rows # <<>>
  /\ page' = TRUE
  /\ url' = [form |-> form, trace |-> TRUE]
  /\ over' = FALSE
  /\ UNCHANGED <<serverVars, streamVars, active, searchVars, tableVars, follow, hover, atTop>>

\* Back: the table is mounted anew, at its top.
CloseTrace ==
  /\ active
  /\ page
  /\ page' = FALSE
  /\ url' = [form |-> form, trace |-> FALSE]
  /\ atTop' = TRUE
  /\ UNCHANGED <<serverVars, streamVars, active, searchVars, tableVars, follow, hover, over>>

-----------------------------------------------------------------------------
(* The live stream *)

\* A trace, or more of one, is stored and its row published.
Publish(t) ==
  /\ writes < MaxWrites
  /\ writes' = writes + 1
  /\ stored' = stored \cup {t}
  /\ wire' = IF connected THEN Append(wire, [id |-> t, at |-> writes + 1]) ELSE wire
  /\ UNCHANGED <<connected, pageVars, searchVars, tableVars, pointerVars>>

\* The socket closes: the client was too slow, or the server went away.
Disconnect ==
  /\ connected
  /\ connected' = FALSE
  /\ wire' = <<>>
  /\ UNCHANGED <<serverVars, pageVars, searchVars, tableVars, pointerVars>>

\* listenWebSocket tries again two seconds later.
Reconnect ==
  /\ ~connected
  /\ connected' = TRUE
  /\ UNCHANGED <<serverVars, wire, pageVars, searchVars, tableVars, pointerVars>>

\* rowMatchesForm with the form as it is being edited.
Accepted(row) ==
  /\ status # "error"
  /\ row.id \in Matches[form]
  /\ liveTail \/ row.id \in Before[form]

\* ingestLive
Ingest(row) ==
  /\ heard' = heard \cup {row.id}
  /\ \/ /\ follow
        /\ rows' = PrependLiveRow(rows, row, Limit)
        /\ UNCHANGED pending
     \/ /\ ~follow
        /\ pending' = PrependLiveRow(pending, row, Limit)
        /\ UNCHANGED rows

\* ws.onmessage
LiveRow ==
  /\ wire # <<>>
  /\ wire' = Tail(wire)
  /\ IF Accepted(Head(wire)) THEN Ingest(Head(wire)) ELSE UNCHANGED <<rows, pending, heard>>
  /\ UNCHANGED <<serverVars, connected, pageVars, searchVars, status, liveTail, shownBy, pointerVars>>

-----------------------------------------------------------------------------
(* Follow mode *)

\* syncFollow
SyncFollow(top, hovering) == follow' = (top /\ ~hovering /\ pending = <<>>)

PointerEnter ==
  /\ TableShown
  /\ ~over
  /\ over' = TRUE
  /\ hover' = TRUE
  /\ follow' = FALSE
  /\ UNCHANGED <<serverVars, streamVars, pageVars, searchVars, tableVars, atTop>>

PointerLeave ==
  /\ over
  /\ over' = FALSE
  /\ hover' = FALSE
  /\ SyncFollow(atTop, FALSE)
  /\ UNCHANGED <<serverVars, streamVars, pageVars, searchVars, tableVars, atTop>>

\* Wrong: scrolling away does not pause.
Scroll_WithoutSync ==
  /\ TableShown
  /\ rows # <<>>
  /\ atTop' = ~atTop
  /\ UNCHANGED <<serverVars, streamVars, pageVars, searchVars, tableVars, follow, hover, over>>

\* onScroll
Scroll ==
  /\ TableShown
  /\ rows # <<>> \/ ~atTop
  /\ atTop' = ~atTop
  /\ SyncFollow(atTop', hover)
  /\ UNCHANGED <<serverVars, streamVars, pageVars, searchVars, tableVars, hover, over>>

\* Wrong: the pending rows are forgotten.
ShowPending_Drops ==
  /\ TableShown
  /\ ~over
  /\ pending # <<>>
  /\ pending' = <<>>
  /\ hover' = FALSE
  /\ atTop' = TRUE
  /\ follow' = TRUE
  /\ UNCHANGED <<serverVars, streamVars, pageVars, searchVars, status, rows, liveTail, shownBy,
                 heard, over>>

\* The "N new" button, which is outside the table: pending rows go on top, the
\* table scrolls up and follow mode is on again.
ShowPending ==
  /\ TableShown
  /\ ~over
  /\ pending # <<>>
  /\ rows' = FlushPending(rows, pending, Limit)
  /\ pending' = <<>>
  /\ hover' = FALSE
  /\ atTop' = TRUE
  /\ follow' = TRUE
  /\ UNCHANGED <<serverVars, streamVars, pageVars, searchVars, status, liveTail, shownBy, heard, over>>

-----------------------------------------------------------------------------

\* The page has been mounted, by its URL or by a link, and its effect has run.
Init ==
  /\ stored = Past
  /\ writes = 0
  /\ wire = <<>>
  /\ connected = FALSE
  /\ active = TRUE
  /\ url \in [form : Forms, trace : BOOLEAN]
  /\ page = url.trace
  /\ form = url.form
  /\ IF url.trace
     THEN seq = 0 /\ searches = {} /\ status = "idle"
     ELSE seq = 1 /\ searches = {NewSearch(1, form, TRUE)} /\ status = "searching"
  /\ rows = <<>>
  /\ liveTail = TRUE
  /\ pending = <<>>
  /\ follow = TRUE
  /\ hover = FALSE
  /\ over = FALSE
  /\ atTop = TRUE
  /\ shownBy = 0
  /\ heard = {}

Next ==
  \/ \E s \in searches : ServerAnswers(s) \/ Outdated(s) \/ Succeeds(s) \/ Fails(s)
  \/ \E f \in Forms : Edit(f) \/ Submit(f) \/ (\E trace \in BOOLEAN : FollowLink(f, trace))
  \/ ReturnToTab \/ LeaveTab \/ OpenTrace \/ CloseTrace
  \/ \E t \in Traces : Publish(t)
  \/ Disconnect \/ Reconnect \/ LiveRow
  \/ PointerEnter \/ PointerLeave \/ Scroll \/ ShowPending

Spec == Init /\ [][Next]_vars

-----------------------------------------------------------------------------
(* Properties *)

Rows == [id : Traces, at : Nat]
Searches ==
  [n : Nat, form : Forms, byEffect : BOOLEAN, stage : {"sent", "ok", "error"}, answer : Seq(Rows)]

TypeOK ==
  /\ stored \subseteq Traces
  /\ writes \in Nat
  /\ wire \in Seq(Rows)
  /\ connected \in BOOLEAN
  /\ active \in BOOLEAN
  /\ page \in BOOLEAN
  /\ url \in [form : Forms, trace : BOOLEAN]
  /\ form \in Forms
  /\ seq \in Nat
  /\ searches \subseteq Searches
  /\ status \in {"idle", "searching", "ok", "error"}
  /\ rows \in Seq(Rows)
  /\ liveTail \in BOOLEAN
  /\ pending \in Seq(Rows)
  /\ follow \in BOOLEAN
  /\ hover \in BOOLEAN
  /\ over \in BOOLEAN
  /\ atTop \in BOOLEAN
  /\ shownBy \in Nat
  /\ heard \subseteq Traces
  /\ Len(rows) <= Limit /\ Len(pending) <= Limit

\* The table never shows the answer of a search that a later one has replaced,
\* in whatever order the server answers them.
TableIsLatestAnswer == status = "ok" => shownBy = seq

\* Rows appear in the order of arrival, above the search's: also the ones that
\* waited while follow mode was paused, and those yet to be shown.  A trace is
\* in the table once and waits once, although it comes both from searches and,
\* several times, from the stream.
NewestOnTop == Descending(pending \o rows) /\ Distinct(rows) /\ Distinct(pending)

\* While a result is shown, every row the stream brought since is in the table
\* or counted by "N new", unless a list is full.
NothingMissed ==
  status = "ok" =>
    \/ heard \subseteq Ids(rows) \cup Ids(pending)
    \/ Len(rows) = Limit
    \/ Len(pending) = Limit

\* A table that the reader has scrolled or points at does not move under them.
PausedTableIsStill ==
  [][TableShown /\ (over \/ ~atTop) /\ wire # <<>> /\ wire' = Tail(wire)
       => rows' = rows]_vars

\* docs/traces.md:50: "Back returns to the table without losing the search": a
\* table that says "searching" has a search under way.
BackKeepsSearch ==
  TableShown /\ status = "searching" => \E s \in searches : s.n = seq

\* docs/traces.md:10: "Filters stay in the URL so a search is shareable": the
\* URL of a table names no trace.
TableURLIsShareable == TableShown => ~url.trace
=============================================================================
