# Rasat in TLA+

Rasat receives OpenTelemetry traces and JSON logs, stores them in ClickHouse, and shows them in a
browser: searches, a trace page, and a live stream of what is being ingested. It is one Go process
(`cmd/rasat`) with an embedded single-page application (`web/src`). This directory is a verification
project for it: TLA+ modules translated from the source, TLC runs that check them on small instances,
and TLAPS proofs of the properties that matter most for every instance.

Contents: [components](#components) · [modules](#modules) · [runs](#runs-and-bounds) ·
[fairness](#fairness) · [proofs](#proofs) · [findings](#disagreements-found) ·
[not modelled](#what-is-not-modelled) · [plan](#plan)

`PROJECT.json` is the index: for every definition the lines it translates (`map`), for every property
a plausible mistake that breaks it (`mutants`), the hazards of the code with the properties that
cover them, and the theorems.

## Components

| component | source | state it keeps | operations | talks to |
|---|---|---|---|---|
| ingest | `internal/ingest`, `internal/logs` | none between requests | HTTP and gRPC OTLP export, JSON logs: decode, flatten, write, answer | store, hub |
| store | `internal/store` | ClickHouse tables `spans`, `span_events`, `span_links`, `logs`, views | `WriteTraceBatch`, `WriteLogBatch`, searches, `GetTrace`, metrics, `Migrate` | ClickHouse |
| live hub | `internal/stream/hub.go`, `http.go` | mutex, subscribers, a buffered channel each, `closed` | `Subscribe`, `Publish`, `Sub.Close`, `Hub.Close`, the WebSocket handler | ingest (producer), browsers |
| rate limit | `internal/stream/limit.go` | window start, count | `Allow` | ingest |
| live summary | `internal/stream/summary.go`, `after.go` | none | `SummarizeBatch`, `AfterWrite` | ingest, hub |
| trace analysis | `internal/store/get.go`, `criticalpath.go`, `bottlenecks.go` | none | assembly of a trace, critical path, self times | query |
| process | `internal/app` | `closeFns`, `stopCh`, `serveErr`, counters | `InitApp`, `Stop`, `Wait`, `Close` | all units |
| query API | `internal/query`, `internal/httpapi` | none | parse parameters, call the store, map errors to statuses | store |
| config | `internal/config` | none after the start | parse the environment | all |
| traces page | `web/src/search/TracesView.tsx`, `live.ts` | table, pending rows, follow mode, URL, opened trace | search, live rows, hover, scroll, open a trace | query API, WebSocket |
| trace inspector, dock | `SpanInspector.tsx`, `Waterfall.tsx`, `layout.ts` | selected span, tab, logs of the span; height of the dock | load, select, drag, toggle | traces page, query API |
| overview | `OverviewView.tsx` | range, window, answers | range, slide every 15 s, silent refresh | query API, feed |
| activity feed | `ActivityFeed.tsx` | rows, pending rows, follow mode | hydrate, 5 s poll, live rows | query API, WebSocket |
| services page | `ServicesView.tsx` | window, list, selection, dashboard | list, three calls in a row per dashboard, 15 s timer | query API |
| logs page | `LogsView.tsx` | form, table, pending rows, selection | search, live rows, jump from a trace | query API, WebSocket |
| service map | `MapView.tsx`, `mapLayout.ts` | graph, percentiles, mode, selection | load, poll while empty, lay out, highlight | query API |
| charts | `DashChart.tsx`, `chart.ts` | the plot and what it was built from | build, hand data, rebuild, tip | overview, services |
| search form | `SearchForm.tsx`, the pickers, `query.ts`, `format.ts` | form, menus | type, choose, load names; windows and query strings | traces and logs pages |
| frame | `App.tsx`, `chrome/`, `theme.ts` | page shown, pages mounted, trace in the URL, theme | tabs, jumps between pages, reload | all pages |
| seed and bench | `internal/seed`, `internal/bench`, two commands | worker counters | generate load | ingest from outside |

How they interact. A request goroutine flattens an export, inserts its rows into up to three tables,
one insert after the other and without a transaction, and only then summarises the batch and hands a
row per trace to the hub (`AfterWrite`); then it answers. The hub never waits: a subscriber whose
buffer is full is dropped. Each browser has one WebSocket handler with one subscriber. Searches and
trace loads read the tables while inserts are under way. The process closes its units in the reverse
of their start under one deadline, and the hub's closing is what ends the WebSocket connections,
which the HTTP server no longer knows.

What is hard, and what correctness means there:

- **hub**: `Publish`, its later drop of slow subscribers, a handler's `Close` and `Hub.Close` run
  concurrently and each may close the same channel. No send on a closed channel, no double close, no
  slot lost, no gap in what a client sees without its stream ending, and no slow client that stays.
- **rate limit**: the clock is read before the mutex is taken. How far may the rate exceed the limit,
  and is an event ever refused without reason?
- **ingest**: partial failure over three tables, inserts that report an error but were applied,
  retries, cancelled requests, crashes between any two steps. An acknowledged batch is stored, a live
  row can be opened, a trace read after that is whole.
- **process**: failing starts, servers that fail while `Stop` is called, requests that hang past the
  deadline. Units close in reverse, once, nothing runs against a closed store, failures are reported,
  and the process ends.
- **traces page**: overlapping searches, aborts, live rows arriving during a search, while the reader
  points at the table, scrolls or reads a trace; links and Back. No stale answer, no row lost,
  duplicated or out of order, no table that moves under the reader, a URL that says what is shown.
- **trace analysis**: cycles, orphans, overlapping and clock-skewed spans, rows doubled by retries;
  the same tree is built in Go twice and in the browser once, the same summary in Go and in SQL.
- **query, config**: mostly parsing; boundaries of windows and limits.
- **other pages**: every page loads, polls on a timer, aborts when it is left, and comes back with the
  state it had. An answer may come after what was asked for has changed, a call may be aborted by its
  page or by its own 15 s timer, before or after the response's head; a page that says "loading" must
  have a call that will end it; live lists share the traces page's hazards and add a hydration that is
  followed by a subscription.
- **service map**: a layout of any graph, with cycles and calls to services the answer lacks, that fits
  the canvas, without overlap, in the order of calls.
- **dock, charts, pickers**: small machines of gestures and effects whose refs and captured values go
  stale.

`PROJECT.json` lists the hazards one by one, at their lines.

## Modules

Naming: a definition whose name ends in an underscore and a few words, such as
`Publish_SkipsSlow`, is not part of a model. It is a wrong variant of the definition that follows it,
kept so that it can be seen which property notices that mistake.

**LiveFanout** - the promise to viewers of the live stream, without locks, buffers or goroutines:
rows reach all viewers in one order; a viewer is handed a row or starts to lag; a lagging viewer gets
nothing more and its stream ends.

**StreamHub** - `Hub[T]` and `ServeHTTP`. One action per critical section of `Hub.mu` and per channel
receive: `Publish` (the loop under the lock), `DropSlow` (one drop after the unlock; `full[p]` is the
slice of slow subscribers collected before), `Unsubscribe`, `CloseHub`, `Subscribe`, and the
handler's steps: upgrade, receive, write, a cancelled context, a closed channel. `subs`, `closed`,
`ch` are the hub's fields; `conn[c]` is where the handler of connection `c` is. A receive takes no
lock and commutes with the publish loop, which visits each channel once; that is why the loop is one
action. `since`, `delivered` and `published` are history. The refinement mapping to `LiveFanout`
calls a connection *live* while it is registered, *lagging* once a publisher has found it slow.

**RateLimit** - `Allow` as two actions, `ReadClock` and the critical section `Allow`; `admitted`
records when it said yes. Time is integer ticks, `Second` of them in a second.

**TraceIngest** - the write path and a reader. An exporter sends a batch (`Send`), a handler inserts
table by table (`InsertOk`, `InsertFails`, `InsertLost`: applied, but reported as failed), publishes
the live rows, answers; the client may give up at any time, the process may crash at any time, and
what was not acknowledged may be sent again. `GetTrace` is three separate SELECTs. A batch is
identified by itself; its content is the list of tables it has rows for. The reader's time window and
the limits on spans, events and links (`get.go:138-192`) are left out, so that what is said of a read is
said of the rows these admit.

**AppLifecycle** - `InitApp`, `Wait`, `Close`, `drainServeErr` and `Stop` with both servers. The unit
list and which units have a `CloseFn` are those of `DefaultUnits`. `serveErr` is the channel with its
four slots, `serveCount` and `serveTaken` the fields that decide how many results are still to come.
`http.Server.Shutdown`, `grpc.Server.GracefulStop` and `Stop` are external and modelled by what the
units rely on: they stop accepting and wait for requests. At the deadline HTTP's `Shutdown` gives up
and returns (`MayClose`); the gRPC unit calls `Stop`, which cancels the contexts of its handlers, and
then still waits for `GracefulStop`, hence for the handlers (`grpc.go:89-92`).

**LiveRows** - `prependLiveRow` and `flushPending` of `live.ts` as operators on lists.
**TraceList** - `TracesView.tsx` with `App.tsx`'s navigation. A JavaScript handler is one action, an
`await` ends it: `StartSearch`/`Submit`/`Reload`, then `ServerAnswers`, then `Succeeds`, `Fails` or
`Outdated` (the sequence number has moved on). `LiveRow` is the WebSocket message, with the form
filter, follow mode, hover and the trace page deciding between table and pending list. It is assumed
that React renders before the next handler runs, so that refs which are set during rendering are up to
date.

**TraceAnalysis** - operators: `FlattenTraces`, `SummarizeBatch` with `betterRoot`, the search's
aggregate (`SearchRows`), `criticalPath`, `coverNs`, `rankBottlenecks`, `assembleTrace`. **Waterfall** -
`layoutWaterfall`. **TraceView** - a small machine that composes them: an exporter fills a request, it
is flattened and stored (`Store`), perhaps again, and at any moment a reader loads the trace's page
(`Load`: the answer and its waterfall) or loads it again. Two rows with the same
timestamp and span id keep the order of arrival in the SELECT; ClickHouse may choose another, but
every order of arrival is enumerated.

**The pages of the web UI.** A page is a React component that is mounted once and stays. Its module has
two variables: `view`, a record of the component's state, its refs and whatever part of the URL, of the
server or of history its properties need, and `calls`, the calls of the query API it has under way. A
handler, an effect or the code after an `await` is one action; a change of state that re-runs an effect
has the effect (and the cleanup of the one before) in the same action. The wall clock is a counter of
windows, later ones larger. Pages do not read each other's state, so each has its own initial states
and its own `Next`; **WebPages** puts them together, with the properties, as one page per behaviour, and
holds the inputs of the pure functions as further initial states.

- **Fetch** - `fetchJSON`: how a call may end, given who aborted it and whether its head had arrived.
- **OverviewPage** - the load of four answers, its silent refresh, the 15 s timer, the range buttons,
  leaving and returning. **ActivityFeed** - hydration, poll, stream, follow mode, with `LiveRows`.
- **ServicesPage** - the list and the dashboard's chain of three calls, the timer that waits for the
  list, selection, focus from another page, the URL, every way out.
- **LogsPage** - searches, jumps from a trace, live rows (not de-duplicated, as a log has no id), follow
  mode, selection and the detail pane.
- **MapPage** - loads, the poll, selection and modes. **MapLayout** - `layoutMap` as operators: columns,
  rows, canvas, label places, and which boxes and lines `MapView` dims. Lengths are 24ths of a pixel, so
  that halves, thirds and quarters are exact. Any list of nodes may come that names a service once, which
  is what the server's GROUP BY sends, with any list of edges. **Common** - `Math.max`, `Math.min` and
  `filter`, for the modules that compute.
- **TracePage** - opening a trace from the table or by a link, going back, leaving; the inspector's tabs
  and its logs. **InsightDock** - the dock under the waterfall, in pixels, with the code's constants.
- **DashChart** - when a plot is built, given data, rebuilt and torn down. **Pickers** - the two menus and
  their loads.
- **QueryWindow** - `query.ts`: the window a trace is asked for with, the sliding window, the halves the
  overview compares, and the query strings. **Format** - `format.ts` and the ticks of an axis: a text is
  the number it says. **Dashboards** - what overview and services compute from an answer: fleet numbers,
  tables, chart series, the colour of a feed row.
- **AppShell** - `App.tsx`, the tabs and the theme: which page is shown, what one hands to another, the
  trace in the URL, a reload.

`MCStreamHub`, `MCRateLimit`, `MCTraceIngest`, `MCTraceList`, `MCTraceView` and `MCWebPages` give the
constants values for TLC; `AppLifecycle` is run directly. `StreamHubProofs`, `RateLimitProofs`,
`TraceIngestProofs`, `AppLifecycleProofs`, `LiveRowsProofs`, `TraceListProofs`, `TraceViewProofs` and
`WebPagesProofs` hold the proofs.
The compositions are: hub and WebSocket handlers; both servers, requests and streams under the
lifecycle; writers, exporters and readers around the tables; searches and stream around the table of
the page; flattening, storage, analysis and layout around one trace. `WebPages` starts one page of the
web UI per behaviour, since pages meet only through the URL and the frame, which is a page of its own there.

## Runs and bounds

| run | question | bounds and why they are enough |
|---|---|---|
| `hub_safety` | Can a channel be closed twice or sent to after closing, a slot be lost, a client see a gap? Does the hub implement `LiveFanout`? | Two publishers (a drop collected by one races the other's publish), three connections for two slots, buffer 1 so that slowness needs one row, 3 rows so that a client can lag, lose one and be offered another. |
| `hub_liveness` | Do handlers end, are slow clients removed? | Two connections, two publishers, two rows, no symmetry. |
| `ratelimit` | What does the limit guarantee? | Three callers, N = 2, 3 ticks a second, 8 ticks: two windows and two thirds of a third, and callers delayed over more than one window. |
| `ingest` | Is an acknowledged, or live, batch stored and readable? | An export with all three tables sent up to twice, a log batch, one export over the span limit; two handlers, one reader, one crash. Two copies suffice to tell "once per attempt" from more. |
| `lifecycle` | Does the process start and end in order? | Two HTTP requests, one RPC, one live stream, two callers of `Stop`; both servers may fail. No bound on the steps. |
| `tracelist` | Does the table show what it should? | Three traces, two of them stored before; list limit 2, so that lists overflow; two searches (one can overtake the other), two live rows, a live form and a historical one. |
| `tracelist_back`, `tracelist_url` | Two promises of the documentation that do not hold, see below. | The instance of `tracelist`. |
| `traceview` | Do path, bottlenecks, waterfall and live row agree with their definitions? | All requests of up to four of 13 spans: self-parent, 2-cycle, orphan, overlapping, touching, sticking-out and empty intervals, an inverted span, one without id, another trace. Three spans suffice for each shape of the merge in `coverNs` (merge, gap, containment) under a parent. Limits of 3 spans a request and 6 a trace are both reached. |
| `webpages` | Does a page ever show an answer to something else than what is selected, get stuck, or lose a live row? Are map, windows, numbers and URLs what they should be? | 978,195 distinct states, about three minutes. Two services, traces or spans (one to leave for the other); as many windows, loads or searches as it takes for one call to be overtaken, and for the next to be overtaken or aborted in turn (2 to 4, per page); three live rows for lists of two; the dock with a pane shorter and one taller than its content and four gestures; the map with all subsets of ten edges between four services (chains, cycles, self-calls, a missing service) on a canvas that fits and one that does not; windows on both sides of the largest one; numbers around every power of ten at which a format changes. |
| `logs_filter`, `trace_stuck` | Two promises of the documentation that do not hold, see below. | The logs page, and the traces page, of `webpages` alone. |

What the properties say is in a comment above each. In short:

- hub: `RegisteredIffOpen` (the panic-freedom argument), `SlotsBelongToHandlers`,
  `GaplessUntilDropped`, `ImplementsFanout`; `CloseEndsHandlers`, `SlowClientIsDisconnected`.
- rate: `LongRunRate` (N per second begun since the start, with any delays), `BurstBound` (2N-1 in any
  second as long as no caller is delayed), `NoNeedlessRefusal`.
- ingest: `AckedIsStored`, `LiveIsStored`, `CopiesComeFromAttempts` (no more copies than attempts, none
  in a table without the one before it, none of a refused batch), `ReadAfterAckIsComplete`.
- process: `ClosedInReverse` (with: nothing left and no stream served when the process exits),
  `StoreOutlivesRequests`, `ServerFailureIsReported`, `StopTerminates`.
- traces page: `TableIsLatestAnswer`, `NewestOnTop` (with: no trace twice), `NothingMissed`,
  `PausedTableIsStill`.
- trace page: `LiveRowIsSearchRow`, `PathIsTheWaitChain`, `BottlenecksWorkAlone` (against a count of
  the moments in which a span works alone), `WaterfallShowsTheTree`, `RetryChangesNothing`.

- pages: `PagesShowTheSelection`, `PagesNeverStuck`, `LiveListsLoseNothing`, `MapIsReadable` (boxes and
  labels apart and on the canvas, callers before callees, lines that meet their boxes),
  `SearchesKeepTheirWindow`, `DashboardsAgree` (numbers on different cards, charts and lists, and in
  different units, agree), `ChoicesAreKept`. Each is a conjunction of one property per page, stated in
  the page's module as `ShowsTheSelection`, `NeverStuck`, `LosesNothing` and so on.

A property that is a conjunction has more wrong variants in the modules than `PROJECT.json` names, one
or more for each conjunct; every one of them, put in the place of the definition after it, is rejected
by TLC under the run that checks the property.

Deadlock is not checked where the model may stop: requests, publishes and searches are bounded, a
process ends, and an exporter has nothing more to send. That nothing stops too early is the business
of the liveness properties.

Limits of what is shown. `NothingMissed` begins when a search completes: rows that arrive between
the server's snapshot and the completion are in neither (`setRows` and `clearPending` discard them),
and nothing in the code replaces them, so no property says otherwise. Neither are rows published while
a WebSocket is down. And `RetryChangesNothing` speaks of a trace that can still be read: doubled rows
reach `maxTraceSpans` at half the size, and copies of a bottleneck take two of the five places. That
`Publish` does not block is not a property of any run: its sends are guarded by a test of the channel's
room under the lock (`hub.go:126-134`), and `TypeOK` says that no channel holds more than its buffer.

The properties of the pages say what the code promises, and these are the places where that is less than
a reader may expect:

- `PagesShowTheSelection`: numbers, causes, operations and rows of the service, range or search *before*
  stay on screen, often without the word "loading", until the answer for the selection comes. The
  property says that they do so only while the call that brings that answer, or its failure, is under
  way. A chart that has no size when its last data come is built from the data before, and keeps them
  until the next come (`missed` in `DashChart`): nothing replaces them sooner.
- `PagesNeverStuck`: the traces page can get stuck, in two ways, which are the findings `trace_stuck` and
  `tracelist_back`. The property is about every other page, and about a trace whose page is not left
  before the answer's head.
- `SearchesKeepTheirWindow`: a window always reaches to now and is cut at its start to the largest size, so
  that a row older than that is outside, and its trace is not found (`query.ts:45-50`). The property
  says that the row is inside when now, the form's end and the row's own end are all less than the
  largest window after it.
- `ChoicesAreKept`: with storage blocked, no choice of a theme is known once it is made (`theme.ts:55-59`);
  nothing is said of that browser. Nor does it say that a trace named in the URL of the traces page is the
  one on screen; that is `TableURLIsShareable`, which does not hold.

## Fairness

- `hub_liveness` (`FairSpec` of `StreamHub`) assumes weak fairness of `DropSlow` for each publisher: the
  goroutine is running ingest code that does not block there, and the Go scheduler runs it; and weak
  fairness of each handler's own step: its `select` is ready, or its write returns because `http.go` puts
  a deadline on it. Nothing is assumed of clients.
- `lifecycle` assumes that the main goroutine takes the steps it can, that a `Serve` call returns
  after shutdown, that a handler whose channel is closed returns, and that time passes (`Expire`). HTTP
  requests may hang for ever, and so may RPCs as long as nobody cancels them. An RPC whose context `Stop`
  has cancelled ends: `Export` hands its context to the insert (`internal/ingest/http.go:151-153`), which
  returns when it is cancelled. Without this last assumption the process need not end, because the gRPC
  unit waits for its handlers even after the deadline. That anybody calls `Stop` is not assumed.
- The other runs check safety and need none. In particular nothing makes a server answer a browser:
  `PagesNeverStuck` says that the call which would end the waiting is under way, which needs no
  fairness, and not that it ends.

## Proofs

TLAPS checks every step; assumptions are only those of the modules: `MaxClients`, `Buffer`, `N`,
`Second` and the limits of lists are positive naturals; there are finitely many handlers of writes, there
is a batch, and its tables are in the order in which the code writes them; the largest window, the slack
and the default one are whole numbers of seconds, the first two in that order. For `TraceView`, offered
spans are records whose times are natural numbers and whose ids, services and statuses are integers. For
`TraceList`, traces
are numbers and finitely many of them were stored before. For `WebPages`, null is neither a name nor a
record of a window, a chart has a list of buckets, heights are whole, and the inputs of the pure
functions are of the kind those take: a form in whole seconds with one clicked row at most, a form with
all its fields. Connections, publishers, callers, readers, requests, streams, traces, services, names,
ranges, forms and texts are arbitrary sets, and the bounds of the runs (`MaxSearches` and its like)
arbitrary too.

**StreamHubProofs.** The inductive invariant is
`HubInv == TypeOK /\ RegisteredIffOpen /\ SlotsBelongToHandlers /\ IsFiniteSet(subs) /\
NotSubscribedYet /\ HandsEmpty /\ SinceIsPast /\ GaplessUntilDropped`.
`RegisteredIffOpen` and the slots are inductive with the types: `Drop` tests membership under the lock,
which is what makes the second drop of a subscriber harmless. `GaplessUntilDropped` is not inductive:
a publish must know that a subscriber it can send to has received everything so far, which needs that
a handler holds at most the row it has just taken (`HandsEmpty`), that a fresh connection has nothing
(`NotSubscribedYet`) and that it subscribed in the past (`SinceIsPast`). The argument of the key step:
a publish either extends what a subscriber received by exactly the next row, or condemns it; nobody is
pardoned except by being dropped. Theorems: `TypeCorrect`, `NeverSendsOnClosed`, `SlotsAreBounded`,
`NoGaps`, and `HubImplementsFanout`, where each hub action is shown to be the abstract join,
broadcast, end, stop or a stutter under `HubInv`.

**RateLimitProofs.** `LimitInv == TypeOK /\ Budget /\ NotInTheFuture /\ UsedIsTheTail`. `LongRunRate` is
not inductive, because it does not mention the window. `Budget` does: all admissions so far are at
most N for each second that began before the current window did, plus the window's own count; a new
window opens in a later second (`NotInTheFuture` and the arithmetic lemmas), which gives
`LongRunRateHolds`. `UsedIsTheTail` says that the events the counter stands for are the latest and not
older than the window, which gives `NeverStarves`. `BurstsAreBounded` needs, as long as nobody was
delayed, `Spacing` (an event with N others before the current window's first one lies a second or more
before that window) and its consequence `FarApart` (so do two events with 2N-2 between them).
`LimitTypeCorrect` is the typing.

**TraceIngestProofs.** What an exporter was told, or the live stream shows, is known at a moment when
the handler is past its last insert, so the strengthening follows the handler: one that has come to
table *i* has written the tables before it (`HandlersOnTrack`), and what is acknowledged or live is
written whole (`AckedIsWritten`); rows never leave ClickHouse. `ReadAfterAckIsComplete` needs in
addition that what a reader knew when it began was stored by then (`KnownIsStored`), and that each of
its three SELECTs has found it (`ReadsAreComplete`), however many inserts run between them. For
`CopiesComeFromAttempts` copies are counted: an insert that a handler still has to do was paid for by a
send (`Paid`, a cardinality argument over the handlers), what no handler works on is not touched
(`Untouched`), and only oversized batches are refused (`RefusedIsOversized`).

**AppLifecycleProofs.** What is up is the stack of CloseFns plus the unit that is closing, in the order
of the units (`UpIsTheStack`, `InitIsInOrder`), hence the store is up as long as anything is, and a
request runs only on a server that is (`RunningOnServers`): `RequestsHaveAStore`. What is no longer on
the stack is in the log, counted against how many units have come up (`LogIsTheRest`), and an open
stream has its hub (`SocketsHaveTheHub`): `UnitsCloseInReverse`. A server that has closed has no request
left, but for HTTP after the deadline, which is what `RequestsHaveAStore` adds for the time after the
store. Every result of a `Serve` goroutine is
in the channel or was received, and an error among them is in the channel or in `waitErr`
(`EveryResultCounts`, with `ServersInOrder` for the phases): when as many were received as servers were
started, none runs and no error went unseen, `WaitReportsFailures`.

**LiveRowsProofs.** What `prependLiveRow` and `flushPending` make of a list, for every list, row and
limit: what is in it, in which order, once each, how long it is, and which rows are cut. `flushPending`
is a loop, modelled as a function on 0..n whose every value is made of the one before. That there is such
a function, and what holds after every round, is induction on the round. The library's induction theorems
take an operator that the provers cannot instantiate; the lemmas `Rounds` and `LoopIsDefined` speak of
sets instead (the rounds for which something holds), and rest on the least element of a set of numbers,
which `WellFoundedInduction` states without an operator. The folds of the community modules, with which
`TraceAnalysis`, `Waterfall` and `MapLayout` write their loops, become such functions by `FoldLoop`.

**TraceListProofs.** `TableIsLatestAnswer` is inductive. `PausedTableIsStill` is not: follow mode is a
flag of its own, kept while the table is covered or its page hidden. It is never set under a scrolled
table or a pointer (`FollowIsHonest`), which needs that a pointer counted as over the table entered it
while it could be seen (`OverIsSeen`). `NewestAlwaysOnTop` and `NothingIsMissed` share `ListInv`: the
stream keeps the order in which rows were published, so that a row just taken is newer than any in the
table or among those that wait, and older than any still on the wire (`StreamOrder`); an answer is a list
without doubles, not longer than the limit and without live rows (`AnswersAreLists`); and a table that
follows has nothing waiting (`FollowHasNone`), so that merging the two keeps the newest on top. The
typing (`TableTypes`) holds the bound on both lists.

**TraceViewProofs.** The state is small and the operators are what there is to prove about: the inductive
invariant `IInv` says that the request is made of offered spans, that the table holds what their batch
was flattened to, as often as it was stored and in the order of the SELECT, and that a page is
`AssembleTrace` of the spans it was read with, and its rows `LayoutWaterfall` of these. Every property
then is a statement about an operator, for lists of any length. The operators are folds over lists;
`FoldLoop` turns a fold into a sequence f with f[0] the start and f[i] what round i makes of f[i - 1],
each operator has a lemma that does so for it (`OnlyLoop`, `SortedLoop`, `CriticalPathLoop`, `WalkLoop`,
`MergedLoop`, ...), and the lemmas after it are inductions on the round in the way of `LiveRowsProofs`:

- Lists. What a filter keeps, with the places it took them from (`OnlyPicks`); that the insertion sort is a
  permutation, in order, and keeps the number of elements of each kind (`SortedIs`, `SortedInLine`,
  `SortedCounts`).
- `TraceViewTypes` rests on these and on `FlattenIs`: a batch has valid spans only, and not more than the
  cap. `LiveRowsAgree`: `betterRoot`'s loop finds a span that is at least as good a root as every other
  (`PickRootIs`), and the rest of the row are aggregates of a set, which sorting and storing leave alone.
- `PathWaits`: `pickLatestEnd` finds the span that ends last (`LatestIs`), and every round either adds a
  span whose id the path lacks, or changes nothing for ever after. There are as many rounds as spans, so
  the last round changes nothing, and this is the end of the chain.
- `WaterfallIsTheTree`: `walk` is a stack machine in the model, and the rounds have to suffice. The work left
  is the length of the stack plus the children that no row has been made for yet; each visit makes it less
  (`VisitWorks`), and at the start it is at most two for each span. The invariant of the walk (`Walking`)
  says that a row on the stack lies under the last row one level up and that what has a row has its
  children in rows or on the stack, so that an empty stack leaves no child of a row behind. What no root
  leads to is walked next. The critical path is a branch of it since each of its steps is a child of the
  one before.
- `BottlenecksAreReal`: after each round of the merge, what is counted plus the open interval is the
  number of moments that the intervals seen so far cover (`MergedCard`); clipping loses no moment of the
  parent (`CoverIs`). The list is the front of a sorted list, so that what is left out is not larger, and
  counting it is a matter of `SortedCounts`.
- `RetryIsHarmless` compares two runs of every algorithm, on the rows a page was read from and on those it
  is read from next. `IInv` does not say how the two differ; `RInv` does, and is inductive with it. What a
  retry adds to the table is behind what it is a copy of (`WithCopies`, from `OrderedWithCopies`: the sort
  puts a row behind those it is tied with), and of several versions of a span that start together the
  one that was sent last comes last, before a retry and after it (`Lasts`, from `SortedIsStable`). The first
  is what the path needs, which prefers the first of equals (`PathOfCopies`), the second what its length
  needs, for which a map from ids to spans keeps the last (`ByIDOfCopies`). Each keeps the order of the
  ranking: a list with copies has the same front or a part of it (`RankOfCopies`). The walk of the
  waterfall over more spans does the same visits with some that skip in between; `Trails` relates the
  stacks: what the longer one has in addition is an id that has its row, or is before it on the stack
  (`VisitTrails`, `WalkOfCopies`).

**WebPagesProofs.** `PagesInv` says that the page on screen keeps its own invariant; it
is shown page by page, and `PagesAreSound` puts the ten together. The typing of a page is part of its
invariant. The rest is in each case the strengthening that the page's properties need:

- Loading pages. That what comes before the answer is on screen only while its replacement is under way
  is not kept by an answer, unless one knows which calls may still write, and at which stage they are. On
  the services page a chain that was aborted reads a body, and can fail in it and go on as a stray one;
  it counts as the latest only when nothing is selected. Any other is that of the selection on screen,
  and the dashboard holds of another service or window only what it has still to bring
  (`ChainsInOrder`, `ChainIsCurrent`, `DashIsCurrent`). On the overview the calls of the latest load are for
  the range and window on screen, and silent only while the page is not loading, and a status of `ok` is
  one over numbers of that range (`LatestLoad`, `NumbersOfRange`). The map asks for percentiles only of the graph it shows (`GraphComesFirst`); a call
  for a trace is for the one opened last, and the logs of a span are those on screen or have their call
  (`OpenedIsAsked`, `LogsAreOfSpan`); a search of the logs that was not aborted is for the form last asked
  for; a call for names is for what its menu has to offer now (`CallsAreWanted`); what a chart captured is
  of the theme and lines on screen (`Captured`, `Plotted`). `SelectionIsShown` follows, and
  `NoPageIsStuck` with the other half: while a page waits, its latest call is among those.
- Live lists. `LiveListsLoseNothing` counts the rows that have come since one did. Both lists, the
  waiting rows on top, count as one; every step moves a row down in it by one place at most (`FeedHolds`,
  `LogHolds`), or merges the two, which moves none. For the feed, where a row replaces the one of its
  trace, that needs lists in the order of time and without doubles (`FeedOrder`), and that an empty list
  has received nothing, so that a late answer replaces no row (`FeedFollows`); for the logs it needs that
  the live ones are on top and which search the others came from (`LogOrder`, `LogSearch`,
  `LogsKnown`). `NoRowIsLost`.
- Choices. The height the dock was left with is in its height while it is open and at rest, in `lastH`
  while it is closed, and in one of `lastH` and the drag's own record during a drag (`HeightIsKept`);
  what the frame keeps is inductive with its typing. `ChoicesStay`.
- Windows and URLs: theorems about operators, for all integers and all texts. The window that a trace is
  asked for with is one the server takes, ends after its row, and holds it if that is no older than the
  largest window (`RowWindowIsLegal`, `FormWindowIsLegal`), and the overview's halves
  are halves (`HalvesOfAWindow`). That dropping the milliseconds of both ends does not make a window of the largest size larger is a matter of parity, and holds for a form in whole
  seconds, which is what its fields hold. A search written to the URL and read back asks for the same
  (`SearchSurvivesURL`). `WindowsAreKept` states this of the inputs of `WebPages`.
- The service map, for graphs of any size and shape and any pane: `MapStaysReadable`. The invariant of the
  breadth-first walk (`Search`, kept by a turn of the loop: `TurnKeeps`) says that what has a column was
  called from the column before or called by nobody, and that all it calls has a column or is on the
  frontier. That the bound on the number of turns never cuts the walk needs that every turn that leaves a
  frontier has placed a service (`Grows`): after as many turns as there are services nothing is left. A
  column is then the distance from a service nobody calls (`CallersFirst`). Boxes and labels are
  arithmetic (`LayoutIsReadable`): no column is higher than the highest, two boxes of a column have
  different places in it, and the gaps take no more than the free space, divisions included.

Only model-checked: all liveness (TLAPS has no ENABLED) and `DashboardsAgree`, which compares numbers of
`Dashboards` and `Format` by how they round in each of many units. The four runs that expect a violation
have nothing to be proved.

## Disagreements found

- `tracelist_back`: `docs/traces.md:50` says that Back returns to the table without losing the search.
  Leave the page while it searches (the search is aborted, the status stays `searching`), return by a
  link to a trace, press Back: the table says it is searching, the form is disabled, nothing runs.
- `tracelist_url`: `docs/traces.md:10` says that a search is shareable by its URL. A link to a search,
  followed while the hidden page has a trace open, writes that trace's id into the URL of the table,
  because `runSearch` sees the `traceID` of the render it belongs to.
- `logs_filter`: `docs/logs.md:34` says that a jump from a trace opens the logs page filtered to that
  trace, and `docs/logs.md:28` that matching logs are prepended. A page that is mounted already searches
  for the trace and leaves the form on screen as it was, and the stream is matched against that form. In
  the run the page is mounted by its tab, jumped to for a trace, answered, and nobody touches the form:
  the next log of the stream, of no trace, is put on top.
- `trace_stuck`: `docs/overview.md:44` says that a click on a row of the feed opens its waterfall. A page
  whose search is answered is left, entered by such a link to a trace, left before the trace's head and
  entered again by its tab: it says "loading" and no call is under way. The abort was silent
  (`TracesView.tsx:142-144`), and the effect leaves a page with status `ok` as it is (158-160).

Smaller ones were met while modelling. They are in the models as the code has them, and no run is spent
on them:

- rate: "at most N events per second" (`limit.go:8`) is not so. The window is fixed: a burst at its end and
  another at the start of the next fall into one second. `BurstBound` shows that this makes 2N-1 at most
  without delays, and `LongRunRate` what holds with them.
- traces: a window that ends more than a week after the row it is opened from is cut so that the row is
  outside (`query.ts:45-53`), and the click that opens the waterfall (`docs/traces.md:35`) finds nothing.
- theme: blocked storage lets a change of the system's theme override the user's choice
  (`theme.ts:55-59`, `docs/changelog.md:24`).
- live lists: rows between a hydration and the subscription after it reach no list; pending rows stay
  after an error; an answer that takes more than five seconds turns the live tail off; the feed is
  unmounted by an error of the overview, and a hydration resets hovering; follow mode resumes only when
  nothing is pending, unlike `docs/overview.md:46`; logs are not de-duplicated.
- services: causes and operations of the service before are on screen, without a word, until their calls
  have ended; deselecting while the metrics' body is read shows an error, and while the causes' body is
  read lets the chain go on with a call that nothing can abort any more; neither a range nor a slide is
  written to the URL (`docs/concepts.md:75`, `docs/overview.md:10`); a chain slower than the 15 s timer is
  aborted and started again by it;
  the comparisons with the latest chain after the second and third call cannot fail, because its abort
  has come first.
- map: the poll discards a graph that takes more than five seconds (`MapView.tsx:78-83`,
  `docs/changelog.md:29`); an extra empty column lies before a cycle that no entry reaches.
- charts and dock: the error rate's chart divides by the new step while it shows the old points; an
  axis keeps the span of the data it was built from (`DashChart.tsx:47-48`, `106`); data that come while
  a chart has no size are missed until the next; the dock is not clamped again when its pane shrinks.
- pickers: typing a service keeps another service's operation; the highlighted entry of a menu can lie
  past its end when the names become fewer.

## What is not modelled

Requests refused before they are flattened (method, content type, size, decoding) change nothing and
are left out, as are formatting of words and timestamps, logging and layout other than the map's.
ClickHouse is modelled as tables that rows are added to; the meaning of its SQL only where a property
compares it with Go (`SearchRows`). A list limit edited while rows arrive is left out of `TraceList`.
Events and links are tables in `TraceIngest` and absent from `TraceAnalysis`. Of the web UI the drawing
is left out: curves, arrow heads, bars, tips, animations, icons, copy buttons, list rows without state
(`TraceList.tsx`, `LogList.tsx`, `ServiceList.tsx`, `TabCard.tsx`, `Chrome.tsx` apart from its switches),
the wrappers in `api.ts` that build a URL and check the shape of an answer, the plot library, and React
itself, of which it is assumed that it renders and runs effects before the next handler.

Not modelled at all, with the reasons: query parameters and statuses of the server, configuration,
log decoding (stateless parsing, better tested than checked); searches and metrics (their meaning is
ClickHouse's); migration (idempotent statements, run again at each start); the load generators, which
are outside the service; vendored UI assets, logging and version.

## Plan

Done, in this order, the most important behaviour first: `LiveFanout` and `StreamHub` with proofs;
`RateLimit` with proofs; `TraceIngest` with proofs; `AppLifecycle` with proofs; `LiveRows` and
`TraceList`; `TraceAnalysis`, `Waterfall` and `TraceView`; the pages of the web UI with `WebPages`;
proofs about `LiveRows`, all of `TraceList`, `QueryWindow`, the ten pages, all properties of
`TraceView`, and `MapLayout`. What would come next:

1. An abstract `DurableIngest` (a batch is unknown, stored or acknowledged; readers see only whole
   acknowledged batches) that `TraceIngest` is shown to implement.
2. The server's parameter windows (`params.go`) against `QueryWindow`: what the form means is what the
   store is asked.
3. Series: bucket alignment and padding against ClickHouse's `toStartOfInterval`.
4. Migration with crashes between its statements.
