----------------------------- MODULE TraceView ------------------------------
(***************************************************************************)
(* From the spans of an OTLP request to the page of their trace.           *)
(*                                                                         *)
(* An exporter puts a request together, the server flattens it and inserts *)
(* its rows, and again when the exporter repeats the request because its   *)
(* answer was lost.  At any moment a reader may load the page of a trace.  *)
(***************************************************************************)
EXTENDS Waterfall

CONSTANTS
  Offered,      \* the spans that requests are made of
  MaxRequest,   \* bound: the longest request
  MaxInserts    \* bound: how often a request is stored

ASSUME OfferedAreSpans ==
  Offered \subseteq [tid : Int, id : Int, parent : Int, start : Nat, end : Nat, svc : Int, status : Int]

ASSUME BoundsAreNumbers == Empty \in Int /\ MaxRequest \in Nat /\ MaxInserts \in Nat

VARIABLES
  request,      \* the spans of the OTLP request
  rows,         \* the table spans, in the order of the page's SELECT
  inserts,      \* how often the request has been stored
  trace,        \* the trace whose page is loaded, or Empty
  page,         \* what GetTrace answered
  laid          \* the rows of the page's waterfall

readerVars == <<trace, page, laid>>
vars == <<request, rows, inserts, readerVars>>

Batch == FlattenTraces(request)
Traces == {sp.tid : sp \in Offered} \ {Empty}

Init ==
  /\ request = <<>>
  /\ rows = <<>>
  /\ inserts = 0
  /\ trace = Empty
  /\ page = [status |-> "none"]
  /\ laid = <<>>

\* The exporter adds a span to its request.
AddSpan(sp) ==
  /\ inserts = 0
  /\ trace = Empty
  /\ Len(request) < MaxRequest
  /\ request' = Append(request, sp)
  /\ UNCHANGED <<rows, inserts, readerVars>>

\* The request is flattened and its rows are inserted; a request with too many
\* spans is refused.
Store ==
  /\ inserts < MaxInserts
  /\ ~Batch.tooMany
  /\ Batch.spans # <<>>
  /\ rows' = Ordered(rows \o Batch.spans)
  /\ inserts' = inserts + 1
  /\ UNCHANGED <<request, readerVars>>

\* A reader loads, or loads again, the page of a trace.
Load(t) ==
  /\ trace \in {Empty, t}
  /\ trace' = t
  /\ page' = GetTrace(rows, t)
  /\ laid' = IF page'.status = "ok" THEN LayoutWaterfall(page'.spans) ELSE <<>>
  /\ UNCHANGED <<request, rows, inserts>>

Next == (\E sp \in Offered : AddSpan(sp)) \/ Store \/ (\E t \in Traces : Load(t))

Spec == Init /\ [][Next]_vars
-----------------------------------------------------------------------------
(* Properties *)

\* The table holds the valid spans of the request, as often as it was stored,
\* in the order of the SELECT and with durations that are not negative; the page
\* shows no more of them than it may.
TypeOK ==
  /\ inserts \in 0..MaxInserts
  /\ Len(request) <= MaxRequest
  /\ Len(rows) = inserts * Len(Batch.spans)
  /\ Len(rows) <= inserts * MaxSpans
  /\ \A i \in DOMAIN rows : rows[i].dur >= 0 /\ rows[i].id # Empty /\ rows[i].tid # Empty
  /\ \A i, j \in DOMAIN rows : i < j => rows[i].start <= rows[j].start
  /\ trace \in Traces \cup {Empty}
  /\ page.status \in {"none", "not_found", "too_large", "ok"}
  /\ page.status = "ok" => Len(page.spans) \in 1..MaxTraceSpans

\* The row that the live stream shows for a trace is the one a search shows
\* once the batch is stored: SummarizeBatch agrees with the search's SQL in the
\* count, the times, the status and in which span names the trace.
LiveRowIsSearchRow ==
  inserts = 1 => \A row \in SummarizeBatch(Batch.spans) : row \in SearchRows(rows, row.tid)

NobodyLater(list, s) == \A o \in ToSet(list) : End(o) <= End(s)

\* The critical path is a chain of waiting: it begins at the root that ends
\* last, each span is a child of the one before it that no sibling outlasts, it
\* passes no span twice and stops only at a leaf or where a cycle closes; and it
\* takes no longer than the trace.
PathIsTheWaitChain ==
  page.status = "ok" =>
    LET spans == page.spans
        path  == page.path
    IN  /\ path # <<>>
        /\ Roots(spans) # <<>> => path[1] \in ToSet(Roots(spans)) /\ NobodyLater(Roots(spans), path[1])
        /\ Roots(spans) = <<>> => NobodyLater(spans, path[1])
        /\ \A i \in 2..Len(path) :
             /\ path[i].parent = path[i - 1].id
             /\ NobodyLater(Kids(spans, path[i - 1].id), path[i])
             /\ \A j \in 1..(i - 1) : path[j].id # path[i].id
        /\ \/ Kids(spans, Last(path).id) = <<>>
           \/ \E k \in ToSet(Kids(spans, Last(path).id)) :
                k.id \in Known(path) /\ NobodyLater(Kids(spans, Last(path).id), k)
        /\ page.pathNs \in 0..page.dur

\* How many moments of a span pass while none of its children is at work.
Alone(spans, s) ==
  Cardinality({m \in s.start .. (End(s) - 1) :
    \A o \in ToSet(spans) : o.parent = s.id => m < o.start \/ m >= End(o)})

\* A bottleneck's self time is the time in which its span works alone, however
\* its children overlap, stick out of it or are stored twice, and no span that is
\* left out of the list works alone for longer than one that is in it.
BottlenecksWorkAlone ==
  page.status = "ok" =>
    LET spans == page.spans
        top   == page.bottlenecks
        Busy  == {i \in DOMAIN spans : Alone(spans, spans[i]) > 0}
    IN  /\ Len(top) = Min({MaxBottlenecks, Cardinality(Busy)})
        /\ \A i \in DOMAIN top : \E s \in ToSet(spans) :
             s.id = top[i].id /\ Alone(spans, s) = top[i].excl
        /\ \A i, j \in DOMAIN top : i < j => top[i].excl >= top[j].excl
        /\ Cardinality({i \in DOMAIN spans : \E j \in DOMAIN top :
                          Alone(spans, spans[i]) > top[j].excl}) < MaxBottlenecks

\* The waterfall shows every span id of the trace once, the spans of a cycle and
\* orphans included, and every row below the top level lies under its parent's
\* row.  The critical path is a branch of it from the top, so that each of its
\* steps can be scrolled into view.
WaterfallShowsTheTree ==
  page.status = "ok" =>
    LET spans == page.spans
        path  == page.path
        OneVersion == \A s, o \in ToSet(spans) : s.id = o.id => s = o
    IN  /\ Seen(laid) = Known(spans)
        /\ \A i, j \in DOMAIN laid : laid[i].span.id = laid[j].span.id => i = j
        /\ \A i \in DOMAIN laid : laid[i].depth > 0 =>
             \E j \in 1..(i - 1) :
               /\ laid[j].span.id = laid[i].span.parent
               /\ laid[j].depth = laid[i].depth - 1
               /\ \A k \in (j + 1)..(i - 1) : laid[k].depth > laid[j].depth
        /\ OneVersion /\ Roots(spans) # <<>> =>
             \A i \in DOMAIN path : \E j \in DOMAIN laid :
               laid[j].span = path[i] /\ laid[j].depth = i - 1

\* Repeating a request doubles its rows, but as long as the trace can be read a
\* page that is loaded again says the same: the path, the times, every
\* bottleneck's self time and the rows of the waterfall.  (A bottleneck is listed
\* once per copy, so that its copies may push others off the list.)
RetryChangesNothing ==
  [][page.status = "ok" /\ page'.status = "ok" =>
       /\ page'.path = page.path
       /\ page'.pathNs = page.pathNs
       /\ page'.start = page.start
       /\ page'.dur = page.dur
       /\ ToSet(page'.bottlenecks) \subseteq ToSet(page.bottlenecks)
       /\ laid' = laid]_vars
=============================================================================
