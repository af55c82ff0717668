--------------------------- MODULE TraceAnalysis ----------------------------
(***************************************************************************)
(* What the server computes from the spans of a trace, without a state of  *)
(* its own:                                                                *)
(*   - internal/ingest/flatten.go: the rows of an OTLP request;            *)
(*   - internal/stream/summary.go: the live row of a trace in a batch, and *)
(*     internal/store/search.go: the row a search shows for it;            *)
(*   - internal/store/criticalpath.go, bottlenecks.go and get.go: what the *)
(*     trace page shows.                                                   *)
(*                                                                         *)
(* A row of the table spans is a record [tid, id, parent, start, dur, svc, *)
(* status]; times are whole units, ids and services numbers, Empty is the  *)
(* empty id, and svc stands for the service and the operation.  A span of  *)
(* an OTLP request has end in place of dur.  Attributes, events and links  *)
(* are carried along unchanged and are left out.                           *)
(***************************************************************************)
EXTENDS Common

CONSTANTS
  Empty,           \* the empty trace or span id
  MaxSpans,        \* FlattenTraces' maxSpans
  MaxTraceSpans,   \* get.go's maxTraceSpans
  MaxBottlenecks   \* bottlenecks.go's maxBottlenecks

ASSUME LimitsArePositive ==
  MaxSpans \in Nat \ {0} /\ MaxTraceSpans \in Nat \ {0} /\ MaxBottlenecks \in Nat \ {0}

End(s) == s.start + s.dur

\* seq in the order of the relation before, equal elements in the order they came in.
Sorted(seq, before) ==
  FoldLeft(LAMBDA out, e :
             LET after == {i \in DOMAIN out : <<e, out[i]>> \in before}
             IN  IF after = {} THEN Append(out, e) ELSE InsertAt(out, Min(after), e),
           <<>>, seq)

-----------------------------------------------------------------------------
(* Flattening *)

\* Wrong: a span that ends before it starts gets a negative duration.
FlattenSpan_Signed(sp) ==
  [tid |-> sp.tid, id |-> sp.id, parent |-> sp.parent, start |-> sp.start,
   dur |-> sp.end - sp.start, svc |-> sp.svc, status |-> sp.status]

FlattenSpan(sp) ==
  [tid |-> sp.tid, id |-> sp.id, parent |-> sp.parent, start |-> sp.start,
   dur |-> IF sp.end > sp.start THEN sp.end - sp.start ELSE 0,
   svc |-> sp.svc, status |-> sp.status]

\* The loop of FlattenTraces: the limit is looked at before a span is found to
\* have an empty id and is skipped.
FlattenTraces(request) ==
  FoldLeft(LAMBDA b, sp :
             IF b.tooMany \/ Len(b.spans) >= MaxSpans THEN [tooMany |-> TRUE, spans |-> <<>>]
             ELSE IF sp.tid = Empty \/ sp.id = Empty THEN b
             ELSE [b EXCEPT !.spans = Append(@, FlattenSpan(sp))],
           [tooMany |-> FALSE, spans |-> <<>>], request)

-----------------------------------------------------------------------------
(* List rows: of a batch, for the live stream, and of the table, by a search *)

\* Wrong: the earliest span names the trace, also when it has a parent.
BetterRoot_Earliest(best, sp) == best = <<>> \/ sp.start < best[1].start

\* betterRoot; best is empty or holds the best span so far.
BetterRoot(best, sp) ==
  \/ best = <<>>
  \/ best[1].parent # Empty /\ sp.parent = Empty
  \/ (best[1].parent # Empty) = (sp.parent # Empty) /\ sp.start < best[1].start

\* The best of the spans, in the order they came in.
PickRoot(list) == FoldLeft(LAMBDA best, s : IF BetterRoot(best, s) THEN <<s>> ELSE best, <<>>, list)

\* SummarizeBatch's row of trace t, which has spans in the batch.
Summary(batch, t) ==
  LET own  == Only(batch, {s \in ToSet(batch) : s.tid = t})
      from == Min({s.start : s \in ToSet(own)})
      to   == Max({End(s) : s \in ToSet(own)})
  IN  [tid |-> t, start |-> from, dur |-> IF to > from THEN to - from ELSE 0,
       count |-> Len(own), status |-> Max({s.status : s \in ToSet(own)}), svc |-> PickRoot(own)[1].svc]

SummarizeBatch(batch) == {Summary(batch, t) : t \in {s.tid : s \in ToSet(batch)}}

\* The rows that buildSearchSQL's statement may return for trace t from a window
\* that holds the whole trace: argMin takes any of the spans with the least
\* (has a parent, timestamp).
SearchRows(rows, t) ==
  LET own   == Only(rows, {s \in ToSet(rows) : s.tid = t})
      spans == ToSet(own)
      Key(s) == <<IF s.parent = Empty THEN 0 ELSE 1, s.start>>
      Leq(k, l) == k[1] < l[1] \/ (k[1] = l[1] /\ k[2] <= l[2])
  IN  {[tid |-> t, start |-> Min({s.start : s \in spans}),
        dur |-> Max({End(s) : s \in spans}) - Min({s.start : s \in spans}),
        count |-> Len(own), status |-> Max({s.status : s \in spans}), svc |-> r.svc]
       : r \in {s \in spans : \A o \in spans : Leq(Key(s), Key(o))}}

-----------------------------------------------------------------------------
(* The tree of spans, as get.go's functions and the waterfall see it *)

Known(spans) == {s.id : s \in ToSet(spans)}
HasParent(spans, s) == s.parent # Empty /\ s.parent \in Known(spans)
Roots(spans) == Only(spans, {s \in ToSet(spans) : ~HasParent(spans, s)})
Kids(spans, p) == Only(spans, {s \in ToSet(spans) : HasParent(spans, s) /\ s.parent = p})

-----------------------------------------------------------------------------
(* criticalpath.go *)

\* Wrong: the longest span of the list, whenever it ends.
PickLatestEnd_Longest(list) ==
  FoldLeft(LAMBDA best, s : IF best = <<>> \/ s.dur > best[1].dur THEN <<s>> ELSE best, <<>>, list)

\* pickLatestEnd: empty, or the first of the longest of the latest to end.
PickLatestEnd(list) ==
  FoldLeft(LAMBDA best, s :
             IF \/ best = <<>>
                \/ End(s) > End(best[1])
                \/ End(s) = End(best[1]) /\ s.dur > best[1].dur
             THEN <<s>> ELSE best, <<>>, list)

\* The loop of criticalPath: from the last span of the path to its child that
\* ends last, until there is none or it has been seen.
Follow(spans, path) ==
  LET next == PickLatestEnd(Kids(spans, Last(path).id))
  IN  IF next = <<>> \/ Known(next) \subseteq Known(path) THEN path ELSE path \o next

CriticalPath(spans) ==
  LET first == PickLatestEnd(IF Roots(spans) # <<>> THEN Roots(spans) ELSE spans)
  IN  FoldLeft(LAMBDA path, s : Follow(spans, path), first, spans)

\* byID: of several spans with one id the last.
ByID(spans, id) == Last(Only(spans, {s \in ToSet(spans) : s.id = id}))

PathWallNs(spans, path) ==
  LET first == ByID(spans, path[1].id)
      last  == ByID(spans, Last(path).id)
  IN  IF End(last) > first.start THEN End(last) - first.start ELSE last.dur

-----------------------------------------------------------------------------
(* bottlenecks.go *)

\* Wrong: the children's durations are added up.
CoverNs_Sum(parent, kids) == FoldLeft(LAMBDA n, k : n + k.dur, 0, kids)

\* Wrong: children are not cut to their parent's interval.
CoverNs_NoClip(parent, kids) ==
  Cardinality(UNION {k.start .. (End(k) - 1) : k \in ToSet(kids)})

\* The children's intervals within the parent's, the empty ones left out.
Clipped(parent, kids) ==
  LET ivs == [i \in DOMAIN kids |-> [a |-> Max({kids[i].start, parent.start}),
                                     b |-> Min({End(kids[i]), End(parent)})]]
  IN  Only(ivs, {iv \in ToSet(ivs) : iv.b > iv.a})

\* The intervals merged in order: n is the length of those that are closed,
\* start and end are the bounds of the last one.
MergedIvs(ivs) ==
  FoldLeft(LAMBDA acc, iv :
             IF iv.a <= acc.end THEN [acc EXCEPT !.end = Max({@, iv.b})]
             ELSE [n |-> acc.n + (acc.end - acc.start), start |-> iv.a, end |-> iv.b],
           [n |-> 0, start |-> ivs[1].a, end |-> ivs[1].b], Tail(ivs))

\* coverNs: the length of the union of the intervals.
CoverNs(parent, kids) ==
  LET cut == Clipped(parent, kids)
      ivs == Sorted(cut, {vw \in ToSet(cut) \X ToSet(cut) : vw[1].a < vw[2].a})
  IN  IF ivs = <<>> THEN 0 ELSE MergedIvs(ivs).n + (MergedIvs(ivs).end - MergedIvs(ivs).start)

SelfTimeNs(s, kids) == IF s.dur > CoverNs(s, kids) THEN s.dur - CoverNs(s, kids) ELSE 0

RankBottlenecks(spans) ==
  LET all == [i \in DOMAIN spans |->
                [id |-> spans[i].id, svc |-> spans[i].svc,
                 excl |-> SelfTimeNs(spans[i], Kids(spans, spans[i].id))]]
      busy == Only(all, {b \in ToSet(all) : b.excl > 0})
      Before(b, c) ==
        \/ b.excl > c.excl
        \/ b.excl = c.excl /\ b.svc < c.svc
        \/ b.excl = c.excl /\ b.svc = c.svc /\ b.id < c.id
      ranked == Sorted(busy, {bc \in ToSet(busy) \X ToSet(busy) : Before(bc[1], bc[2])})
  IN  SubSeq(ranked, 1, Min({MaxBottlenecks, Len(ranked)}))

-----------------------------------------------------------------------------
(* get.go *)

\* ORDER BY timestamp, span_id
Ordered(rows) ==
  LET Before(s, o) == s.start < o.start \/ (s.start = o.start /\ s.id < o.id)
  IN  Sorted(rows, {so \in ToSet(rows) \X ToSet(rows) : Before(so[1], so[2])})

\* assembleTrace: the spans keep their order; the trace lasts from the first
\* start to the last end.
AssembleTrace(spans) ==
  LET from == Min({s.start : s \in ToSet(spans)})
      path == CriticalPath(spans)
  IN  [status |-> "ok", start |-> from,
       dur |-> Max({End(s) : s \in ToSet(spans)}) - from,
       spans |-> spans, path |-> path, pathNs |-> PathWallNs(spans, path),
       bottlenecks |-> RankBottlenecks(spans)]

\* GetTrace over a window that holds the whole trace.
GetTrace(rows, t) ==
  LET spans == Only(rows, {s \in ToSet(rows) : s.tid = t})
  IN  IF spans = <<>> THEN [status |-> "not_found"]
      ELSE IF Len(spans) > MaxTraceSpans THEN [status |-> "too_large"]
      ELSE AssembleTrace(spans)
=============================================================================
