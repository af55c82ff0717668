----------------------------- MODULE Dashboards ------------------------------
(***************************************************************************)
(* What the overview and the services page compute from an answer: the     *)
(* numbers of the fleet, the tables, the charts and the colour of a trace  *)
(* of the feed (web/src/search/OverviewView.tsx, ServicesView.tsx,         *)
(* activity.ts).                                                           *)
(*                                                                         *)
(* An answer is a set of records [service, spans, errors, p95], services   *)
(* being numbers in the order of their names; points is a sequence of      *)
(* [spans, errors].  Fractions are compared by their cross products.       *)
(*                                                                         *)
(* A definition whose name ends in an underscore and a few words is a      *)
(* wrong variant of the one after it.                                      *)
(***************************************************************************)
EXTENDS Integers, Sequences, SequencesExt, FiniteSetsExt

CONSTANT TableRows     \* the rows of a table, 8 in the code

\* Array.sort by a key, the fraction key[row][1] / key[row][2], the largest
\* first, ties by name; the first n rows.
Ranked(rows, key) ==
  SetToSortSeq(rows, LAMBDA a, b :
    LET x == key[a][1] * key[b][2]
        y == key[b][1] * key[a][2]
    IN  x > y \/ (x = y /\ a.service < b.service))
First(n, rows) == SubSeq(rows, 1, IF Len(rows) < n THEN Len(rows) ELSE n)
Listed(rows) == {rows[i].service : i \in DOMAIN rows}

-----------------------------------------------------------------------------
(* The overview *)

\* Wrong: the p95 is not weighted by the spans it is of.
FleetKpis_Unweighted(now) ==
  [spans |-> MapThenSumSet(LAMBDA r : r.spans, now),
   errors |-> MapThenSumSet(LAMBDA r : r.errors, now),
   p95w |-> MapThenSumSet(LAMBDA r : r.p95, now)]

\* fleetKpis; p95w / spans is the p95 of the fleet.
FleetKpis(now) ==
  [spans |-> MapThenSumSet(LAMBDA r : r.spans, now),
   errors |-> MapThenSumSet(LAMBDA r : r.errors, now),
   p95w |-> MapThenSumSet(LAMBDA r : r.p95 * r.spans, now)]

Issues(now) ==
  LET rows == {r \in now : r.errors > 0}
  IN  Ranked(rows, [r \in rows |-> <<r.errors, r.spans>>])

Slowest(now) ==
  LET rows == {r \in now : r.p95 > 0}
  IN  First(TableRows, Ranked(rows, [r \in rows |-> <<r.p95, 1>>]))
Busiest(now) == First(TableRows, Ranked(now, [r \in now |-> <<r.spans, 1>>]))

\* The services of both halves whose p95 rose by more than a tenth (minRise).
Regressions(firstHalf, secondHalf) ==
  LET pairs == {p \in firstHalf \X secondHalf : p[1].service = p[2].service}
      rose == {p \in pairs : p[1].p95 > 0 /\ 10 * p[2].p95 > 11 * p[1].p95}
      rows == {[service |-> p[1].service, prev |-> p[1].p95, curr |-> p[2].p95] : p \in rose}
  IN  Ranked(rows, [r \in rows |-> <<r.curr, r.prev>>])

\* activityKind: the p95 of the fleet is what makes a trace slow.
ActivityKind(now, failed, duration) ==
  LET fleet == FleetKpis(now)
  IN  CASE failed -> "err"
        [] ~failed /\ fleet.p95w > 0 /\ duration * fleet.spans >= fleet.p95w -> "slow"
        [] OTHER -> "in"

-----------------------------------------------------------------------------
(* The charts of both pages *)

RANGES == <<[s |-> 3600, step |-> 60], [s |-> 21600, step |-> 300],
            [s |-> 86400, step |-> 600], [s |-> 604800, step |-> 3600]>>

\* The preset of a window from the URL: within two minutes of it, or a day.
Preset(span) ==
  LET near == {i \in DOMAIN RANGES : span - RANGES[i].s \in -119..119}
  IN  IF near = {} THEN RANGES[3] ELSE RANGES[CHOOSE i \in near : \A j \in near : i <= j]

\* The values of a chart; a bucket without spans has no latency.  None for null.
Traffic(points) == [i \in DOMAIN points |-> points[i].spans]
Errors(points, step) == [i \in DOMAIN points |-> IF step > 0 THEN points[i].errors ELSE 0]
Latency(points, None) == [i \in DOMAIN points |-> IF points[i].spans > 0 THEN points[i].p95 ELSE None]

-----------------------------------------------------------------------------
(* The dashboard of a service *)

\* The calls to and from it, most calls first, then by name.
ByCalls(edges) ==
  SetToSortSeq(edges, LAMBDA a, b :
    a.calls > b.calls \/ (a.calls = b.calls /\ (a.from < b.from \/ (a.from = b.from /\ a.to < b.to))))
Outgoing(edges, s) == ByCalls({e \in edges : e.from = s})
Incoming(edges, s) == ByCalls({e \in edges : e.to = s})

\* The operations as the server sent them, most spans first; and slowest first.
TopOperations(ops) == First(TableRows, ops)
SlowestOperations(ops) ==
  First(TableRows, SetToSortSeq({ops[i] : i \in DOMAIN ops}, LAMBDA a, b :
    a.p95 > b.p95 \/ (a.p95 = b.p95 /\ (a.spans > b.spans \/ (a.spans = b.spans /\ a.service < b.service)))))

-----------------------------------------------------------------------------
(* Properties *)

\* The cards of one answer agree: the fleet has errors when a service is listed
\* with some; its p95 lies between those of its services; no service gets slower
\* in both directions; a table leaves out only services that are no slower than
\* those it lists; and both tables of operations are as long.
CardsAgree(now, before) ==
  LET fleet == FleetKpis(now)
      p95s == {r.p95 : r \in now}
      ops == Busiest(now)
  IN  /\ fleet.errors > 0 <=> Issues(now) # <<>>
      /\ fleet.spans > 0 =>
           \E lo, hi \in p95s : lo * fleet.spans <= fleet.p95w /\ fleet.p95w <= hi * fleet.spans
      /\ Listed(Regressions(before, now)) \cap Listed(Regressions(now, before)) = {}
      /\ \A r \in now : r.p95 > 0 /\ r.service \notin Listed(Slowest(now)) =>
           \A s \in now : s.service \in Listed(Slowest(now)) => s.p95 >= r.p95
      /\ Len(TopOperations(ops)) = Len(SlowestOperations(ops))

\* A trace as slow as every service of the fleet is marked slow in the feed, and
\* one as fast as the fastest is so only if the whole fleet is as fast.
FeedMarksTheSlow(now) ==
  \A r \in now :
    /\ r.p95 > 0 /\ (\A s \in now : s.p95 <= r.p95) => ActivityKind(now, FALSE, r.p95) = "slow"
    /\ (\A s \in now : s.p95 >= r.p95) /\ ActivityKind(now, FALSE, r.p95) = "slow" =>
         \A s \in now : s.p95 = r.p95

\* Where a chart of the traffic is at zero, those of the errors are, and the
\* latency is not drawn; and a range has at most 168 buckets.
ChartsAgree(points, span, None) ==
  LET range == Preset(span)
  IN  /\ range.s <= 168 * range.step
      /\ \A i \in DOMAIN points : Traffic(points)[i] = 0 =>
           Errors(points, range.step)[i] = 0 /\ Latency(points, None)[i] = None
=============================================================================
