---------------------------- MODULE MCTraceView -----------------------------
(* A small instance of TraceView for TLC. *)
EXTENDS TraceView

Span(id, parent, start, end) ==
  [tid |-> 1, id |-> id, parent |-> parent, start |-> start, end |-> end,
   svc |-> 4 - id, status |-> IF id = 3 THEN 2 ELSE 0]

\* Spans 1 to 3 of one trace: roots, a span that is its own parent, cycles,
\* orphans, children that overlap, touch, stick out or take no time; a span that
\* ends before it starts, one without an id and one of another trace.
MCOffered ==
  {Span(1, Empty, 0, 4), Span(1, 2, 1, 3), Span(1, 1, 0, 3)}
  \cup {Span(2, 1, 1, 3), Span(2, 1, 0, 2), Span(2, Empty, 2, 6), Span(2, 9, 3, 5)}
  \cup {Span(3, 1, 2, 5), Span(3, 1, 3, 4), Span(3, 2, 2, 3), Span(3, 1, 5, 2)}
  \cup {Span(Empty, 1, 0, 9), [Span(2, 1, 1, 2) EXCEPT !.tid = 2]}
=============================================================================
