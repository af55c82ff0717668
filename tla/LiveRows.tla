------------------------------ MODULE LiveRows ------------------------------
(***************************************************************************)
(* How the browser merges live rows into a list: web/src/search/live.ts.   *)
(* A row is a record [id, at]: the trace it stands for, and when it came   *)
(* over the WebSocket (0 for a row of a search answer).  Lists are newest  *)
(* first.                                                                  *)
(***************************************************************************)
EXTENDS Naturals, Sequences

\* Array.slice(0, limit)
FirstOf(rows, limit) == SubSeq(rows, 1, IF Len(rows) < limit THEN Len(rows) ELSE limit)

\* The rows of other traces, in their order: rows.filter.
Without(rows, id) ==
  LET kept[i \in 0..Len(rows)] ==
        IF i = 0 THEN <<>>
        ELSE IF rows[i].id = id THEN kept[i - 1] ELSE Append(kept[i - 1], rows[i])
  IN  kept[Len(rows)]

\* Wrong: the older row of the same trace stays in the list.
PrependLiveRow_KeepsOld(rows, row, limit) == FirstOf(<<row>> \o rows, limit)

\* Wrong: the list grows without end.
PrependLiveRow_NoLimit(rows, row, limit) == <<row>> \o Without(rows, row.id)

\* prependLiveRow: the row goes on top, and replaces an older row of its trace.
PrependLiveRow(rows, row, limit) == FirstOf(<<row>> \o Without(rows, row.id), limit)

\* Wrong: the newest pending row is applied first.
FlushPending_NewestFirst(rows, pending, limit) ==
  LET out[i \in 0..Len(pending)] ==
        IF i = 0 THEN rows ELSE PrependLiveRow(out[i - 1], pending[i], limit)
  IN  out[Len(pending)]

\* flushPending: pending is newest first and is applied from its end.
FlushPending(rows, pending, limit) ==
  LET out[i \in 0..Len(pending)] ==
        IF i = 0 THEN rows ELSE PrependLiveRow(out[i - 1], pending[Len(pending) + 1 - i], limit)
  IN  out[Len(pending)]

Ids(rows) == {rows[i].id : i \in DOMAIN rows}

-----------------------------------------------------------------------------
(* What the lists have to guarantee whatever feeds them *)

\* A list shows a trace once and never grows past its limit.
Distinct(rows) == \A i, j \in DOMAIN rows : rows[i].id = rows[j].id => i = j

\* Live rows lie above search rows, the latest arrival on top.
Descending(rows) ==
  \A i, j \in DOMAIN rows : i < j => rows[i].at > rows[j].at \/ rows[j].at = 0
=============================================================================
