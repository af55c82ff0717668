----------------------------- MODULE Waterfall ------------------------------
(***************************************************************************)
(* The rows of the trace page: layoutWaterfall of web/src/search/layout.ts.*)
(* A row is a record [span, depth]; the widths of its bar and the lines of *)
(* the tree are drawing and are left out.                                  *)
(***************************************************************************)
EXTENDS TraceAnalysis

\* children: the spans under an id, by start and id.
Children(spans, id) == Ordered(Kids(spans, id))

\* seen: the ids that have a row.
Seen(laid) == {row.span.id : row \in ToSet(laid)}

\* The rows that a list of spans would get at a depth.
Rows(list, depth) == [i \in DOMAIN list |-> [span |-> list[i], depth |-> depth]]

\* One call of walk.  What the calls around it have left to visit is a stack:
\* the span on top gets its row, unless its id has one, and its children come
\* next, one deeper.
Visit(spans, w) ==
  LET row == Head(w.left)
  IN  CASE w.left = <<>> -> w
        [] w.left # <<>> /\ row.span.id \in Seen(w.laid) -> [w EXCEPT !.left = Tail(@)]
        [] OTHER -> [left |-> Rows(Children(spans, row.span.id), row.depth + 1) \o Tail(w.left),
                     laid |-> Append(w.laid, row)]

\* walk, for each span of a list in turn.  A span is visited once in the list and
\* once under its parent.
Walk(spans, list, laid) ==
  FoldLeft(LAMBDA w, s : Visit(spans, w), [left |-> Rows(list, 0), laid |-> laid], spans \o spans).laid

\* Wrong: spans on a cycle are never reached.
LayoutWaterfall_RootsOnly(spans) == Walk(spans, Roots(spans), <<>>)

\* First the roots, then what no root leads to.
LayoutWaterfall(spans) ==
  LET tree  == Walk(spans, Roots(spans), <<>>)
      extra == Only(spans, {s \in ToSet(spans) : s.id \notin Seen(tree)})
  IN  Walk(spans, extra, tree)

=============================================================================
