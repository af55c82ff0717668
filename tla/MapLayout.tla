----------------------------- MODULE MapLayout ------------------------------
(***************************************************************************)
(* Where the service map draws its boxes and lines:                        *)
(* web/src/search/mapLayout.ts, and what MapView.tsx highlights.           *)
(*                                                                         *)
(* nodes and edges are sequences of records [service, spans, errors] and   *)
(* [from, to, calls, errors, avg], as the server sent them; services are   *)
(* numbers, in the order of their names.  Lengths are in 24ths of a pixel, *)
(* so that every half, third and quarter the code takes is exact.          *)
(*                                                                         *)
(* A definition whose name ends in an underscore and a few words is a      *)
(* wrong variant of the one after it.                                      *)
(***************************************************************************)
EXTENDS Common

Px == 24
NODE_W == 168 * Px
NODE_H == 64 * Px
GAP_X_MIN == 80 * Px
GAP_Y_MIN == 28 * Px
GAP_X_MAX == 200 * Px
GAP_Y_MAX == 96 * Px
PAD_MIN == 36 * Px

\* What the server sends, one node for each service; the size of the pane.
MapNode == [service : Int, spans : Int, errors : Int]
MapEdge == [from : Int, to : Int, calls : Int, errors : Int, avg : Int]
MapCanvas == [w : Int, h : Int]
OnePerService(nodes) == \A i, j \in DOMAIN nodes : nodes[i].service = nodes[j].service => i = j

Names(nodes) == {n.service : n \in ToSet(nodes)}

-----------------------------------------------------------------------------
(* Columns *)

\* The lists of callees: edges between known services, self-calls left out.
Callees(nodes, edges, s) ==
  LET calls == Only(edges, {e \in ToSet(edges) : e.from = s /\ e.to # s /\ e.to \in Names(nodes)})
  IN  [i \in DOMAIN calls |-> calls[i].to]

\* The services nobody calls; in a graph of cycles only, all of them.
Roots(nodes, edges) ==
  LET called == UNION {ToSet(Callees(nodes, edges, s)) : s \in Names(nodes)}
      roots == Only(nodes, {n \in ToSet(nodes) : n.service \notin called})
      first == IF roots = <<>> THEN nodes ELSE roots
  IN  [i \in DOMAIN first |-> first[i].service]

\* layer.set, for a service that comes off the frontier, and the callees it adds
\* to the next one: those without a column yet.
Placed(acc, s, outs) ==
  LET placed == DOMAIN acc.layer \cup {s}
  IN  [acc EXCEPT !.layer = [t \in placed |-> IF t = s THEN acc.depth ELSE acc.layer[t]],
                  !.next = @ \o Only(outs, ToSet(outs) \ placed)]

\* Wrong: a service that has a column is given one again.
Visit_Again(acc, s, outs) == Placed(acc, s, outs)

\* One service of the frontier.
Visit(acc, s, outs) == IF s \in DOMAIN acc.layer THEN acc ELSE Placed(acc, s, outs)

\* One turn of the loop: a whole frontier.
Turn(nodes, edges, acc) ==
  IF acc.next = <<>> THEN acc
  ELSE LET end == FoldLeft(LAMBDA a, s : Visit(a, s, Callees(nodes, edges, s)),
                           [acc EXCEPT !.next = <<>>], acc.next)
       IN  [end EXCEPT !.depth = @ + 1]

\* Services no root reaches share the column after the last turn.
Layers(nodes, edges) ==
  LET start == [layer |-> <<>>, next |-> Roots(nodes, edges), depth |-> 0]
      end == FoldLeft(LAMBDA a, i : Turn(nodes, edges, a), start, [i \in 1..Len(nodes) + 2 |-> i])
  IN  [s \in Names(nodes) |-> IF s \in DOMAIN end.layer THEN end.layer[s] ELSE end.depth]

\* A column from top to bottom: most spans first, then by name.
RowOf(nodes, layer, n) ==
  Cardinality({m \in ToSet(nodes) : layer[m.service] = layer[n.service] /\
                 (m.spans > n.spans \/ (m.spans = n.spans /\ m.service < n.service))})

-----------------------------------------------------------------------------
(* Coordinates *)

\* Wrong: the free space widens the gaps without limit.
Gap_Unlimited(least, most, extra, slots) == IF slots = 0 THEN least ELSE least + extra

\* spread, one dimension: the free space first widens the gaps, up to their most,
Gap(least, most, extra, slots) ==
  IF slots = 0 THEN least ELSE least + Smaller(most - least, extra \div slots)

\* and what is left is shared by the two sides.
Pad(least, gap, extra, slots) == PAD_MIN + (extra - (gap - least) * slots) \div 2

Stack(count, size, gap) == count * size + Larger(0, count - 1) * gap

\* layoutServiceMap up to the boxes, for columns "layer" and a viewport [w, h].
Boxes(nodes, layer, view) ==
  LET Rows(l) == Cardinality({s \in DOMAIN layer : layer[s] = l})
      lastCol == CHOOSE l \in 0..Len(nodes) + 2 :
                   (\E s \in DOMAIN layer : layer[s] = l) /\ \A s \in DOMAIN layer : layer[s] <= l
      maxRows == CHOOSE k \in 1..Len(nodes) :
                   (\E l \in 0..lastCol : Rows(l) = k) /\ \A l \in 0..lastCol : Rows(l) <= k
      minW == 2 * PAD_MIN + Stack(lastCol + 1, NODE_W, GAP_X_MIN)
      minH == 2 * PAD_MIN + Stack(maxRows, NODE_H, GAP_Y_MIN)
      width == Larger(view.w, minW)
      height == Larger(view.h, minH)
      gapX == Gap(GAP_X_MIN, GAP_X_MAX, width - minW, lastCol)
      gapY == Gap(GAP_Y_MIN, GAP_Y_MAX, height - minH, maxRows - 1)
      padX == Pad(GAP_X_MIN, gapX, width - minW, lastCol)
      padY == Pad(GAP_Y_MIN, gapY, height - minH, maxRows - 1)
      Above(l) == (Stack(maxRows, NODE_H, gapY) - Stack(Rows(l), NODE_H, gapY)) \div 2
      Place(n) == [x |-> padX + layer[n.service] * (NODE_W + gapX),
                   y |-> padY + Above(layer[n.service]) + RowOf(nodes, layer, n) * (NODE_H + gapY)]
  IN  [at |-> [s \in DOMAIN layer |-> Place(CHOOSE n \in ToSet(nodes) : n.service = s)],
       width |-> width, height |-> height]

\* edgeGeom: the place of an edge's label.  The middle of the curve (cubicAt at
\* one half) is the middle of its ends; an edge that runs back passes below.
Label(a, b) ==
  LET x1 == a.x + NODE_W
      x2 == b.x
  IN  [x |-> (x1 + x2) \div 2,
       y |-> IF x2 > x1 + 8 * Px THEN (a.y + b.y + NODE_H) \div 2
             ELSE Larger(a.y, b.y) + NODE_H + 18 * Px]

\* edgeTone
Tone(edges, e) ==
  LET slowest == \A d \in ToSet(edges) : 4 * e.avg >= 3 * d.avg
      slow == \E d \in ToSet(edges) : d.avg >= 50
  IN  CASE e.errors > 0 -> "err"
        [] e.errors = 0 /\ slow /\ slowest -> "warn"
        [] OTHER -> "ok"

Canvas(boxes, lines) ==
  FoldLeft(LAMBDA h, l : Larger(h, l.label.y + 18 * Px), boxes.height, lines)

\* Edges whose ends are not both nodes are not drawn.
Drawn(nodes, edges) == Only(edges, {e \in ToSet(edges) : {e.from, e.to} \subseteq Names(nodes)})

Line(edges, boxes, e) ==
  [edge |-> e, tone |-> Tone(edges, e), label |-> Label(boxes.at[e.from], boxes.at[e.to])]

Laid(edges, layer, boxes, drawn) ==
  LET lines == [i \in DOMAIN drawn |-> Line(edges, boxes, drawn[i])]
  IN  [at |-> boxes.at, layer |-> layer, lines |-> lines, width |-> boxes.width, height |-> Canvas(boxes, lines)]

\* layoutServiceMap
Layout(nodes, edges, view) ==
  IF nodes = <<>> THEN [at |-> <<>>, layer |-> <<>>, lines |-> <<>>, width |-> 360 * Px, height |-> 180 * Px]
  ELSE LET layer == Layers(nodes, edges)
       IN  Laid(edges, layer, Boxes(nodes, layer, view), Drawn(nodes, edges))

-----------------------------------------------------------------------------
(* What is highlighted *)

\* relatedNames
Related(selected, edges) ==
  {selected} \cup {e.to : e \in {d \in ToSet(edges) : d.from = selected}}
             \cup {e.from : e \in {d \in ToSet(edges) : d.to = selected}}

\* Wrong: a callee that fails is left dim when it reports no errors itself.
ErrorNames_NodesOnly(nodes, edges) == {n.service : n \in {m \in ToSet(nodes) : m.errors > 0}}

\* errorGraphNames
ErrorNames(nodes, edges) ==
  LET failing == {e \in ToSet(edges) : e.errors > 0}
  IN  {n.service : n \in {m \in ToSet(nodes) : m.errors > 0}}
        \cup {e.from : e \in failing} \cup {e.to : e \in failing}

\* The classes ServiceMapSvg gives: dim nodes, and lines that are not dim.
Dim(nodes, edges, selected, mode, s) ==
  \/ mode = "errors" /\ s \notin ErrorNames(nodes, edges) /\ s # selected
  \/ selected # 0 /\ s \notin Related(selected, edges)

Bright(laid, edges, selected, mode) ==
  {l \in ToSet(laid.lines) :
     /\ mode = "errors" => l.edge.errors > 0
     /\ selected # 0 => {l.edge.from, l.edge.to} \subseteq Related(selected, edges)}

-----------------------------------------------------------------------------
(* Properties of a layout *)

\* Boxes lie on the canvas, apart from each other, and so do the labels.
Readable(laid) ==
  /\ \A s \in DOMAIN laid.at :
       /\ laid.at[s].x >= PAD_MIN /\ laid.at[s].x + NODE_W + PAD_MIN <= laid.width
       /\ laid.at[s].y >= PAD_MIN /\ laid.at[s].y + NODE_H + PAD_MIN <= laid.height
       /\ \A t \in DOMAIN laid.at \ {s} :
            \/ laid.at[s].x + NODE_W + GAP_X_MIN <= laid.at[t].x
            \/ laid.at[t].x + NODE_W + GAP_X_MIN <= laid.at[s].x
            \/ laid.at[s].y + NODE_H + GAP_Y_MIN <= laid.at[t].y
            \/ laid.at[t].y + NODE_H + GAP_Y_MIN <= laid.at[s].y
  /\ \A l \in ToSet(laid.lines) :
       l.label.x \in 0..laid.width /\ l.label.y + 18 * Px <= laid.height

\* A service is drawn right after one that calls it, and never further from
\* any: its column is its distance from a service nobody calls.
CallersComeFirst(nodes, edges, laid) ==
  LET roots == ToSet(Roots(nodes, edges))
      calls == {e \in ToSet(edges) : e.from # e.to /\ {e.from, e.to} \subseteq Names(nodes)}
      reached == {s \in Names(nodes) : s \in roots \/ \E e \in calls : e.to = s /\ laid.layer[e.from] < laid.layer[s]}
  IN  /\ \A s \in roots : laid.layer[s] = 0
      /\ \A e \in calls : e.from \in reached => laid.layer[e.to] <= laid.layer[e.from] + 1
      /\ \A s \in reached \ roots : \E e \in calls : e.to = s /\ laid.layer[e.from] = laid.layer[s] - 1
      /\ \A s \in Names(nodes) \ reached, t \in reached : laid.layer[t] < laid.layer[s]

\* A line that stands out joins two boxes that do.
LinesMeetBoxes(nodes, edges, laid) ==
  \A selected \in Names(nodes) \cup {0}, mode \in {"calls", "errors"} :
    \A l \in Bright(laid, edges, selected, mode) :
      \A s \in {l.edge.from, l.edge.to} : ~Dim(nodes, edges, selected, mode, s)

ReadsWell(nodes, edges, laid) ==
  /\ Readable(laid)
  /\ nodes # <<>> => CallersComeFirst(nodes, edges, laid)
  /\ LinesMeetBoxes(nodes, edges, laid)
=============================================================================
