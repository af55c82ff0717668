----------------------------- MODULE MCWebPages ------------------------------
(* A small instance of WebPages for TLC. *)
EXTENDS WebPages

CONSTANTS s1, s2

Near(n) == {n - n \div 10, n - n \div 200, n - 1, n, n + 1}
MCValues == {-1, 0, 1, 4, 5, 6, 9, 14, 15, 16}
              \cup UNION {Near(n) : n \in {100, 1000, 10000, 100000, 1000000, 10000000, 100000000, 1000000000}}

\* A service "1" with an operation and a service "21" with two; typed is "1" or "2".
MCServiceNames == <<<<1>>, <<2, 1>>>>
MCOpNames ==
  [name \in {MCServiceNames[1], MCServiceNames[2]} |->
     IF name = MCServiceNames[1] THEN <<<<3>>>> ELSE <<<<3>>, <<4>>>>]
MCTexts == {<<>>, <<1>>, <<2>>}
MCCharts == {<<>>, <<FALSE>>, <<TRUE>>, <<FALSE, TRUE>>}

-----------------------------------------------------------------------------
(* Inputs of the pure functions *)

\* Four services and up to ten edges between them, one to a service the answer
\* lacks: chains, cycles, a call of itself; a canvas that fits and one larger.
Node(s, spans, errors) == [service |-> s, spans |-> spans, errors |-> errors]
Edge(a, b, errors, avg) == [from |-> a, to |-> b, calls |-> a, errors |-> errors, avg |-> avg]
Nodes == <<Node(2, 5, 0), Node(1, 9, 0), Node(3, 5, 1), Node(4, 1, 0)>>
Edges == <<Edge(1, 2, 0, 10), Edge(1, 3, 1, 100), Edge(2, 3, 0, 80), Edge(3, 2, 0, 20), Edge(2, 1, 0, 50),
           Edge(3, 4, 0, 90), Edge(4, 3, 1, 5), Edge(4, 4, 0, 1), Edge(4, 2, 0, 40), Edge(3, 9, 0, 200)>>
Chosen(kept) ==
  LET which == SelectSeq([i \in DOMAIN Edges |-> i], LAMBDA i : i \in kept)
  IN  [i \in DOMAIN which |-> Edges[which[i]]]

Layouts ==
  {[page |-> "layout", nodes |-> nodes, edges |-> Chosen(kept),
    canvas |-> [w |-> side * Px, h |-> (side + 2) * Px]] :
     kept \in SUBSET DOMAIN Edges, nodes \in {<<>>, Nodes}, side \in {0, 1001}}

\* Windows on both sides of the largest one, rows before, in and after them.
Rows == {{}} \cup {{[at |-> at, length |-> length]} : at \in {-9, -1, 0, 3, 8, 11}, length \in {-1, 0, 2, 20}}
Windows ==
  {[page |-> "window", form |-> Window(start, end), rows |-> rows, now |-> now] :
     start \in {-4, 0, 2, 6, 10, 20}, end \in {-4, 0, 2, 6, 10, 20}, rows \in Rows, now \in {-5, 0, 5, 9, 13}}

Forms ==
  {[page |-> "url", trace |-> trace,
    form |-> [DefaultForm EXCEPT !.service = service, !.min = min, !.limit = limit, !.start = start]] :
     service \in {"", " ", " x "}, min \in {"", " ", " x "}, limit \in {"", " ", " x "}, start \in {"", "x"},
     trace \in {"", " ", " x "}}

\* Two answers of up to three services each: no errors, a few, all of them.
Answers(services) ==
  LET kinds == {<<>>, <<1, 0, 0>>, <<2, 1, 50>>, <<5, 5, 54>>, <<2, 0, 60>>}
  IN  {{[service |-> s, spans |-> f[s][1], errors |-> f[s][2], p95 |-> f[s][3]] :
          s \in {r \in services : f[r] # <<>>}} : f \in [services -> kinds]}
Cards == {[page |-> "cards", now |-> now, before |-> before] : now \in Answers(1..3), before \in Answers(1..2)}
Numbers == {[page |-> "format", n |-> n] : n \in MCValues}

MCInputs == Layouts \cup Windows \cup Forms \cup Cards \cup Numbers
=============================================================================
