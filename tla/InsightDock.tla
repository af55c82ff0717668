----------------------------- MODULE InsightDock -----------------------------
(***************************************************************************)
(* The dock under a waterfall: InsightDock in                              *)
(* web/src/search/SpanInspector.tsx.  A pane whose head is dragged with    *)
(* the pointer, double-clicked, or toggled with a button, between closed   *)
(* and the height of its content.  Lengths are pixels.                     *)
(*                                                                         *)
(* "view" is the component's state and refs, what it measures (fit, the    *)
(* height of its content with the head and the padding; pane, the height   *)
(* of its parent) and the history variables kept, the height it had when   *)
(* it was last open and at rest, and cap, the largest height measured      *)
(* since it was opened.                                                    *)
(*                                                                         *)
(* A definition whose name ends in an underscore and a few words is a      *)
(* wrong variant of the one after it.                                      *)
(***************************************************************************)
EXTENDS Integers

CONSTANTS
  Panes, Fits, Ys,      \* the heights of the parent and the content; the pointer
  MaxGestures           \* bound: presses of the pointer and sizes of the parent

VARIABLES view, calls

Here == view.page = "dock"
STD == 216
HEAD == 32
DOCK_MIN == 88
DOCK_SNAP == 108
DOCK_DRAG == 4
DOCK_WORK == 96
Idle == [on |-> FALSE, from |-> 0, h |-> 0, moved |-> FALSE, raw |-> 0]

AtLeast(a, b) == IF a > b THEN a ELSE b
AtMost(a, b) == IF a < b THEN a ELSE b
Abs(n) == IF n < 0 THEN -n ELSE n

PaneCap(v) == AtLeast(STD, v.pane - DOCK_WORK)
MaxH(v) == AtMost(AtLeast(v.fit, STD), PaneCap(v))
ClampOpen(v, px) == AtMost(MaxH(v), AtLeast(DOCK_MIN, px))
IsMax(v) == v.open /\ v.h >= MaxH(v) - 6

\* A new state on screen: opening it runs the layout effect, which clamps it.
Render(w) ==
  LET fits == IF w.open /\ ~view.open THEN [w EXCEPT !.h = AtMost(@, MaxH(w))] ELSE w
      seen == [fits EXCEPT !.cap = AtLeast(IF view.open THEN @ ELSE 0, MaxH(w))]
  IN  /\ view' = IF seen.open /\ ~seen.drag.on THEN [seen EXCEPT !.kept = seen.h] ELSE seen
      /\ UNCHANGED calls

Toggle ==
  /\ Here /\ ~view.drag.on
  /\ Render(IF view.open THEN [view EXCEPT !.lastH = view.h, !.open = FALSE]
            ELSE [view EXCEPT !.h = ClampOpen(view, view.lastH), !.open = TRUE])

HeadDown(y) ==
  /\ Here /\ ~view.drag.on /\ view.gestures < MaxGestures
  /\ LET vis == IF view.open THEN view.h ELSE HEAD
     IN  Render([view EXCEPT !.gestures = @ + 1, !.didDrag = FALSE,
                   !.drag = [on |-> TRUE, from |-> y, h |-> vis, moved |-> FALSE, raw |-> vis]])

HeadMove(y) ==
  /\ Here /\ view.drag.on
  /\ LET raw == view.drag.h + (view.drag.from - y)
         v == [view EXCEPT !.drag.raw = raw]
     IN  IF ~v.drag.moved /\ Abs(y - v.drag.from) < DOCK_DRAG THEN Render(v)
         ELSE Render([v EXCEPT !.drag.moved = TRUE, !.didDrag = TRUE, !.open = TRUE,
                               !.h = AtMost(MaxH(v), AtLeast(HEAD, raw))])

\* Wrong: closing by a drag forgets the height the dock had.
HeadUp_Forgets ==
  /\ Here /\ view.drag.on
  /\ LET d == view.drag
         v == [view EXCEPT !.drag = Idle]
         next == ClampOpen(v, d.raw)
     IN  IF ~d.moved THEN Render(v)
         ELSE IF d.raw <= DOCK_SNAP THEN Render([v EXCEPT !.open = FALSE])
         ELSE Render([v EXCEPT !.lastH = next, !.h = next, !.open = TRUE])

HeadUp ==
  /\ Here /\ view.drag.on
  /\ LET d == view.drag
         v == [view EXCEPT !.drag = Idle]
         w == IF d.h > DOCK_SNAP THEN [v EXCEPT !.lastH = d.h, !.h = d.h] ELSE v
         next == ClampOpen(v, d.raw)
     IN  IF ~d.moved THEN Render(v)
         ELSE IF d.raw <= DOCK_SNAP THEN Render([w EXCEPT !.open = FALSE])
         ELSE Render([v EXCEPT !.lastH = next, !.h = next, !.open = TRUE])

\* Its two presses have reset didDrag, unless the second was a drag.
DblClick ==
  /\ Here /\ ~view.drag.on /\ ~view.didDrag
  /\ IF IsMax(view) THEN Render([view EXCEPT !.lastH = view.h, !.open = FALSE])
     ELSE Render([view EXCEPT !.lastH = IF view.open THEN view.h ELSE @,
                              !.h = MaxH(view), !.open = TRUE])

\* The browser window changes size: nothing clamps the dock again.
ResizePane(pane) ==
  /\ Here /\ pane # view.pane /\ view.gestures < MaxGestures
  /\ Render([view EXCEPT !.pane = pane, !.gestures = @ + 1])

Init ==
  /\ \E pane \in Panes, fit \in Fits :
       LET v == [page |-> "dock", pane |-> pane, fit |-> fit, open |-> TRUE, h |-> STD, lastH |-> STD,
                 drag |-> Idle, didDrag |-> FALSE, gestures |-> 0, kept |-> STD, cap |-> 0]
       IN  view = [v EXCEPT !.h = AtMost(STD, MaxH(v)), !.cap = MaxH(v)]
  /\ calls = {}

Next ==
  \/ Toggle \/ HeadUp \/ DblClick
  \/ \E y \in Ys : HeadDown(y) \/ HeadMove(y)
  \/ \E pane \in Panes : ResizePane(pane)

-----------------------------------------------------------------------------
(* Properties *)

\* At rest the dock is closed, and will open again at the height it was left
\* with, or it is open, taller than what a drag snaps shut and no taller than
\* its content needs or its pane has allowed since it was opened.
OpensAsLeft ==
  ~view.drag.on =>
    IF view.open THEN view.h > DOCK_SNAP /\ view.h <= view.cap
    ELSE ClampOpen(view, view.lastH) = AtMost(MaxH(view), view.kept)
=============================================================================
