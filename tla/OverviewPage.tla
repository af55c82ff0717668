---------------------------- MODULE OverviewPage ----------------------------
(***************************************************************************)
(* The overview page: web/src/search/OverviewView.tsx.  Four calls, made   *)
(* together, fill it with the numbers of a range (1h, 6h, ...) over a      *)
(* window that slides every 15 s while the page is visible, and at once    *)
(* when it becomes visible.  A refresh of numbers that are on screen is    *)
(* silent: it shows neither "loading" nor its failure.                     *)
(*                                                                         *)
(* "view" is the component's state and its refs, "calls" the calls of the  *)
(* query API; [range, win] stands for the answers to all four of a group.  *)
(*                                                                         *)
(* A definition whose name ends in an underscore and a few words is a      *)
(* wrong variant of the one after it.                                      *)
(***************************************************************************)
EXTENDS Naturals

CONSTANTS
  Ranges, None,
  MaxWins         \* bound: the windows of a behaviour

VARIABLES view, calls

Here == view.page = "overview"
Window(v) == [range |-> v.range, win |-> v.win]

\* Wrong: a silent refresh is told by the status alone.
Silent_AnyRange(old, new) == old.status = "ok"

Silent(old, new) == old.status = "ok" /\ new.range = old.range

\* The effect on [start, end, range]: abort, which drops the older answers, and load.
Load(old, new) ==
  /\ view' = [new EXCEPT !.seq = @ + 1, !.fetching = TRUE,
                         !.status = IF Silent(old, new) THEN @ ELSE "loading"]
  /\ calls' = calls \cup {[n |-> new.seq + 1, of |-> Window(new), silent |-> Silent(old, new)]}

\* slide(), which the timer, the visibility event and entering the page call.
Slide(w) ==
  IF w.fetching \/ w.win = MaxWins THEN view' = w /\ UNCHANGED calls
  ELSE Load(view, [w EXCEPT !.win = @ + 1])

Poll == Here /\ view.active /\ ~view.fetching /\ Slide(view)
Enter == Here /\ ~view.active /\ Slide([view EXCEPT !.active = TRUE])
Leave == Here /\ view.active /\ view' = [view EXCEPT !.active = FALSE] /\ UNCHANGED calls

ApplyRange(r) ==
  /\ Here /\ view.active /\ view.win < MaxWins
  /\ Load(view, [view EXCEPT !.range = r, !.win = @ + 1])

Succeeds(c) ==
  /\ Here /\ calls' = calls \ {c}
  /\ view' = IF c.n # view.seq THEN view
             ELSE [view EXCEPT !.data = c.of, !.status = "ok", !.fetching = FALSE]

\* Wrong: a silent failure returns before the fetch is over.
Fails_StillFetching(c) ==
  /\ Here /\ calls' = calls \ {c}
  /\ view' = IF c.n # view.seq \/ c.silent THEN view
             ELSE [view EXCEPT !.data = None, !.status = "error", !.fetching = FALSE]

Fails(c) ==
  /\ Here /\ calls' = calls \ {c}
  /\ view' = CASE c.n # view.seq -> view
               [] c.n = view.seq /\ c.silent -> [view EXCEPT !.fetching = FALSE]
               [] OTHER -> [view EXCEPT !.data = None, !.status = "error", !.fetching = FALSE]

\* What the page shows: an error alone, or numbers, charts, the feed and tables.
\* Only an empty table says "loading": numbers stay until others replace them.
Shown(v) ==
  IF v.status = "error" THEN [says |-> "error", range |-> v.range]
  ELSE [says |-> IF v.data = None THEN v.status ELSE "numbers",
        range |-> v.range, data |-> v.data, feed |-> v.win]

Init ==
  /\ \E r \in Ranges : view = [page |-> "overview", active |-> TRUE, range |-> r, win |-> 1,
       data |-> None, status |-> "loading", seq |-> 1, fetching |-> TRUE]
  /\ calls = {[n |-> 1, of |-> Window(view), silent |-> FALSE]}

Next ==
  \/ Poll \/ Enter \/ Leave
  \/ \E r \in Ranges : ApplyRange(r)
  \/ \E c \in calls : Succeeds(c) \/ Fails(c)

-----------------------------------------------------------------------------
(* Properties *)

\* The page says so as long as it has no numbers.  Those of another range than
\* the one whose button is lit stay on screen without a word, but only while
\* the calls for that range are under way, whose failure would be told.
ShowsTheSelection ==
  LET s == Shown(view) IN
  /\ s.says # "ok"
  /\ s.says = "numbers" /\ s.data.range # s.range =>
       \E c \in calls : c.n = view.seq /\ c.of = Window(view) /\ ~c.silent

\* A page that says "loading", or that keeps the timer from sliding, has the
\* calls under way that will end it.
NeverStuck ==
  view.fetching \/ view.status = "loading" => \E c \in calls : c.n = view.seq
=============================================================================
