---------------------------- MODULE ActivityFeed ----------------------------
(***************************************************************************)
(* The activity feed of the overview page: web/src/search/ActivityFeed.tsx *)
(* A search fills it, then a live stream is opened; while it is empty it   *)
(* also searches every 5 s.  Live rows go on top while the reader follows  *)
(* (the list is scrolled to its top and not hovered) and wait otherwise.   *)
(*                                                                         *)
(* "view" is the component's state and refs, its window (win), the server  *)
(* (written: the number of traces it stores) and the history variable got: *)
(* the rows received since the list was last filled.  "calls" are its      *)
(* searches; the window of one ends after the first "end" traces.          *)
(*                                                                         *)
(* A definition whose name ends in an underscore and a few words is a      *)
(* wrong variant of the one after it.                                      *)
(***************************************************************************)
EXTENDS Naturals, Sequences, LiveRows

CONSTANTS
  Limit,          \* FEED_LIMIT
  MaxTraces,      \* bound: traces written
  MaxWins         \* bound: windows of a behaviour

VARIABLES view, calls

Here == view.page = "activity"
Search(kind, v) == [kind |-> kind, win |-> v.win, end |-> v.end]

\* The answer of a pull whose effect has been cleaned up is ignored: such calls
\* are dropped at once.
Pulls == {c \in calls : c.kind = "pull"}

\* The newest Limit traces of the window of the call.
Answer(c) == FirstOf([i \in 1..c.end |-> [id |-> c.end + 1 - i, at |-> 0]], Limit)

-----------------------------------------------------------------------------
(* The props: the page's range and window, and whether it is on screen *)

\* A new range restarts the search and the stream, and the poll with its window.
SetRange ==
  /\ Here /\ view.win < MaxWins
  /\ view' = [view EXCEPT !.win = @ + 1, !.end = view.written, !.stream = FALSE]
  /\ calls' = {Search("hydrate", view')}

\* A window that slides restarts only the poll.
SlideWindow ==
  /\ Here /\ view.win < MaxWins
  /\ view' = [view EXCEPT !.win = @ + 1, !.end = view.written]
  /\ calls' = calls \ Pulls

SetActive == Here /\ view' = [view EXCEPT !.active = ~@] /\ calls' = calls \ Pulls

Fresh(v) ==
  [v EXCEPT !.rows = <<>>, !.pending = <<>>, !.follow = TRUE, !.hover = FALSE, !.top = TRUE,
            !.stream = FALSE, !.got = <<>>]

\* The page shows an error in place of the feed, and later a new feed.
Remount ==
  /\ Here /\ view.win < MaxWins
  /\ view' = Fresh([view EXCEPT !.win = @ + 1, !.end = view.written])
  /\ calls' = {Search("hydrate", view')}

-----------------------------------------------------------------------------
(* Searches *)

Filled(v, found) ==
  [v EXCEPT !.rows = found, !.pending = <<>>, !.top = @ \/ found = <<>>]

Hydrated(c) ==
  /\ Here /\ c.kind = "hydrate" /\ calls' = calls \ {c}
  /\ view' = [Filled(view, Answer(c)) EXCEPT !.follow = TRUE, !.hover = FALSE,
                                            !.stream = TRUE, !.got = <<>>]

\* The stream is opened all the same.
HydrateFails(c) ==
  /\ Here /\ c.kind = "hydrate" /\ calls' = calls \ {c}
  /\ view' = [view EXCEPT !.stream = TRUE]

Pull ==
  /\ Here /\ view.active /\ view.rows = <<>> /\ Search("pull", view) \notin calls
  /\ calls' = calls \cup {Search("pull", view)}
  /\ UNCHANGED view

\* Wrong: the rows that have come while it waited are not looked at.
PullEnds_Replaces(c, ok) ==
  /\ Here /\ c.kind = "pull" /\ calls' = calls \ {c}
  /\ view' = IF ~ok \/ Answer(c) = <<>> THEN view ELSE Filled(view, Answer(c))

\* A pull fills the list only if it is still empty.
PullEnds(c, ok) ==
  /\ Here /\ c.kind = "pull" /\ calls' = calls \ {c}
  /\ view' = IF ~ok \/ Answer(c) = <<>> \/ view.rows # <<>> THEN view ELSE Filled(view, Answer(c))

-----------------------------------------------------------------------------
(* Live rows and the reader *)

Ingest(v, row) ==
  IF v.follow THEN [v EXCEPT !.rows = PrependLiveRow(@, row, Limit)]
  ELSE [v EXCEPT !.pending = PrependLiveRow(@, row, Limit)]

\* A trace is written, or written to again, and published to an open stream.
Publish(id) ==
  /\ Here /\ view.clock < MaxTraces /\ id <= view.written + 1
  /\ LET v == [view EXCEPT !.clock = @ + 1, !.written = IF id > @ THEN id ELSE @]
     IN  view' = IF ~v.stream THEN v
                 ELSE [Ingest(v, [id |-> id, at |-> v.clock]) EXCEPT !.got = Append(@, id)]
  /\ UNCHANGED calls

\* Wrong: waiting rows do not keep the reader from following.
Synced_DespitePending(v) == [v EXCEPT !.follow = v.top /\ ~v.hover]

\* syncFollow
Synced(v) == [v EXCEPT !.follow = v.top /\ ~v.hover /\ v.pending = <<>>]

Scroll ==
  /\ Here /\ view.rows # <<>> /\ view' = Synced([view EXCEPT !.top = ~@]) /\ UNCHANGED calls
PointerEnter ==
  /\ Here /\ view.rows # <<>>
  /\ view' = [view EXCEPT !.hover = TRUE, !.follow = FALSE] /\ UNCHANGED calls
PointerLeave == Here /\ view' = Synced([view EXCEPT !.hover = FALSE]) /\ UNCHANGED calls

\* The "N new" button: applyPending, scroll to the top, follow.
ShowPending ==
  /\ Here /\ view.pending # <<>>
  /\ view' = [view EXCEPT !.rows = FlushPending(@, view.pending, Limit), !.pending = <<>>,
                          !.hover = FALSE, !.top = TRUE, !.follow = TRUE]
  /\ UNCHANGED calls

Init ==
  /\ view = [page |-> "activity", active |-> TRUE, win |-> 1, end |-> 0, written |-> 0,
             clock |-> 0, rows |-> <<>>, pending |-> <<>>, follow |-> TRUE, hover |-> FALSE,
             top |-> TRUE, stream |-> FALSE, got |-> <<>>]
  /\ calls = {Search("hydrate", view)}

Next ==
  \/ SetRange \/ SlideWindow \/ SetActive \/ Remount
  \/ Pull \/ Scroll \/ PointerEnter \/ PointerLeave \/ ShowPending
  \/ \E id \in 1..MaxTraces : Publish(id)
  \/ \E c \in calls : \/ Hydrated(c) \/ HydrateFails(c)
                      \/ \E ok \in BOOLEAN : PullEnds(c, ok)

-----------------------------------------------------------------------------
(* Properties *)

\* The latest Limit rows received since the list was filled are in it or wait
\* behind the button; a list that is followed has none waiting; a trace is
\* listed once and the newest is on top.
LosesNothing ==
  LET recent == {view.got[i] : i \in {j \in DOMAIN view.got : Len(view.got) - j < Limit}}
  IN  /\ recent \subseteq Ids(view.rows) \cup Ids(view.pending)
      /\ view.follow => view.pending = <<>>
      /\ Distinct(view.rows) /\ Descending(view.rows)
=============================================================================
