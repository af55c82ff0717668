--------------------------- MODULE WebPagesProofs ----------------------------
(***************************************************************************)
(* Theorems about WebPages, for every set of services, traces, spans,      *)
(* names, charts and sizes, and every bound.                               *)
(*                                                                         *)
(* First the two pages with live lists, the activity feed and the logs.    *)
(* Each step moves a row of the stream down by one place at most, in the   *)
(* list it is in or from the list that waits to the one on screen, so that *)
(* a row received is no further down than rows have come since.  Both      *)
(* lists together count as one here, the waiting rows on top.              *)
(*                                                                         *)
(* Then the windows and URLs of QueryWindow: what is widened to hold a row *)
(* or the present is at least Slack long, cutting keeps at least that, and *)
(* writing a window's ends in whole seconds moves each by half a second at *)
(* most; that this does not make a window of the largest size larger is a  *)
(* matter of parity.                                                       *)
(*                                                                         *)
(* For each page: the set its state is of, the invariant that its steps    *)
(* keep (its name ends in Inv), a lemma that the page starts with it       *)
(* (Starts), lemmas for its steps (Steps) and, where the properties are    *)
(* not parts of it, one that they follow (Safe).  The argument is much the *)
(* same everywhere: the invariant says of the calls under way which may    *)
(* still write to the page, and what these were asked for.                 *)
(*                                                                         *)
(* Then the layout of the service map.  Search is the invariant of its     *)
(* breadth-first walk, over the turns of the loop: a turn whose frontier   *)
(* is not empty places a service, so that the walk ends by itself before   *)
(* its bound, and a service placed was called from the column before.  The *)
(* boxes are bounded column by column, with the gaps that the free space   *)
(* leaves.  The last section puts the pages together.                      *)
(***************************************************************************)
EXTENDS WebPages, LiveRowsProofs

-----------------------------------------------------------------------------
(* The feed: its lists *)

\* The feed uses the helpers of LiveRows.
LEMMA FeedMerges ==
  ASSUME NEW rows, NEW row, NEW limit
  PROVE  Feed!PrependLiveRow(rows, row, limit) = PrependLiveRow(rows, row, limit)
<1>1. Feed!Without(rows, row.id) = Without(rows, row.id)
  BY DEF Feed!Without, Without
<1> QED
  BY <1>1 DEF Feed!PrependLiveRow, Feed!FirstOf, PrependLiveRow, FirstOf

LEMMA FeedFlushes ==
  ASSUME NEW rows, NEW pending, NEW limit
  PROVE  Feed!FlushPending(rows, pending, limit) = FlushPending(rows, pending, limit)
BY DEF Feed!FlushPending, Feed!PrependLiveRow, Feed!FirstOf, Feed!Without,
       FlushPending, PrependLiveRow, FirstOf, Without

FeedRows == [id : Nat, at : Nat]
FeedViews ==
  [page : {"activity"}, active : BOOLEAN, win : Nat, end : Nat, written : Nat, clock : Nat, rows : Seq(FeedRows),
   pending : Seq(FeedRows), follow : BOOLEAN, hover : BOOLEAN, top : BOOLEAN, stream : BOOLEAN, got : Seq(Nat)]
FeedCalls == [kind : {"hydrate", "pull"}, win : Nat, end : Nat]

\* Both lists are short, show a trace once, and hold what came up to now, the
\* waiting rows after those in the list.
ShortList(rows, clock) == Len(rows) <= FeedLimit /\ Distinct(rows) /\ \A i \in DOMAIN rows : rows[i].at <= clock
FeedOrder(v) == ShortList(v.rows, v.clock) /\ ShortList(v.pending, v.clock) /\ Descending(v.pending \o v.rows)

\* The id is at most at this place of the list.
Within(rows, id, place) == \E k \in DOMAIN rows : k <= place /\ rows[k].id = id

\* A row received is no further down than rows have come since.
FeedHolds(v) ==
  \A j \in DOMAIN v.got : LET since == Len(v.got) - j
                          IN  since < FeedLimit => \/ Within(v.pending, v.got[j], since + 1)
                                                   \/ Within(v.rows, v.got[j], since + 1 - Len(v.pending))

\* A list that is followed has no row waiting, and an empty one is followed.
FeedFollows(v) ==
  /\ v.follow => v.pending = <<>>
  /\ v.rows = <<>> => v.follow /\ v.top /\ ~v.hover /\ v.got = <<>>

FeedState(v) == v \in FeedViews /\ FeedOrder(v) /\ FeedHolds(v) /\ FeedFollows(v)
FeedInv == FeedState(view) /\ calls \subseteq FeedCalls

LEMMA FeedSafe == FeedInv => Feed!LosesNothing
<1> SUFFICES ASSUME FeedInv PROVE Feed!LosesNothing
  OBVIOUS
<1>1. view \in FeedViews /\ FeedOrder(view) /\ FeedHolds(view) /\ FeedFollows(view)
  BY DEF FeedInv, FeedState
<1>2. view.rows \in Seq(FeedRows) /\ view.pending \in Seq(FeedRows) /\ view.got \in Seq(Nat)
  BY <1>1 DEF FeedViews
<1>3. Descending(view.rows) /\ Distinct(view.rows)
  BY <1>1, <1>2, DescendingConcat DEF FeedOrder, ShortList
<1>4. ASSUME NEW j \in DOMAIN view.got, Len(view.got) - j < FeedLimit
      PROVE  view.got[j] \in Ids(view.rows) \cup Ids(view.pending)
  BY <1>1, <1>4 DEF FeedHolds, Within, Ids
<1>5. Feed!Ids(view.rows) = Ids(view.rows) /\ Feed!Ids(view.pending) = Ids(view.pending)
  BY DEF Feed!Ids, Ids
<1>6. Feed!Distinct(view.rows) /\ Feed!Descending(view.rows)
  BY <1>3 DEF Feed!Distinct, Distinct, Feed!Descending, Descending
<1> QED
  BY <1>1, <1>4, <1>5, <1>6 DEF Feed!LosesNothing, FeedFollows

LEMMA FeedStarts == Feed!Init => FeedInv
<1> SUFFICES ASSUME Feed!Init PROVE FeedInv
  OBVIOUS
<1> DEFINE w == [page |-> "activity", active |-> TRUE, win |-> 1, end |-> 0, written |-> 0,
             clock |-> 0, rows |-> <<>>, pending |-> <<>>, follow |-> TRUE, hover |-> FALSE,
             top |-> TRUE, stream |-> FALSE, got |-> <<>>]
<1>1. view = w /\ calls = {Feed!Search("hydrate", w)}
  BY DEF Feed!Init
<1>2. w \in FeedViews /\ Feed!Search("hydrate", w) \in FeedCalls
  BY DEF FeedViews, FeedCalls, Feed!Search
<1>3. ShortList(<<>>, 0) /\ Descending(<<>> \o <<>>)
  BY WebAssumption DEF ShortList, Distinct, Descending
<1>4. FeedOrder(w) /\ FeedHolds(w) /\ FeedFollows(w)
  BY <1>3 DEF FeedOrder, FeedHolds, FeedFollows
<1> QED
  BY <1>1, <1>2, <1>4 DEF FeedInv, FeedState

\* A search answers with different traces, none of them live.
LEMMA FeedAnswers ==
  ASSUME NEW c \in FeedCalls, NEW clock \in Nat
  PROVE  LET found == Feed!Answer(c)
         IN  found \in Seq(FeedRows) /\ ShortList(found, clock) /\ Descending(<<>> \o found)
<1> DEFINE all == [i \in 1..c.end |-> [id |-> c.end + 1 - i, at |-> 0]]
           found == FirstOf(all, FeedLimit)
<1>1. Feed!Answer(c) = found
  BY DEF Feed!Answer, Feed!FirstOf, FirstOf
<1>2. c.end \in Nat /\ FeedLimit \in Nat
  BY WebAssumption DEF FeedCalls
<1>3. /\ all \in Seq(FeedRows) /\ Len(all) = c.end
      /\ \A i \in 1..c.end : all[i].id = c.end + 1 - i /\ all[i].at = 0
  <2>1. \A i \in 1..c.end : [id |-> c.end + 1 - i, at |-> 0] \in FeedRows
    BY <1>2 DEF FeedRows
  <2> QED
    BY <1>2, <2>1
<1> HIDE DEF all
<1>4. /\ found \in Seq(FeedRows) /\ Len(found) <= FeedLimit
      /\ \A i \in DOMAIN found : i \in DOMAIN all /\ found[i] = all[i]
  BY <1>2, <1>3, FirstOfList
<1> HIDE DEF found
<1>5. \A i \in DOMAIN found : i \in 1..c.end /\ found[i].id = c.end + 1 - i /\ found[i].at = 0
  BY <1>3, <1>4
<1>6. Distinct(found)
  BY <1>2, <1>5 DEF Distinct
<1>7. <<>> \o found = found
  BY <1>4
<1>8. Descending(found)
  BY <1>5 DEF Descending
<1> QED
  BY <1>1, <1>4, <1>5, <1>6, <1>7, <1>8 DEF ShortList

\* What a step that leaves the lists alone has to keep.
LEMMA FeedQuiet ==
  ASSUME FeedInv, NEW w \in FeedViews, w.rows = view.rows, w.pending = view.pending, w.got = view.got,
         w.clock = view.clock, FeedFollows(w)
  PROVE  FeedState(w)
BY DEF FeedInv, FeedState, FeedOrder, FeedHolds

\* A list that is filled, or emptied, before anything more has come.
LEMMA FeedRefilled ==
  ASSUME NEW w \in FeedViews, ShortList(w.rows, w.clock), Descending(<<>> \o w.rows), w.pending = <<>>, w.got = <<>>,
         w.rows = <<>> => w.follow /\ w.top /\ ~w.hover
  PROVE  FeedState(w)
<1>1. ShortList(<<>>, w.clock)
  BY WebAssumption DEF ShortList, Distinct
<1>2. FeedOrder(w)
  BY <1>1 DEF FeedOrder
<1>3. FeedHolds(w) /\ FeedFollows(w)
  BY DEF FeedHolds, FeedFollows
<1> QED
  BY <1>2, <1>3 DEF FeedState

LEMMA FeedPage ==
  ASSUME FeedInv, Feed!SetRange \/ Feed!SlideWindow \/ Feed!SetActive \/ Feed!Remount \/ Feed!Pull
  PROVE  FeedInv'
<1>0. view \in FeedViews /\ FeedFollows(view) /\ calls \subseteq FeedCalls
  BY DEF FeedInv, FeedState
<1>1. ASSUME NEW w \in FeedViews, NEW kind \in {"hydrate", "pull"} PROVE Feed!Search(kind, w) \in FeedCalls
  BY DEF FeedViews, FeedCalls, Feed!Search
<1> DEFINE n == view.win + 1
<1>2. n \in Nat /\ view.written \in Nat
  BY <1>0 DEF FeedViews
<1> HIDE DEF n
<1>3. ASSUME NEW stream \in BOOLEAN, view' = [view EXCEPT !.win = n, !.end = view.written, !.stream = stream]
      PROVE  view' \in FeedViews /\ FeedState(view')
  <2> DEFINE w == [view EXCEPT !.win = n, !.end = view.written, !.stream = stream]
  <2>1. /\ w \in FeedViews /\ w.rows = view.rows /\ w.pending = view.pending /\ w.got = view.got
        /\ w.clock = view.clock /\ w.follow = view.follow /\ w.top = view.top /\ w.hover = view.hover
    BY Zenon, <1>0, <1>2 DEF FeedViews
  <2> HIDE DEF w
  <2>2. FeedFollows(w)
    BY <1>0, <2>1 DEF FeedFollows
  <2>3. FeedState(w)
    BY <2>1, <2>2, FeedQuiet
  <2> QED
    BY <1>3, <2>1, <2>3 DEF w
<1>4. CASE Feed!SetRange
  <2>1. view' = [view EXCEPT !.win = n, !.end = view.written, !.stream = FALSE]
        /\ calls' = {Feed!Search("hydrate", view')}
    BY <1>0, <1>4 DEF Feed!SetRange, FeedViews, n
  <2> QED
    BY Zenon, <1>1, <1>3, <2>1 DEF FeedInv
<1>5. CASE Feed!SlideWindow
  <2>1. view' = [view EXCEPT !.win = n, !.end = view.written, !.stream = view.stream] /\ calls' \subseteq calls
    BY Zenon, <1>0, <1>5 DEF Feed!SlideWindow, FeedViews, n
  <2>2. view.stream \in BOOLEAN
    BY <1>0 DEF FeedViews
  <2> QED
    BY Zenon, <1>0, <1>3, <2>1, <2>2 DEF FeedInv
<1>6. CASE Feed!SetActive
  <2> DEFINE w == [view EXCEPT !.active = ~view.active]
  <2>1. view' = w /\ calls' \subseteq calls
    BY <1>0, <1>6 DEF Feed!SetActive, FeedViews
  <2>2. /\ w \in FeedViews /\ w.rows = view.rows /\ w.pending = view.pending /\ w.got = view.got
        /\ w.clock = view.clock /\ w.follow = view.follow /\ w.top = view.top /\ w.hover = view.hover
    BY Zenon, <1>0 DEF FeedViews
  <2> HIDE DEF w
  <2>3. FeedFollows(w)
    BY <1>0, <2>2 DEF FeedFollows
  <2>4. FeedState(w)
    BY <2>2, <2>3, FeedQuiet
  <2> QED
    BY <1>0, <2>1, <2>4 DEF FeedInv
<1>7. CASE Feed!Remount
  <2> DEFINE w == [view EXCEPT !.win = n, !.end = view.written, !.rows = <<>>, !.pending = <<>>, !.follow = TRUE,
                               !.hover = FALSE, !.top = TRUE, !.stream = FALSE, !.got = <<>>]
  <2>1. view' = w /\ calls' = {Feed!Search("hydrate", view')}
    BY <1>0, <1>7 DEF Feed!Remount, Feed!Fresh, FeedViews, n
  <2>2. w \in FeedViews /\ w.rows = <<>> /\ w.pending = <<>> /\ w.got = <<>> /\ w.follow /\ w.top /\ ~w.hover
    <3>1. <<>> \in Seq(FeedRows) /\ <<>> \in Seq(Nat)
      OBVIOUS
    <3> QED
      BY Zenon, <1>0, <1>2, <3>1 DEF FeedViews
  <2> HIDE DEF w
  <2>3. ShortList(<<>>, w.clock) /\ Descending(<<>> \o <<>>)
    BY WebAssumption DEF ShortList, Distinct, Descending
  <2>4. FeedState(w)
    BY <2>2, <2>3, FeedRefilled
  <2> QED
    BY <1>1, <2>1, <2>2, <2>4 DEF FeedInv
<1>8. CASE Feed!Pull
  <2>1. view' = view /\ calls' = calls \cup {Feed!Search("pull", view)}
    BY <1>8 DEF Feed!Pull
  <2> QED
    BY <1>0, <1>1, <2>1 DEF FeedInv
<1> QED
  BY <1>4, <1>5, <1>6, <1>7, <1>8

LEMMA FeedReader ==
  ASSUME FeedInv, Feed!Scroll \/ Feed!PointerEnter \/ Feed!PointerLeave
  PROVE  FeedInv'
<1>0. view \in FeedViews /\ FeedFollows(view) /\ calls \subseteq FeedCalls
  BY DEF FeedInv, FeedState
<1>1. \E top \in BOOLEAN, hover \in BOOLEAN, follow \in BOOLEAN :
        /\ view' = [view EXCEPT !.top = top, !.hover = hover, !.follow = follow] /\ calls' = calls
        /\ follow => view.pending = <<>>
        /\ view.rows = <<>> => follow /\ top /\ ~hover
  <2> DEFINE follow(top, hover) == top /\ ~hover /\ view.pending = <<>>
  <2>0. view.rows = <<>> => view.pending = <<>>
    BY <1>0 DEF FeedFollows
  <2>1. CASE Feed!Scroll
    <3>1. view' = [view EXCEPT !.top = ~view.top, !.hover = view.hover, !.follow = follow(~view.top, view.hover)]
          /\ calls' = calls /\ view.rows # <<>>
      BY Zenon, <1>0, <2>1 DEF Feed!Scroll, Feed!Synced, FeedViews
    <3>2. (~view.top) \in BOOLEAN /\ view.hover \in BOOLEAN
      BY <1>0 DEF FeedViews
    <3>3. follow(~view.top, view.hover) \in BOOLEAN
      BY Zenon
    <3> QED
      BY Zenon, <3>1, <3>2, <3>3
  <2>2. CASE Feed!PointerEnter
    <3>1. view' = [view EXCEPT !.top = view.top, !.hover = TRUE, !.follow = FALSE]
          /\ calls' = calls /\ view.rows # <<>> /\ view.top \in BOOLEAN
      BY Zenon, <1>0, <2>2 DEF Feed!PointerEnter, FeedViews
    <3> QED
      BY Zenon, <3>1
  <2>3. CASE Feed!PointerLeave
    <3>1. view' = [view EXCEPT !.top = view.top, !.hover = FALSE, !.follow = follow(view.top, FALSE)]
          /\ calls' = calls
      BY Zenon, <1>0, <2>3 DEF Feed!PointerLeave, Feed!Synced, FeedViews
    <3>2. view.top \in BOOLEAN /\ follow(view.top, FALSE) \in BOOLEAN
      BY <1>0 DEF FeedViews
    <3>3. view.rows = <<>> => follow(view.top, FALSE) /\ view.top
      BY <1>0, <2>0 DEF FeedFollows
    <3> QED
      BY Zenon, <3>1, <3>2, <3>3
  <2> QED
    BY Zenon, <2>1, <2>2, <2>3
<1>2. PICK top \in BOOLEAN, hover \in BOOLEAN, follow \in BOOLEAN :
        /\ view' = [view EXCEPT !.top = top, !.hover = hover, !.follow = follow] /\ calls' = calls
        /\ follow => view.pending = <<>>
        /\ view.rows = <<>> => follow /\ top /\ ~hover
  BY Zenon, <1>1
<1> DEFINE w == [view EXCEPT !.top = top, !.hover = hover, !.follow = follow]
<1>3. /\ w \in FeedViews /\ w.rows = view.rows /\ w.pending = view.pending /\ w.got = view.got
      /\ w.clock = view.clock /\ w.follow = follow /\ w.top = top /\ w.hover = hover
  BY Zenon, <1>0 DEF FeedViews
<1>4. view' = w
  BY <1>2
<1> HIDE DEF w
<1>5. FeedFollows(w)
  BY <1>0, <1>2, <1>3 DEF FeedFollows
<1>6. FeedState(w)
  BY <1>3, <1>5, FeedQuiet
<1> QED
  BY <1>0, <1>2, <1>4, <1>6 DEF FeedInv

LEMMA FeedSearches ==
  ASSUME FeedInv, NEW c \in calls,
         Feed!Hydrated(c) \/ Feed!HydrateFails(c) \/ \E ok \in BOOLEAN : Feed!PullEnds(c, ok)
  PROVE  FeedInv'
<1>0. view \in FeedViews /\ FeedFollows(view) /\ calls \subseteq FeedCalls /\ c \in FeedCalls
  BY DEF FeedInv, FeedState
<1> DEFINE found == Feed!Answer(c)
           top == view.top \/ found = <<>>
<1>1. found \in Seq(FeedRows) /\ ShortList(found, view.clock) /\ Descending(<<>> \o found)
  BY <1>0, FeedAnswers DEF FeedViews
<1>2. top \in BOOLEAN /\ <<>> \in Seq(FeedRows) /\ <<>> \in Seq(Nat) /\ (found = <<>> => top)
  BY <1>0 DEF FeedViews
<1>3. CASE Feed!Hydrated(c)
  <2> DEFINE w == [view EXCEPT !.rows = found, !.pending = <<>>, !.top = top, !.follow = TRUE, !.hover = FALSE,
                               !.stream = TRUE, !.got = <<>>]
  <2>1. view' = w /\ calls' \subseteq calls
    BY <1>0, <1>3 DEF Feed!Hydrated, Feed!Filled, FeedViews
  <2> HIDE DEF top, found
  <2>2. /\ w \in FeedViews /\ w.rows = found /\ w.pending = <<>> /\ w.got = <<>> /\ w.clock = view.clock
        /\ w.follow /\ ~w.hover /\ w.top = top
    BY Zenon, <1>0, <1>1, <1>2 DEF FeedViews
  <2> HIDE DEF w
  <2>3. FeedState(w)
    BY <1>1, <1>2, <2>2, FeedRefilled
  <2> QED
    BY <1>0, <2>1, <2>3 DEF FeedInv
<1>4. CASE Feed!HydrateFails(c)
  <2> DEFINE w == [view EXCEPT !.stream = TRUE]
  <2>1. view' = w /\ calls' \subseteq calls
    BY <1>0, <1>4 DEF Feed!HydrateFails, FeedViews
  <2>2. /\ w \in FeedViews /\ w.rows = view.rows /\ w.pending = view.pending /\ w.got = view.got
        /\ w.clock = view.clock /\ w.follow = view.follow /\ w.top = view.top /\ w.hover = view.hover
    BY Zenon, <1>0 DEF FeedViews
  <2> HIDE DEF w
  <2>3. FeedFollows(w)
    BY <1>0, <2>2 DEF FeedFollows
  <2>4. FeedState(w)
    BY <2>2, <2>3, FeedQuiet
  <2> QED
    BY <1>0, <2>1, <2>4 DEF FeedInv
<1>5. ASSUME NEW ok \in BOOLEAN, Feed!PullEnds(c, ok) PROVE FeedInv'
  <2> DEFINE w == [view EXCEPT !.rows = found, !.pending = <<>>, !.top = top]
  <2>1. calls' \subseteq calls /\ (view' = view \/ (view' = w /\ view.rows = <<>> /\ found # <<>>))
    BY <1>0, <1>5 DEF Feed!PullEnds, Feed!Filled, FeedViews
  <2> HIDE DEF top, found
  <2>2. /\ w \in FeedViews /\ w.rows = found /\ w.pending = <<>> /\ w.got = view.got /\ w.clock = view.clock
    BY Zenon, <1>0, <1>1, <1>2 DEF FeedViews
  <2> HIDE DEF w
  <2>3. ASSUME view.rows = <<>>, found # <<>> PROVE FeedState(w)
    BY <1>0, <1>1, <2>2, <2>3, FeedRefilled DEF FeedFollows
  <2> QED
    BY <1>0, <2>1, <2>3 DEF FeedInv
<1> QED
  BY <1>3, <1>4, <1>5

\* What prepending a row does to a list that is short.
LEMMA FeedPrepend ==
  ASSUME NEW rows \in Seq(FeedRows), NEW clock \in Nat, ShortList(rows, clock), NEW id \in Nat, NEW at \in Nat,
         at > clock
  PROVE  LET new == Feed!PrependLiveRow(rows, [id |-> id, at |-> at], FeedLimit)
         IN  /\ new \in Seq(FeedRows) /\ new # <<>> /\ Len(new) <= Len(rows) + 1
             /\ ShortList(new, at)
             /\ \A low \in Seq(FeedRows) :
                  (\A i \in DOMAIN low : low[i].at <= clock) /\ Descending(rows \o low) => Descending(new \o low)
             /\ Within(new, id, 1)
             /\ \A old, since \in Nat : since + 1 < FeedLimit /\ Within(rows, old, since + 1) =>
                  Within(new, old, since + 2)
<1> DEFINE row == [id |-> id, at |-> at]
           new == PrependLiveRow(rows, row, FeedLimit)
<1>1. Feed!PrependLiveRow(rows, row, FeedLimit) = new
  BY FeedMerges
<1>2. row \in FeedRows /\ row.id = id /\ row.at = at /\ FeedLimit \in Nat \ {0}
  BY WebAssumption DEF FeedRows
<1> HIDE DEF row
<1>3. new \in Seq(FeedRows) /\ Merged(new, rows, row, FeedLimit)
  BY <1>2, PrependList
<1> HIDE DEF new
<1>4. Len(new) \in Nat /\ Len(new) >= 1 /\ Len(new) <= FeedLimit /\ Len(new) <= Len(rows) + 1 /\ new[1] = row
  BY <1>2, <1>3 DEF Merged
<1>5. \A i \in DOMAIN rows : rows[i] \in FeedRows /\ rows[i].at \in Nat /\ rows[i].at <= clock
  <2>1. \A i \in DOMAIN rows : rows[i] \in FeedRows
    OBVIOUS
  <2>2. \A i \in DOMAIN rows : rows[i].at \in Nat
    BY <2>1 DEF FeedRows
  <2>3. \A i \in DOMAIN rows : rows[i].at <= clock
    BY DEF ShortList
  <2> QED
    BY <2>1, <2>2, <2>3
<1>6. \A k \in 2..Len(new) : \E a \in DOMAIN rows : new[k] = rows[a]
  <2>1. DOMAIN rows = 1..Len(rows)
    OBVIOUS
  <2>2. \A k \in 2..Len(new) : \E a \in 1..Len(rows) : new[k] = rows[a]
    BY <1>3, Zenon DEF Merged
  <2> QED
    BY <2>1, <2>2
<1>7. \A k \in DOMAIN new : k = 1 \/ k \in 2..Len(new)
  BY <1>3, <1>4
<1>8. \A k \in DOMAIN new : new[k].at <= at
  <2> SUFFICES ASSUME NEW k \in DOMAIN new PROVE new[k].at <= at
    OBVIOUS
  <2>1. CASE k = 1
    BY <1>2, <1>4, <2>1
  <2>2. CASE k \in 2..Len(new)
    <3>1. PICK a \in DOMAIN rows : new[k] = rows[a]
      BY <1>6, <2>2
    <3> QED
      BY <1>5, <3>1
  <2> QED
    BY <1>7, <2>1, <2>2
<1>9. Distinct(new)
  BY <1>2, <1>3, MergedDistinct DEF ShortList
<1>10. Above(<<row>>, rows)
  <2>1. \A i \in DOMAIN rows : at > rows[i].at
    BY <1>5
  <2> QED
    BY <1>2, <2>1 DEF Above
<1>11. ASSUME NEW low \in Seq(FeedRows), \A i \in DOMAIN low : low[i].at <= clock, Descending(rows \o low)
       PROVE  Descending(new \o low)
  <2>1. Descending(rows) /\ Descending(low) /\ Above(rows, low)
    BY <1>11, DescendingConcat
  <2>2. Descending(new)
    BY <1>2, <1>3, <1>10, <2>1, MergedDescending
  <2>3. Above(new, low)
    <3> SUFFICES ASSUME NEW k \in DOMAIN new, NEW j \in DOMAIN low PROVE new[k].at > low[j].at \/ low[j].at = 0
      BY DEF Above
    <3>1. CASE k = 1
      <4>1. low[j] \in FeedRows /\ low[j].at <= clock
        BY <1>11
      <4>2. low[j].at \in Nat
        BY <4>1 DEF FeedRows
      <4> QED
        BY <1>2, <1>4, <3>1, <4>1, <4>2
    <3>2. CASE k \in 2..Len(new)
      <4>1. PICK a \in DOMAIN rows : new[k] = rows[a]
        BY <1>6, <3>2
      <4> QED
        BY <2>1, <4>1 DEF Above
    <3> QED
      BY <1>7, <3>1, <3>2
  <2> QED
    BY <1>3, <2>1, <2>2, <2>3, DescendingConcat
<1>12. Within(new, id, 1)
  BY <1>2, <1>3, <1>4 DEF Within
<1>13. ASSUME NEW old \in Nat, NEW since \in Nat, since + 1 < FeedLimit, Within(rows, old, since + 1)
       PROVE  Within(new, old, since + 2)
  <2>1. PICK a \in DOMAIN rows : a <= since + 1 /\ rows[a].id = old
    BY <1>13 DEF Within
  <2>2. CASE old = id
    BY <1>2, <1>3, <1>4, <2>2 DEF Within
  <2>3. CASE old # id
    <3>1. a \in 1..Len(rows) /\ rows[a].id # row.id /\ a < FeedLimit
      BY <1>2, <1>13, <2>1, <2>3
    <3>2. PICK k \in 2..Len(new) : k <= a + 1 /\ new[k] = rows[a]
      BY Zenon, <1>3, <3>1 DEF Merged
    <3>3. k \in DOMAIN new /\ k <= since + 2
      BY <1>3, <2>1, <3>1, <3>2
    <3> QED
      BY <2>1, <3>2, <3>3 DEF Within
  <2> QED
    BY <2>2, <2>3
<1> QED
  BY <1>1, <1>3, <1>4, <1>8, <1>9, <1>11, <1>12, <1>13 DEF ShortList, row

\* One more row on top: places move down by one at most.
LEMMA DownByOne ==
  ASSUME NEW place \in Nat, NEW since \in Nat, NEW before \in Nat, NEW after \in Nat,
         place <= since + 1 - before, after <= before + 1
  PROVE  place <= since + 2 - after
OBVIOUS

LEMMA FeedPublishes ==
  ASSUME FeedInv, NEW id \in Nat, Feed!Publish(id)
  PROVE  FeedInv'
<1> DEFINE at == view.clock + 1
           written == IF id > view.written THEN id ELSE view.written
           v == [view EXCEPT !.clock = at, !.written = written]
           row == [id |-> id, at |-> at]
           n == Len(view.got)
           got == Append(view.got, id)
<1>0. /\ view \in FeedViews /\ FeedOrder(view) /\ FeedHolds(view) /\ FeedFollows(view) /\ calls' = calls
      /\ calls \subseteq FeedCalls
  BY DEF FeedInv, FeedState, Feed!Publish
<1>1. /\ view.clock \in Nat /\ at \in Nat /\ written \in Nat /\ at > view.clock
      /\ view.rows \in Seq(FeedRows) /\ view.pending \in Seq(FeedRows) /\ view.got \in Seq(Nat)
      /\ view.stream \in BOOLEAN /\ view.follow \in BOOLEAN
  BY <1>0 DEF FeedViews
<1>2. view' = IF ~view.stream THEN v ELSE [Feed!Ingest(v, row) EXCEPT !.got = got]
  <2>1. v.clock = at /\ v.got = view.got
    BY <1>0 DEF FeedViews
  <2>2. \A w \in {v, Feed!Ingest(v, row)} : w.got = view.got
    BY Zenon, <1>0, <2>1 DEF Feed!Ingest, FeedViews
  <2>3. view' = IF ~view.stream THEN v ELSE [Feed!Ingest(v, row) EXCEPT !.got = Append(@, id)]
    BY <1>0, <2>1 DEF Feed!Publish, FeedViews
  <2>4. view.stream => "got" \in DOMAIN Feed!Ingest(v, row)
    BY <1>0 DEF Feed!Ingest, FeedViews
  <2> HIDE DEF v, row
  <2> QED
    BY Zenon, <2>2, <2>3, <2>4
<1>3. /\ n \in Nat /\ got \in Seq(Nat) /\ DOMAIN got = 1..(n + 1) /\ Len(got) = n + 1 /\ got[n + 1] = id
      /\ \A j \in 1..n : got[j] = view.got[j] /\ got[j] \in Nat
  BY <1>1, SMTT(30)
<1> HIDE DEF at, written, got
<1>4. \A rows \in Seq(FeedRows) : ShortList(rows, view.clock) => ShortList(rows, at)
  <2> SUFFICES ASSUME NEW rows \in Seq(FeedRows), ShortList(rows, view.clock) PROVE ShortList(rows, at)
    OBVIOUS
  <2>1. \A i \in DOMAIN rows : rows[i] \in FeedRows
    OBVIOUS
  <2>2. \A i \in DOMAIN rows : rows[i].at \in Nat
    BY <2>1 DEF FeedRows
  <2> QED
    BY <1>1, <2>2 DEF ShortList
<1>5. CASE ~view.stream
  <2>1. /\ v \in FeedViews /\ v.rows = view.rows /\ v.pending = view.pending /\ v.got = view.got
        /\ v.clock = at /\ v.follow = view.follow /\ v.top = view.top /\ v.hover = view.hover
    BY Zenon, <1>0, <1>1 DEF FeedViews
  <2>2. view' = v
    BY <1>2, <1>5
  <2> HIDE DEF v
  <2>3. FeedOrder(v) /\ FeedHolds(v) /\ FeedFollows(v)
    BY <1>0, <1>1, <1>4, <2>1 DEF FeedOrder, FeedHolds, FeedFollows
  <2> QED
    BY <1>0, <2>1, <2>2, <2>3 DEF FeedInv, FeedState
<1>6. ASSUME NEW j \in 1..n, (n + 1) - j < FeedLimit
      PROVE  /\ n - j \in Nat /\ (n - j) + 1 < FeedLimit /\ (n + 1) - j + 1 = (n - j) + 2
             /\ \/ Within(view.pending, got[j], (n - j) + 1)
                \/ Within(view.rows, got[j], (n - j) + 1 - Len(view.pending))
  <2>1. FeedLimit \in Nat
    BY WebAssumption
  <2>2. n - j \in Nat /\ (n - j) + 1 < FeedLimit /\ n - j < FeedLimit /\ (n + 1) - j + 1 = (n - j) + 2
    BY <1>3, <1>6, <2>1
  <2>3. got[j] = view.got[j] /\ j \in DOMAIN view.got
    BY <1>1, <1>3
  <2> QED
    BY Zenon, <1>0, <2>2, <2>3 DEF FeedHolds
<1>7. CASE view.stream /\ view.follow
  <2> DEFINE new == Feed!PrependLiveRow(view.rows, row, FeedLimit)
             w == [view EXCEPT !.clock = at, !.written = written, !.rows = new, !.got = got]
  <2>1. view' = w
    <3>1. v.follow = view.follow /\ v.rows = view.rows
      BY <1>0 DEF FeedViews
    <3>2. Feed!Ingest(v, row) = [v EXCEPT !.rows = new]
      BY <1>0, <1>7, <3>1 DEF Feed!Ingest, FeedViews
    <3> HIDE DEF new, row
    <3>3. [[v EXCEPT !.rows = new] EXCEPT !.got = got] = w
      BY <1>0 DEF FeedViews
    <3> HIDE DEF v, w
    <3> QED
      BY <1>2, <1>7, <3>2, <3>3
  <2>2. view.pending = <<>> /\ Descending(view.rows \o <<>>) /\ ShortList(view.rows, view.clock)
    <3>1. view.pending = <<>> /\ <<>> \in Seq(FeedRows)
      BY <1>0, <1>7 DEF FeedFollows
    <3>2. Descending(view.rows)
      BY <1>0, <1>1, DescendingConcat DEF FeedOrder
    <3>3. Descending(<<>>) /\ Above(view.rows, <<>>)
      BY DEF Descending, Above
    <3>4. Descending(view.rows \o <<>>)
      BY <1>1, <3>1, <3>2, <3>3, DescendingConcat
    <3> QED
      BY <1>0, <3>1, <3>4 DEF FeedOrder
  <2>3. /\ new \in Seq(FeedRows) /\ new # <<>> /\ ShortList(new, at) /\ Within(new, id, 1)
        /\ \A low \in Seq(FeedRows) :
             (\A i \in DOMAIN low : low[i].at <= view.clock) /\ Descending(view.rows \o low) => Descending(new \o low)
        /\ \A old, since \in Nat : since + 1 < FeedLimit /\ Within(view.rows, old, since + 1) =>
             Within(new, old, since + 2)
    BY Zenon, <1>1, <2>2, FeedPrepend
  <2> HIDE DEF new, row, v
  <2>4. /\ w \in FeedViews /\ w.rows = new /\ w.pending = view.pending /\ w.got = got
        /\ w.clock = at /\ w.follow = view.follow
    BY Zenon, <1>0, <1>1, <1>3, <2>3 DEF FeedViews
  <2> HIDE DEF w
  <2>5. Descending(<<>> \o new)
    <3>1. <<>> \in Seq(FeedRows) /\ Descending(new \o <<>>)
      <4>1. <<>> \in Seq(FeedRows) /\ \A i \in DOMAIN <<>> : <<>>[i].at <= view.clock
        OBVIOUS
      <4> QED
        BY Zenon, <2>2, <2>3, <4>1
    <3>2. Descending(new) /\ Descending(<<>>) /\ Above(<<>>, new)
      <4>1. Above(<<>>, new) /\ Descending(<<>>)
        BY DEF Above, Descending
      <4> QED
        BY <2>3, <3>1, <4>1, DescendingConcat
    <3> QED
      BY <2>3, <3>1, <3>2, DescendingConcat
  <2>6. FeedOrder(w) /\ FeedFollows(w)
    <3>1. ShortList(view.pending, at)
      BY <1>0, <1>1, <1>4 DEF FeedOrder
    <3> QED
      BY <2>2, <2>3, <2>4, <2>5, <3>1 DEF FeedOrder, FeedFollows
  <2>7. FeedHolds(w)
    <3> SUFFICES ASSUME NEW j \in 1..(n + 1), (n + 1) - j < FeedLimit
        PROVE  Within(new, got[j], (n + 1) - j + 1 - Len(<<>>))
      BY Zenon, <1>3, <2>2, <2>4 DEF FeedHolds
    <3>1. CASE j = n + 1
      <4>1. (n + 1) - j + 1 - Len(<<>>) = 1 /\ got[j] = id
        BY <1>3, <3>1
      <4> QED
        BY <2>3, <4>1
    <3>2. CASE j \in 1..n
      <4>1. /\ n - j \in Nat /\ (n - j) + 1 < FeedLimit /\ (n + 1) - j + 1 - Len(<<>>) = (n - j) + 2
            /\ got[j] \in Nat /\ (n - j) + 1 - Len(<<>>) = (n - j) + 1
        BY <1>3, <1>6, <3>2
      <4>2. ~Within(<<>>, got[j], (n - j) + 1)
        BY DEF Within
      <4>3. Within(view.rows, got[j], (n - j) + 1)
        BY <1>6, <2>2, <3>2, <4>1, <4>2
      <4> QED
        BY Zenon, <2>3, <4>1, <4>3
    <3> QED
      BY <1>3, <3>1, <3>2
  <2> QED
    BY <1>0, <2>1, <2>4, <2>6, <2>7 DEF FeedInv, FeedState
<1>8. CASE view.stream /\ ~view.follow
  <2> DEFINE new == Feed!PrependLiveRow(view.pending, row, FeedLimit)
             w == [view EXCEPT !.clock = at, !.written = written, !.pending = new, !.got = got]
  <2>1. view' = w
    <3>1. v.follow = view.follow /\ v.pending = view.pending
      BY <1>0 DEF FeedViews
    <3>2. Feed!Ingest(v, row) = [v EXCEPT !.pending = new]
      BY <1>0, <1>8, <3>1 DEF Feed!Ingest, FeedViews
    <3> HIDE DEF new, row
    <3>3. [[v EXCEPT !.pending = new] EXCEPT !.got = got] = w
      BY <1>0 DEF FeedViews
    <3> HIDE DEF v, w
    <3> QED
      BY <1>2, <1>8, <3>2, <3>3
  <2>2. /\ Descending(view.pending \o view.rows) /\ ShortList(view.pending, view.clock)
        /\ ShortList(view.rows, view.clock)
    BY <1>0 DEF FeedOrder
  <2>3. /\ new \in Seq(FeedRows) /\ Len(new) <= Len(view.pending) + 1 /\ ShortList(new, at) /\ Within(new, id, 1)
        /\ \A low \in Seq(FeedRows) :
             (\A i \in DOMAIN low : low[i].at <= view.clock) /\ Descending(view.pending \o low) => Descending(new \o low)
        /\ \A old, since \in Nat : since + 1 < FeedLimit /\ Within(view.pending, old, since + 1) =>
             Within(new, old, since + 2)
    BY Zenon, <1>1, <2>2, FeedPrepend
  <2> HIDE DEF new, row, v
  <2>4. /\ w \in FeedViews /\ w.rows = view.rows /\ w.pending = new /\ w.got = got
        /\ w.clock = at /\ w.follow = view.follow
    BY Zenon, <1>0, <1>1, <1>3, <2>3 DEF FeedViews
  <2> HIDE DEF w
  <2>5. FeedOrder(w)
    BY Zenon, <1>1, <1>4, <2>2, <2>3, <2>4 DEF FeedOrder, ShortList
  <2>6. FeedFollows(w)
    BY <1>0, <1>8, <2>4 DEF FeedFollows
  <2>7. FeedHolds(w)
    <3> SUFFICES ASSUME NEW j \in 1..(n + 1), (n + 1) - j < FeedLimit
        PROVE  \/ Within(new, got[j], (n + 1) - j + 1)
               \/ Within(view.rows, got[j], (n + 1) - j + 1 - Len(new))
      BY Zenon, <1>3, <2>4 DEF FeedHolds
    <3>1. CASE j = n + 1
      <4>1. (n + 1) - j + 1 = 1 /\ got[j] = id
        BY <1>3, <3>1
      <4> QED
        BY Zenon, <2>3, <4>1
    <3>2. CASE j \in 1..n
      <4>1. /\ n - j \in Nat /\ (n - j) + 1 < FeedLimit /\ (n + 1) - j + 1 = (n - j) + 2 /\ got[j] \in Nat
        BY <1>3, <1>6, <3>2
      <4>2. CASE Within(view.pending, got[j], (n - j) + 1)
        BY Zenon, <2>3, <4>1, <4>2
      <4>3. CASE Within(view.rows, got[j], (n - j) + 1 - Len(view.pending))
        <5>1. PICK k \in DOMAIN view.rows : k <= (n - j) + 1 - Len(view.pending) /\ view.rows[k].id = got[j]
          BY Zenon, <4>3 DEF Within
        <5>2. k \in Nat /\ Len(view.pending) \in Nat /\ Len(new) \in Nat /\ Len(new) <= Len(view.pending) + 1
          BY <1>1, <2>3, SMTT(20)
        <5>3. k <= (n - j) + 2 - Len(new)
          BY Zenon, <4>1, <5>1, <5>2, DownByOne
        <5> QED
          BY <4>1, <5>1, <5>3 DEF Within
      <4> QED
        BY Zenon, <1>6, <3>2, <4>2, <4>3
    <3> QED
      BY <1>3, <3>1, <3>2
  <2> QED
    BY <1>0, <2>1, <2>4, <2>5, <2>6, <2>7 DEF FeedInv, FeedState
<1> QED
  BY <1>1, <1>5, <1>7, <1>8

LEMMA FeedShowsPending ==
  ASSUME FeedInv, Feed!ShowPending
  PROVE  FeedInv'
<1> DEFINE new == FlushPending(view.rows, view.pending, FeedLimit)
           w == [view EXCEPT !.rows = new, !.pending = <<>>, !.hover = FALSE, !.top = TRUE, !.follow = TRUE]
           p == Len(view.pending)
           n == Len(view.got)
<1>0. /\ view \in FeedViews /\ FeedOrder(view) /\ FeedHolds(view) /\ FeedFollows(view) /\ calls' = calls
      /\ calls \subseteq FeedCalls /\ view.pending # <<>>
  BY DEF FeedInv, FeedState, Feed!ShowPending
<1>1. /\ view.clock \in Nat /\ view.rows \in Seq(FeedRows) /\ view.pending \in Seq(FeedRows) /\ view.got \in Seq(Nat)
      /\ FeedLimit \in Nat \ {0} /\ p \in Nat /\ n \in Nat /\ <<>> \in Seq(FeedRows)
      /\ DOMAIN view.rows = 1..Len(view.rows) /\ Len(view.rows) \in Nat
      /\ DOMAIN view.pending = 1..p /\ DOMAIN view.got = 1..n
  BY <1>0, WebAssumption DEF FeedViews
<1>2. view' = w
  <2>1. Feed!FlushPending(view.rows, view.pending, FeedLimit) = new
    BY FeedFlushes
  <2> HIDE DEF new
  <2> QED
    BY <1>0, <2>1 DEF Feed!ShowPending, FeedViews
<1>3. new \in Seq(FeedRows) /\ Flushed(new, view.rows, view.pending, FeedLimit, p)
  BY <1>0, <1>1, FlushList DEF FeedOrder, ShortList
<1> HIDE DEF new, p, n
<1>4. Len(new) \in Nat /\ Len(new) <= FeedLimit /\ Distinct(new) /\ Descending(new)
  BY <1>0, <1>3 DEF Flushed, FeedOrder
<1>5. \A k \in DOMAIN new : new[k].at <= view.clock
  <2>1. \A k \in 1..Len(new) : \/ \E a \in 1..Len(view.rows) : new[k] = view.rows[a]
                               \/ \E a \in 1..p : new[k] = view.pending[a]
    BY <1>3 DEF Flushed, p
  <2>2. /\ \A a \in 1..Len(view.rows) : view.rows[a].at <= view.clock
        /\ \A a \in 1..p : view.pending[a].at <= view.clock
    BY Zenon, <1>0, <1>1 DEF FeedOrder, ShortList
  <2> QED
    BY <1>3, <2>1, <2>2
<1>6. /\ w \in FeedViews /\ w.rows = new /\ w.pending = <<>> /\ w.got = view.got /\ w.clock = view.clock
      /\ w.follow /\ w.top /\ ~w.hover
  BY Zenon, <1>0, <1>1, <1>3 DEF FeedViews
<1> HIDE DEF w
<1>7. FeedOrder(w)
  <2>1. Descending(<<>> \o new)
    <3>1. Descending(<<>>) /\ Above(<<>>, new)
      BY DEF Descending, Above
    <3> QED
      BY <1>1, <1>3, <1>4, <3>1, DescendingConcat
  <2>2. ShortList(<<>>, view.clock)
    BY <1>1 DEF ShortList, Distinct
  <2> QED
    BY <1>4, <1>5, <1>6, <2>1, <2>2 DEF FeedOrder, ShortList
<1>8. new # <<>>
  <2>1. p >= 1
    BY <1>0, <1>1
  <2> QED
    BY <1>1, <1>3, <2>1 DEF Flushed
<1>9. FeedHolds(w)
  <2> SUFFICES ASSUME NEW j \in DOMAIN view.got, n - j < FeedLimit
      PROVE  Within(new, view.got[j], n - j + 1 - Len(<<>>))
    BY <1>6 DEF FeedHolds, n
  <2>1. n - j \in Nat /\ n - j + 1 - Len(<<>>) = n - j + 1 /\ n - j + 1 <= FeedLimit
    BY <1>1
  <2>2. CASE Within(view.pending, view.got[j], n - j + 1)
    <3>1. PICK k \in 1..p : k <= n - j + 1 /\ view.pending[k].id = view.got[j]
      BY Zenon, <1>1, <2>2 DEF Within
    <3>2. k <= Len(new) /\ new[k] = view.pending[p - p + k]
      BY <1>3 DEF Flushed, p
    <3>3. p - p + k = k /\ k \in DOMAIN new
      BY <1>1, <1>3, <1>4, <3>2
    <3> QED
      BY <2>1, <3>1, <3>2, <3>3 DEF Within
  <2>3. CASE Within(view.rows, view.got[j], n - j + 1 - p)
    <3>1. PICK a \in 1..Len(view.rows) : a <= n - j + 1 - p /\ view.rows[a].id = view.got[j]
      BY Zenon, <1>1, <2>3 DEF Within
    <3> DEFINE m == n - j
    <3>5. m \in Nat /\ a \in Nat /\ a <= m + 1 - p /\ m + 1 <= FeedLimit
      BY <1>1, <2>1, <3>1
    <3>6. a + p <= FeedLimit /\ a + p <= m + 1
      <4> HIDE DEF m
      <4> QED
        BY <1>1, <3>5
    <3>2. a + p <= FeedLimit /\ a + p <= n - j + 1
      BY <3>6
    <3>3. PICK k \in 1..Len(new) : k <= a + p /\ new[k].id = view.rows[a].id
      BY <1>3, <3>2 DEF Flushed
    <3>4. k \in DOMAIN new /\ k <= n - j + 1
      BY <1>1, <1>3, <2>1, <3>2, <3>3, SMTT(20)
    <3> QED
      BY <2>1, <3>1, <3>3, <3>4 DEF Within
  <2> QED
    BY <1>0, <2>2, <2>3 DEF FeedHolds, n, p
<1>10. FeedFollows(w)
  BY <1>6, <1>8 DEF FeedFollows
<1> QED
  BY <1>0, <1>2, <1>6, <1>7, <1>9, <1>10 DEF FeedInv, FeedState

LEMMA FeedSteps == FeedInv /\ Feed!Next => FeedInv'
<1> SUFFICES ASSUME FeedInv, Feed!Next PROVE FeedInv'
  OBVIOUS
<1>1. \A id \in 1..MaxTraces : id \in Nat
  OBVIOUS
<1> QED
  BY <1>1, FeedPage, FeedReader, FeedSearches, FeedPublishes, FeedShowsPending DEF Feed!Next

-----------------------------------------------------------------------------
(* The logs page: its lists *)

LogTrace == LogTraces \cup {None}
LogRows == [id : Nat, trace : LogTrace, live : BOOLEAN]

\* What Newest keeps of a list.
LEMMA NewestLogs ==
  ASSUME NEW rows \in Seq(LogRows)
  PROVE  /\ Logs!Newest(rows) \in Seq(LogRows)
         /\ Len(Logs!Newest(rows)) = IF Len(rows) < LogLimit THEN Len(rows) ELSE LogLimit
         /\ \A i \in DOMAIN Logs!Newest(rows) : i \in DOMAIN rows /\ Logs!Newest(rows)[i] = rows[i]
<1>1. LogLimit \in Nat
  BY WebAssumption
<1>2. Logs!Newest(rows) = FirstOf(rows, LogLimit)
  BY DEF Logs!Newest, FirstOf
<1> QED
  BY <1>1, <1>2, FirstOfList

\* A log on top of a list.
LEMMA PrependLog ==
  ASSUME NEW rows \in Seq(LogRows), NEW row \in LogRows
  PROVE  LET new == Logs!PrependLiveLog(rows, row)
         IN  /\ new \in Seq(LogRows)
             /\ Len(new) = IF Len(rows) < LogLimit THEN Len(rows) + 1 ELSE LogLimit
             /\ \A i \in 1..Len(new) : new[i] = IF i = 1 THEN row ELSE rows[i - 1]
<1> DEFINE all == <<row>> \o rows
           new == Logs!PrependLiveLog(rows, row)
<1>1. /\ all \in Seq(LogRows) /\ Len(all) = Len(rows) + 1
      /\ \A i \in 1..Len(all) : all[i] = IF i = 1 THEN row ELSE rows[i - 1]
  OBVIOUS
<1>2. new = Logs!Newest(all)
  BY DEF Logs!PrependLiveLog
<1> HIDE DEF all, new
<1>3. LogLimit \in Nat \ {0} /\ Len(rows) \in Nat
  BY WebAssumption
<1>4. /\ new \in Seq(LogRows) /\ Len(new) = IF Len(all) < LogLimit THEN Len(all) ELSE LogLimit
      /\ \A i \in DOMAIN new : i \in DOMAIN all /\ new[i] = all[i]
  BY Zenon, <1>1, <1>2, NewestLogs
<1>5. DOMAIN new = 1..Len(new) /\ DOMAIN all = 1..Len(all)
  BY <1>1, <1>4
<1>6. Len(new) = IF Len(rows) < LogLimit THEN Len(rows) + 1 ELSE LogLimit
  BY <1>1, <1>3, <1>4
<1>7. \A i \in 1..Len(new) : new[i] = IF i = 1 THEN row ELSE rows[i - 1]
  BY <1>1, <1>4, <1>5
<1> QED
  BY <1>4, <1>6, <1>7 DEF new

\* The logs that wait, all of them after i rounds, on top of the table's.
StackedLogs(w, rows, pending, i) ==
  /\ w \in Seq(LogRows)
  /\ Len(w) = IF Len(rows) + i < LogLimit THEN Len(rows) + i ELSE LogLimit
  /\ \A k \in 1..Len(w) : w[k] = IF k <= i THEN pending[Len(pending) - i + k] ELSE rows[k - i]

LEMMA FlushLogs ==
  ASSUME NEW rows \in Seq(LogRows), NEW pending \in Seq(LogRows), Len(rows) <= LogLimit, Len(pending) <= LogLimit
  PROVE  StackedLogs(Logs!FlushPendingLogs(rows, pending), rows, pending, Len(pending))
<1> DEFINE n == Len(pending)
           Body(f) == [i \in 0..n |-> IF i = 0 THEN rows ELSE Logs!PrependLiveLog(f[i - 1], pending[n + 1 - i])]
           S == Seq(LogRows)
           Round == [i \in 1..n |-> [acc \in S |-> Logs!PrependLiveLog(acc, pending[n + 1 - i])]]
           out == CHOOSE f : f = Body(f)
<1>1. n \in Nat /\ rows \in S /\ \A i \in 1..n : pending[n + 1 - i] \in LogRows
  OBVIOUS
<1>2. Round \in [1..n -> [S -> S]]
  BY Zenon, <1>1, PrependLog
<1>3. \E f : IsLoop(f, S, n, rows, Round)
  <2> HIDE DEF n, S, Round
  <2> QED
    BY <1>1, <1>2, LoopIsDefined
<1>4. PICK g : IsLoop(g, S, n, rows, Round)
  BY Zenon, <1>3
<1>5. g = Body(g)
  <2>1. ASSUME NEW i \in 0..n PROVE g[i] = Body(g)[i]
    <3>1. CASE i = 0
      BY <3>1, <1>4 DEF IsLoop
    <3>2. CASE i \in 1..n
      <4>1. g[i - 1] \in S
        <5>1. i - 1 \in 0..n
          BY <1>1, <3>2
        <5>2. g \in [0..n -> S]
          BY <1>4 DEF IsLoop
        <5> HIDE DEF S, n
        <5> QED
          BY <5>1, <5>2
      <4> QED
        BY Zenon, <3>2, <4>1, <1>4 DEF IsLoop
    <3> QED
      BY <1>1, <3>1, <3>2
  <2> HIDE DEF S
  <2> QED
    BY <1>4, <2>1, ZenonT(30) DEF IsLoop
<1>6. out = Body(out)
  BY Zenon, <1>5
<1>7. Logs!FlushPendingLogs(rows, pending) = out[n]
  BY DEF Logs!FlushPendingLogs
<1> HIDE DEF out
<1>8. out[0] = rows /\ \A i \in 1..n : out[i] = Logs!PrependLiveLog(out[i - 1], pending[n + 1 - i])
  <2>1. out[0] = Body(out)[0] /\ \A i \in 1..n : out[i] = Body(out)[i]
    BY <1>6
  <2>2. Body(out)[0] = rows
    BY <1>1
  <2>3. ASSUME NEW i \in 1..n PROVE Body(out)[i] = Logs!PrependLiveLog(out[i - 1], pending[n + 1 - i])
    BY <1>1
  <2> QED
    BY Zenon, <2>1, <2>2, <2>3
<1> HIDE DEF Body, Round
<1> DEFINE P == {i \in 0..n : StackedLogs(out[i], rows, pending, i)}
<1>9. LogLimit \in Nat \ {0} /\ Len(rows) \in Nat /\ \A k \in 1..Len(rows) : rows[k - 0] = rows[k]
  BY WebAssumption
<1>10. 0 \in P
  <2>1. StackedLogs(rows, rows, pending, 0)
    BY <1>9 DEF StackedLogs
  <2> QED
    BY <1>1, <1>8, <2>1
<1>11. ASSUME NEW i \in 1..n, i - 1 \in P PROVE i \in P
  <2> DEFINE w == out[i - 1]
             row == pending[n + 1 - i]
             new == out[i]
  <2>1. StackedLogs(w, rows, pending, i - 1) /\ row \in LogRows /\ new = Logs!PrependLiveLog(w, row)
    BY <1>1, <1>8, <1>11
  <2> HIDE DEF w, row, new
  <2>2. /\ new \in Seq(LogRows) /\ Len(new) = IF Len(w) < LogLimit THEN Len(w) + 1 ELSE LogLimit
        /\ \A k \in 1..Len(new) : new[k] = IF k = 1 THEN row ELSE w[k - 1]
    <3>1. w \in Seq(LogRows) /\ row \in LogRows /\ new = Logs!PrependLiveLog(w, row)
      BY <2>1 DEF StackedLogs
    <3> QED
      <4> DEFINE p == Logs!PrependLiveLog(w, row)
      <4>1. p \in Seq(LogRows)
        BY <3>1, PrependLog
      <4>2. Len(p) = IF Len(w) < LogLimit THEN Len(w) + 1 ELSE LogLimit
        BY Zenon, <3>1, PrependLog
      <4>3. \A k \in 1..Len(p) : p[k] = IF k = 1 THEN row ELSE w[k - 1]
        BY Zenon, <3>1, PrependLog
      <4>4. new = p
        BY <3>1
      <4> HIDE DEF p
      <4> QED
        BY <4>1, <4>2, <4>3, <4>4
  <2>3. Len(w) = IF Len(rows) + (i - 1) < LogLimit THEN Len(rows) + (i - 1) ELSE LogLimit
    BY <2>1 DEF StackedLogs
  <2>4. Len(new) = IF Len(rows) + i < LogLimit THEN Len(rows) + i ELSE LogLimit
    BY <1>1, <1>9, <2>2, <2>3
  <2>5. ASSUME NEW k \in 1..Len(new)
        PROVE  new[k] = IF k <= i THEN pending[n - i + k] ELSE rows[k - i]
    <3>1. CASE k = 1
      <4>1. n - i + 1 = n + 1 - i /\ k <= i
        BY <1>1, <3>1
      <4> QED
        BY <2>2, <2>5, <3>1, <4>1 DEF row
    <3>2. CASE k # 1
      <4>1. k - 1 \in 1..Len(w) /\ Len(w) \in Nat
        BY <1>1, <1>9, <2>2, <2>3, <2>5, <3>2
      <4>2. w[k - 1] = IF k - 1 <= i - 1 THEN pending[n - (i - 1) + (k - 1)] ELSE rows[(k - 1) - (i - 1)]
        BY <2>1, <4>1 DEF StackedLogs
      <4>3. n - (i - 1) + (k - 1) = n - i + k /\ (k - 1) - (i - 1) = k - i /\ (k - 1 <= i - 1 <=> k <= i)
        BY <1>1, <2>2, <4>1
      <4> QED
        BY <2>2, <2>5, <3>2, <4>2, <4>3
    <3> QED
      BY <3>1, <3>2
  <2>6. StackedLogs(new, rows, pending, i)
    BY Zenon, <2>2, <2>4, <2>5 DEF StackedLogs
  <2> QED
    BY <2>6 DEF new
<1>12. \A i \in 0..n : i \in P
  <2> HIDE DEF P
  <2>1. \A i \in 1..n : i - 1 \in P => i \in P
    BY <1>11
  <2> QED
    BY <1>1, <1>10, <2>1, Rounds, Zenon
<1> QED
  BY <1>1, <1>7, <1>12

\* Logs of the window of a search, none of them live.
FoundLogs(w, logs, form) ==
  /\ w \in Seq(LogRows)
  /\ \A k \in DOMAIN w : /\ w[k].id \in 1..form.end /\ ~w[k].live
                         /\ w[k].trace = logs[w[k].id] /\ form.trace \in {None, w[k].trace}

LEMMA AnswerLogs ==
  ASSUME NEW form, form.end \in Nat, view.logs \in Seq(LogTrace), form.end <= Len(view.logs)
  PROVE  FoundLogs(Logs!Answer(form), view.logs, form) /\ Len(Logs!Answer(form)) <= LogLimit
<1> DEFINE n == form.end
           S == Seq(LogRows)
           Add(acc, i) == IF form.trace \in {None, view.logs[i]} THEN <<Logs!Row(view, i, FALSE)>> \o acc ELSE acc
           Body(f) == [i \in 0..n |-> IF i = 0 THEN <<>>
                                      ELSE IF form.trace \in {None, view.logs[i]}
                                      THEN <<Logs!Row(view, i, FALSE)>> \o f[i - 1] ELSE f[i - 1]]
           Round == [i \in 1..n |-> [acc \in S |-> Add(acc, i)]]
           out == CHOOSE f : f = Body(f)
<1>1. /\ n \in Nat /\ <<>> \in S
      /\ \A i \in 1..n : /\ Logs!Row(view, i, FALSE) \in LogRows /\ Logs!Row(view, i, FALSE).id = i
                         /\ ~Logs!Row(view, i, FALSE).live /\ Logs!Row(view, i, FALSE).trace = view.logs[i]
  BY DEF Logs!Row, LogRows
<1>2. Round \in [1..n -> [S -> S]]
  <2>1. ASSUME NEW i \in 1..n, NEW acc \in S PROVE Add(acc, i) \in S
    <3> DEFINE row == Logs!Row(view, i, FALSE)
    <3>1. row \in LogRows
      BY Zenon, <1>1
    <3> HIDE DEF row
    <3>2. <<row>> \o acc \in S
      BY <3>1
    <3> QED
      BY Zenon, <3>2 DEF row
  <2> HIDE DEF Add, S
  <2> QED
    BY <2>1
<1>3. \E f : IsLoop(f, S, n, <<>>, Round)
  <2> HIDE DEF n, S, Round
  <2> QED
    BY <1>1, <1>2, LoopIsDefined
<1>4. PICK g : IsLoop(g, S, n, <<>>, Round)
  BY Zenon, <1>3
<1>5. g = Body(g)
  <2>1. ASSUME NEW i \in 0..n PROVE g[i] = Body(g)[i]
    <3>1. CASE i = 0
      BY <3>1, <1>4 DEF IsLoop
    <3>2. CASE i \in 1..n
      <4>1. g[i - 1] \in S
        <5>1. i - 1 \in 0..n
          BY <1>1, <3>2
        <5>2. g \in [0..n -> S]
          BY <1>4 DEF IsLoop
        <5> HIDE DEF S, n
        <5> QED
          BY <5>1, <5>2
      <4>2. g[i] = Add(g[i - 1], i)
        BY Zenon, <3>2, <4>1, <1>4 DEF IsLoop
      <4> QED
        BY <1>1, <3>2, <4>2
    <3> QED
      BY <1>1, <3>1, <3>2
  <2> HIDE DEF S
  <2> QED
    BY <1>4, <2>1, ZenonT(30) DEF IsLoop
<1>6. out = Body(out)
  BY Zenon, <1>5
<1>7. Logs!Answer(form) = Logs!Newest(out[n])
  BY DEF Logs!Answer
<1> HIDE DEF out
<1>8. out[0] = <<>> /\ \A i \in 1..n : out[i] = Add(out[i - 1], i)
  <2>1. out[0] = Body(out)[0] /\ \A i \in 1..n : out[i] = Body(out)[i]
    BY Zenon, <1>6
  <2>2. Body(out)[0] = <<>>
    BY <1>1
  <2>3. ASSUME NEW i \in 1..n PROVE Body(out)[i] = Add(out[i - 1], i)
    BY <1>1
  <2> QED
    BY Zenon, <2>1, <2>2, <2>3
<1> HIDE DEF Body, Round
<1> DEFINE P == {i \in 0..n : FoundLogs(out[i], view.logs, form)}
<1>9. 0 \in P
  <2>1. FoundLogs(<<>>, view.logs, form)
    BY <1>1 DEF FoundLogs
  <2> QED
    BY <1>1, <1>8, <2>1
<1>10. ASSUME NEW i \in 1..n, i - 1 \in P PROVE i \in P
  <2> DEFINE w == out[i - 1]
             row == Logs!Row(view, i, FALSE)
  <2>1. FoundLogs(w, view.logs, form) /\ w \in S
    BY <1>10 DEF FoundLogs
  <2>2. out[i] = Add(w, i)
    BY Zenon, <1>8
  <2> HIDE DEF w
  <2>3. CASE form.trace \in {None, view.logs[i]}
    <3> DEFINE v == <<row>> \o w
    <3>1. out[i] = v
      BY <2>2, <2>3
    <3>2. row \in LogRows /\ row.id = i /\ ~row.live /\ row.trace = view.logs[i]
      BY Zenon, <1>1
    <3> HIDE DEF row
    <3>3. v \in S /\ Len(v) = Len(w) + 1 /\ \A k \in 1..Len(v) : v[k] = IF k = 1 THEN row ELSE w[k - 1]
      BY <2>1, <3>2
    <3>4. DOMAIN v = 1..Len(v) /\ DOMAIN w = 1..Len(w) /\ Len(w) \in Nat
      BY <2>1, <3>3
    <3> HIDE DEF v
    <3>5. ASSUME NEW k \in DOMAIN v
          PROVE  /\ v[k].id \in 1..n /\ ~v[k].live /\ v[k].trace = view.logs[v[k].id]
                 /\ form.trace \in {None, v[k].trace}
      <4>1. CASE k = 1
        BY Zenon, <2>3, <3>2, <3>3, <3>4, <3>5, <4>1
      <4>2. CASE k # 1
        <5>1. k - 1 \in DOMAIN w /\ v[k] = w[k - 1]
          BY <3>3, <3>4, <3>5, <4>2
        <5> QED
          BY <2>1, <5>1 DEF FoundLogs
      <4> QED
        BY <4>1, <4>2
    <3>6. FoundLogs(v, view.logs, form)
      BY <3>3, <3>5 DEF FoundLogs
    <3> QED
      BY <1>1, <3>1, <3>6
  <2>4. CASE form.trace \notin {None, view.logs[i]}
    BY <1>1, <2>1, <2>2, <2>4
  <2> QED
    BY <2>3, <2>4
<1>11. \A i \in 0..n : i \in P
  <2> HIDE DEF P
  <2>1. \A i \in 1..n : i - 1 \in P => i \in P
    BY <1>10
  <2> QED
    BY <1>1, <1>9, <2>1, Rounds, Zenon
<1>12. FoundLogs(out[n], view.logs, form)
  BY <1>1, <1>11
<1>13. LogLimit \in Nat
  BY WebAssumption
<1> DEFINE all == out[n]
           short == Logs!Newest(all)
<1>14. all \in Seq(LogRows)
  BY <1>12 DEF FoundLogs
<1> HIDE DEF all
<1>15. /\ short \in Seq(LogRows) /\ Len(short) <= LogLimit
       /\ \A i \in DOMAIN short : i \in DOMAIN all /\ short[i] = all[i]
  BY <1>13, <1>14, NewestLogs
<1> HIDE DEF short
<1>16. FoundLogs(short, view.logs, form)
  BY Zenon, <1>12, <1>15 DEF FoundLogs, all
<1> QED
  BY <1>7, <1>15, <1>16 DEF short, all

-----------------------------------------------------------------------------
(* The logs page: its state *)

LogForms == [trace : LogTrace, end : Nat]
LogChoice == Nat \cup {None}
LogViews ==
  [page : {"logs"}, active : BOOLEAN, initial : LogTrace, prev : LogTrace, form : LogForms, asked : LogForms,
   of : LogForms, rows : Seq(LogRows), status : {"searching", "ok", "error"}, seq : Nat, tail : BOOLEAN,
   pending : Seq(LogRows), follow : BOOLEAN, hover : BOOLEAN, top : BOOLEAN, logs : Seq(LogTrace), sent : Nat,
   got : Seq(LogRows), selected : LogChoice, edited : BOOLEAN]
LogCalls == [n : Nat, form : LogForms, kind : {"effect", "user"}, doomed : BOOLEAN]

\* The latest search is that of the form last asked for, and of no log yet to be stored.
LogSearch(v, cs) ==
  /\ \A c \in cs : c.n <= v.seq /\ (c.n = v.seq => c.form = v.asked) /\ c.form.end <= Len(v.logs)
  /\ v.status = "searching" /\ v.active => \E c \in cs : c.n = v.seq /\ ~c.doomed
  /\ v.status = "ok" => v.of = v.asked
  /\ v.active => v.prev = v.initial
  /\ v.form.end <= Len(v.logs) /\ v.of.end <= Len(v.logs)

\* A log of the answer, or one that has come since.
KnownLog(v, id) ==
  \/ id \in 1..v.of.end /\ v.of.trace \in {None, v.logs[id]}
  \/ \E i \in DOMAIN v.got : v.got[i].id = id
LogsKnown(v) ==
  v.status = "ok" => /\ v.selected # None => KnownLog(v, v.selected)
                     /\ \A i \in DOMAIN v.rows : KnownLog(v, v.rows[i].id)
                     /\ \A i \in DOMAIN v.pending : KnownLog(v, v.pending[i].id)

\* Live logs are on top, the latest first; those that wait came after those listed.
LiveOrder(rows) ==
  \A i, j \in DOMAIN rows : i < j /\ rows[j].live => rows[i].live /\ rows[i].id > rows[j].id
LogOrder(v) ==
  /\ Len(v.rows) <= LogLimit /\ Len(v.pending) <= LogLimit /\ v.sent <= Len(v.logs)
  /\ LiveOrder(v.rows) /\ LiveOrder(v.pending)
  /\ \A i \in DOMAIN v.pending : v.pending[i].live /\ v.pending[i].id <= v.sent
  /\ \A j \in DOMAIN v.rows : v.rows[j].live => v.rows[j].id <= v.sent
  /\ \A i \in DOMAIN v.pending, j \in DOMAIN v.rows : v.rows[j].live => v.pending[i].id > v.rows[j].id

\* The log is at most at this place of the list.
HeldAt(rows, row, place) == \E k \in DOMAIN rows : k <= place /\ rows[k] = row

\* A log taken is no further down than logs have come since.
LogHolds(v) ==
  \A j \in DOMAIN v.got : LET since == Len(v.got) - j
                          IN  since < LogLimit => \/ HeldAt(v.pending, v.got[j], since + 1)
                                                  \/ HeldAt(v.rows, v.got[j], since + 1 - Len(v.pending))

LogFollows(v) == v.follow => v.pending = <<>>

LogsState(v, cs) ==
  /\ v \in LogViews /\ cs \subseteq LogCalls
  /\ LogSearch(v, cs) /\ LogsKnown(v) /\ LogOrder(v) /\ LogHolds(v) /\ LogFollows(v)
LogsInv == LogsState(view, calls)

LEMMA LogsSafe == LogsInv => Logs!ShowsTheSelection /\ Logs!NeverStuck /\ Logs!LosesNothing
<1> SUFFICES ASSUME LogsInv PROVE Logs!ShowsTheSelection /\ Logs!NeverStuck /\ Logs!LosesNothing
  OBVIOUS
<1>0. /\ view \in LogViews /\ calls \subseteq LogCalls /\ LogSearch(view, calls) /\ LogsKnown(view) /\ LogOrder(view)
      /\ LogHolds(view) /\ LogFollows(view)
  BY DEF LogsInv, LogsState
<1>1. Logs!NeverStuck
  BY <1>0 DEF Logs!NeverStuck, Logs!Asked, LogSearch
<1>2. Logs!ShowsTheSelection
  <2>1. ASSUME view.status = "ok", Logs!Detail(view) # None
        PROVE  \/ /\ Logs!Detail(view).log <= view.of.end
                  /\ view.of.trace \in {None, Logs!Detail(view).openTrace}
               \/ \E i \in DOMAIN view.got : view.got[i].id = Logs!Detail(view).log
    <3>1. /\ view.selected # None /\ Logs!Detail(view).log = view.selected
          /\ Logs!Detail(view).openTrace = view.logs[view.selected]
      BY <2>1 DEF Logs!Detail
    <3>2. KnownLog(view, view.selected)
      BY <1>0, <2>1, <3>1 DEF LogsKnown
    <3> QED
      BY <3>1, <3>2 DEF KnownLog
  \* An answered table is that of the search last asked for, a failed one is empty.
  <2>2. view.active /\ Logs!Table(view) # <<>> /\ view.of # view.asked => Logs!Disabled /\ Logs!Asked
    <3>1. view.status \in {"searching", "ok", "error"} /\ (view.status = "ok" => view.of = view.asked)
      BY <1>0 DEF LogViews, LogSearch
    <3>2. Logs!Table(view) # <<>> => view.status # "error"
      BY DEF Logs!Table
    <3> QED
      BY <1>1, <3>1, <3>2 DEF Logs!Disabled, Logs!NeverStuck
  <2> QED
    BY <1>0, <2>1, <2>2 DEF Logs!ShowsTheSelection, LogSearch
<1>3. Logs!LosesNothing
  <2>1. ASSUME NEW j \in DOMAIN view.got, Len(view.got) - j < LogLimit
        PROVE  view.got[j] \in {view.rows[i] : i \in DOMAIN view.rows} \cup {view.pending[i] : i \in DOMAIN view.pending}
    BY <1>0, <2>1 DEF LogHolds, HeldAt
  <2>2. \A i, j \in DOMAIN view.rows :
          i < j /\ view.rows[j].live => view.rows[i].live /\ view.rows[i].id > view.rows[j].id
    BY <1>0 DEF LogOrder, LiveOrder
  <2> QED
    BY <1>0, <2>1, <2>2 DEF Logs!LosesNothing, LogFollows
<1> QED
  BY <1>1, <1>2, <1>3

LEMMA LogsStarts == Logs!Init => LogsInv
<1>0. SUFFICES ASSUME NEW trace \in LogTrace,
      view = [page |-> "logs", active |-> TRUE, initial |-> trace, prev |-> trace, form |-> Logs!Form(trace, 0),
              asked |-> Logs!Form(trace, 0), of |-> Logs!Form(trace, 0), rows |-> <<>>, status |-> "searching",
              seq |-> 1, tail |-> TRUE, pending |-> <<>>, follow |-> TRUE, hover |-> FALSE,
              top |-> TRUE, logs |-> <<>>, sent |-> 0, got |-> <<>>, selected |-> None, edited |-> FALSE],
      calls = {Logs!Search(1, view.form, "effect")}
    PROVE LogsInv
  BY DEF Logs!Init, LogTrace
<1> DEFINE form == Logs!Form(trace, 0)
           call == Logs!Search(1, form, "effect")
<1>1. form \in LogForms /\ form.end = 0
  BY DEF Logs!Form, LogForms
<1> HIDE DEF form
<1>2. calls = {call} /\ call \in LogCalls /\ call.n = 1 /\ call.form = form /\ ~call.doomed
  BY <1>0, <1>1 DEF LogCalls, Logs!Search, form
<1>3. /\ <<>> \in Seq(LogRows) /\ <<>> \in Seq(LogTrace) /\ None \in LogChoice /\ Len(<<>>) = 0 /\ LogLimit \in Nat
  BY WebAssumption DEF LogChoice
<1>4. /\ view \in LogViews /\ view.rows = <<>> /\ view.pending = <<>> /\ view.got = <<>> /\ view.logs = <<>>
      /\ view.seq = 1 /\ view.asked = form /\ view.of = form /\ view.form = form /\ view.status = "searching"
      /\ view.prev = trace /\ view.initial = trace /\ view.sent = 0
  BY <1>0, <1>1, <1>3 DEF LogViews, form
<1> HIDE DEF call
<1>5. LogSearch(view, calls)
  BY <1>1, <1>2, <1>3, <1>4 DEF LogSearch
<1>6. LogsKnown(view) /\ LogOrder(view) /\ LogHolds(view) /\ LogFollows(view)
  BY <1>3, <1>4 DEF LogsKnown, LogOrder, LiveOrder, LogHolds, LogFollows
<1> QED
  BY <1>2, <1>4, <1>5, <1>6 DEF LogsInv, LogsState

\* What a step that leaves the lists alone has to keep.
SameLists(w) ==
  /\ w \in LogViews /\ w.rows = view.rows /\ w.pending = view.pending /\ w.got = view.got /\ w.sent = view.sent
  /\ w.logs = view.logs /\ w.of = view.of /\ w.form.end <= Len(w.logs)

LEMMA LogsQuiet ==
  ASSUME LogsInv, NEW w, SameLists(w), LogFollows(w), w.status = "ok" => view.status = "ok",
         w.selected = view.selected \/ w.selected \in {w.rows[i].id : i \in DOMAIN w.rows}
  PROVE  LogsKnown(w) /\ LogOrder(w) /\ LogHolds(w)
BY SMTT(20) DEF LogsInv, LogsState, SameLists, LogsKnown, KnownLog, LogOrder, LogHolds

\* Searches that were under way before, aborted or not.
SameSearches(cs) ==
  /\ cs \subseteq LogCalls
  /\ \A c \in cs : \E d \in calls : c.n = d.n /\ c.form = d.form

\* A step that starts no search and ends none, but may abort some.
LEMMA LogsReader ==
  ASSUME LogsInv, NEW w, SameLists(w), LogFollows(w), w.status = view.status, w.seq = view.seq,
         w.asked = view.asked, w.active => w.prev = w.initial,
         w.selected = view.selected \/ w.selected \in {w.rows[i].id : i \in DOMAIN w.rows},
         NEW cs, SameSearches(cs), w.status = "searching" /\ w.active => view.active /\ cs = calls
  PROVE  LogsState(w, cs)
<1>1. LogSearch(view, calls)
  BY DEF LogsInv, LogsState
<1>2. \A c \in cs : c.n <= w.seq /\ (c.n = w.seq => c.form = w.asked) /\ c.form.end <= Len(w.logs)
  BY <1>1 DEF SameLists, LogSearch, SameSearches
<1>3. LogSearch(w, cs)
  BY <1>1, <1>2 DEF SameLists, LogSearch
<1> QED
  BY <1>3, LogsQuiet DEF LogsState, SameLists, SameSearches

\* A search that starts.
LEMMA LogsAsks ==
  ASSUME LogsInv, NEW v, SameLists(v), LogFollows(v), v.seq = view.seq, v.active => v.prev = v.initial,
         v.selected = view.selected, NEW form \in LogForms, form.end <= Len(v.logs),
         NEW cs, SameSearches(cs), NEW kind \in {"effect", "user"}
  PROVE  LogsState(Logs!Asking(v, form), cs \cup {Logs!Search(v.seq + 1, form, kind)})
<1> DEFINE n == v.seq + 1
           w == [v EXCEPT !.seq = n, !.status = "searching", !.asked = form, !.edited = FALSE]
           call == Logs!Search(n, form, kind)
<1>0. Logs!Asking(v, form) = w
  BY DEF Logs!Asking, SameLists, LogViews
<1>1. LogSearch(view, calls)
  BY DEF LogsInv, LogsState
<1>2. n \in Nat /\ v.seq \in Nat /\ v.seq < n
  BY DEF SameLists, LogViews
<1> HIDE DEF n
<1>3. /\ SameLists(w) /\ LogFollows(w) /\ w.seq = n /\ w.status = "searching" /\ w.asked = form
      /\ w.active = v.active /\ w.prev = v.prev /\ w.initial = v.initial /\ w.selected = view.selected
      /\ w.logs = view.logs
  BY Zenon, <1>2 DEF SameLists, LogViews, LogFollows
<1>4. call \in LogCalls /\ call.n = n /\ call.form = form /\ ~call.doomed
  BY <1>2 DEF LogCalls, Logs!Search
<1> HIDE DEF w, call
<1>5. \A c \in cs : c.n <= n /\ c.n # n /\ c.form.end <= Len(w.logs)
  <2>1. \A c \in cs : c.n \in Nat /\ c.n <= v.seq /\ c.form.end <= Len(view.logs)
    BY <1>1 DEF LogSearch, LogCalls, SameSearches
  <2> QED
    BY <1>2, <1>3, <2>1
<1>6. LogSearch(w, cs \cup {call})
  <2>1. n <= n
    BY <1>2
  <2>2. v.logs = view.logs /\ w.of = view.of /\ w.form.end <= Len(w.logs)
    BY <1>3 DEF SameLists
  <2> QED
    BY <1>1, <1>3, <1>4, <1>5, <2>1, <2>2 DEF LogSearch
<1>7. LogsKnown(w) /\ LogOrder(w) /\ LogHolds(w)
  BY <1>3, LogsQuiet
<1>8. cs \cup {call} \subseteq LogCalls
  BY <1>4 DEF SameSearches
<1> QED
  BY <1>0, <1>3, <1>6, <1>7, <1>8 DEF LogsState, SameLists, call, n

\* What an abort leaves of the searches.
LEMMA LogsAborts ==
  ASSUME calls \subseteq LogCalls, NEW next, Logs!Abort(next)
  PROVE  \E cs : SameSearches(cs) /\ calls' = cs \cup next
<1>1. PICK reading \in SUBSET Logs!Effects :
        calls' = (calls \ Logs!Effects) \cup {[c EXCEPT !.doomed = TRUE] : c \in reading} \cup next
  BY Zenon DEF Logs!Abort
<1> DEFINE doomed == {[c EXCEPT !.doomed = TRUE] : c \in reading}
           cs == (calls \ Logs!Effects) \cup doomed
<1>2. \A d \in doomed : d \in LogCalls /\ \E c \in calls : d.n = c.n /\ d.form = c.form
  <2> SUFFICES ASSUME NEW c \in reading
      PROVE  /\ [c EXCEPT !.doomed = TRUE] \in LogCalls
             /\ \E d \in calls : [c EXCEPT !.doomed = TRUE].n = d.n /\ [c EXCEPT !.doomed = TRUE].form = d.form
    BY Zenon
  <2>1. c \in calls /\ c \in LogCalls
    BY <1>1 DEF Logs!Effects
  <2>2. /\ [c EXCEPT !.doomed = TRUE] \in LogCalls
        /\ [c EXCEPT !.doomed = TRUE].n = c.n /\ [c EXCEPT !.doomed = TRUE].form = c.form
    BY Zenon, <2>1 DEF LogCalls
  <2> QED
    BY Zenon, <2>1, <2>2
<1> HIDE DEF doomed
<1>3. SameSearches(cs)
  BY <1>2 DEF SameSearches
<1> QED
  BY <1>1, <1>3 DEF doomed

-----------------------------------------------------------------------------
(* The logs page: its steps *)

\* The form of a search that starts now ends at the last log stored.
LEMMA LogsDefault ==
  ASSUME LogsInv, NEW trace \in LogTrace
  PROVE  Logs!DefaultForm(view, trace) \in LogForms /\ Logs!DefaultForm(view, trace).end = Len(view.logs)
<1>1. view.logs \in Seq(LogTrace)
  BY DEF LogsInv, LogsState, LogViews
<1> QED
  BY <1>1 DEF Logs!DefaultForm, Logs!Form, LogForms

LEMMA LogsScreen ==
  ASSUME LogsInv, NEW trace \in LogTrace, Logs!Enter(trace) \/ Logs!Leave
  PROVE  LogsInv'
<1>0. view \in LogViews /\ calls \subseteq LogCalls /\ LogSearch(view, calls) /\ LogFollows(view)
  BY DEF LogsInv, LogsState
<1>1. CASE Logs!Enter(trace)
  <2> DEFINE w == [view EXCEPT !.active = TRUE, !.initial = trace, !.prev = trace, !.edited = FALSE]
             form == Logs!DefaultForm(view, trace)
             kind == "effect"
  <2>1. SameLists(w) /\ LogFollows(w) /\ w.status = view.status /\ w.seq = view.seq /\ w.asked = view.asked
        /\ w.selected = view.selected /\ w.prev = w.initial
    BY ZenonT(30), <1>0 DEF SameLists, LogSearch, LogFollows, LogViews
  <2>2. CASE view' = w /\ Logs!Abort({}) /\ view.status = "ok"
    <3>1. PICK cs : SameSearches(cs) /\ calls' = cs \cup {}
      BY Zenon, <1>0, <2>2, LogsAborts
    <3> HIDE DEF w
    <3>2. LogsState(w, cs)
      BY <2>1, <2>2, <3>1, LogsReader
    <3> QED
      BY <2>2, <3>1, <3>2 DEF LogsInv
  <2>3. CASE view' = Logs!Asking(w, form) /\ Logs!Abort({Logs!Search(view.seq + 1, form, kind)})
    <3>1. form \in LogForms /\ form.end = Len(view.logs)
      BY LogsDefault
    <3>2. w.logs = view.logs /\ form.end <= Len(w.logs)
      BY <1>0, <2>1, <3>1 DEF SameLists, LogForms
    <3> HIDE DEF w, form
    <3>3. PICK cs : SameSearches(cs) /\ calls' = cs \cup {Logs!Search(view.seq + 1, form, kind)}
      BY Zenon, <1>0, <2>3, LogsAborts
    <3>4. kind \in {"effect", "user"}
      OBVIOUS
    <3> HIDE DEF kind
    <3>5. LogsState(Logs!Asking(w, form), cs \cup {Logs!Search(w.seq + 1, form, kind)})
      BY Zenon, <2>1, <3>1, <3>2, <3>3, <3>4, LogsAsks
    <3> QED
      BY <2>1, <2>3, <3>3, <3>5 DEF LogsInv
  <2> QED
    BY <1>1, <2>2, <2>3 DEF Logs!Enter, Logs!Shown
<1>2. CASE Logs!Leave
  <2> DEFINE w == [view EXCEPT !.active = FALSE]
  <2>1. SameLists(w) /\ LogFollows(w) /\ w.status = view.status /\ w.seq = view.seq /\ w.asked = view.asked
        /\ w.selected = view.selected /\ ~w.active
    BY Zenon, <1>0 DEF SameLists, LogSearch, LogFollows, LogViews
  <2>2. view' = w /\ Logs!Abort({})
    BY <1>2 DEF Logs!Leave
  <2>3. PICK cs : SameSearches(cs) /\ calls' = cs \cup {}
    BY Zenon, <1>0, <2>2, LogsAborts
  <2> HIDE DEF w
  <2>4. LogsState(w, cs)
    BY <2>1, <2>3, LogsReader
  <2> QED
    BY <2>2, <2>3, <2>4 DEF LogsInv
<1> QED
  BY <1>1, <1>2

LEMMA LogsForm ==
  ASSUME LogsInv, NEW trace \in LogTrace, Logs!Edit(trace) \/ Logs!Submit \/ Logs!Reset
  PROVE  LogsInv'
<1>0. view \in LogViews /\ calls \subseteq LogCalls /\ LogSearch(view, calls) /\ LogFollows(view)
  BY DEF LogsInv, LogsState
<1> DEFINE kind == "user"
<1>1. kind \in {"effect", "user"} /\ SameSearches(calls)
  BY <1>0 DEF SameSearches
<1> HIDE DEF kind
<1>2. CASE Logs!Edit(trace)
  <2> DEFINE edited == view.initial # None
             w == [view EXCEPT !.form.trace = trace, !.edited = edited]
  <2>1. edited \in BOOLEAN
    OBVIOUS
  <2>2. view' = w /\ calls' = calls
    BY <1>2 DEF Logs!Edit
  <2> HIDE DEF edited
  <2>3. SameLists(w) /\ LogFollows(w) /\ w.status = view.status /\ w.seq = view.seq /\ w.asked = view.asked
        /\ w.selected = view.selected /\ w.active = view.active /\ w.prev = view.prev /\ w.initial = view.initial
    BY ZenonT(30), <1>0, <2>1 DEF SameLists, LogSearch, LogFollows, LogViews, LogForms
  <2> HIDE DEF w
  <2>4. LogsState(w, calls)
    BY <1>0, <1>1, <2>3, LogsReader DEF LogSearch
  <2> QED
    BY <2>2, <2>4 DEF LogsInv
<1>3. CASE Logs!Submit
  <2>1. SameLists(view) /\ (view.active => view.prev = view.initial)
    BY <1>0 DEF SameLists, LogSearch
  <2>2. view.form \in LogForms /\ view.form.end <= Len(view.logs)
    BY <1>0 DEF LogViews, LogSearch
  <2>3. /\ view' = Logs!Asking(view, view.form)
        /\ calls' = calls \cup {Logs!Search(view.seq + 1, view.form, kind)}
    BY <1>3 DEF Logs!Submit, Logs!StartSearch, kind
  <2>4. LogsState(Logs!Asking(view, view.form), calls \cup {Logs!Search(view.seq + 1, view.form, kind)})
    BY Zenon, <1>0, <1>1, <2>1, <2>2, LogsAsks
  <2> QED
    BY <2>3, <2>4 DEF LogsInv
<1>4. CASE Logs!Reset
  <2> DEFINE form == Logs!DefaultForm(view, None)
             w == [view EXCEPT !.form = form]
  <2>0. None \in LogTrace
    BY DEF LogTrace
  <2>1. form \in LogForms /\ form.end = Len(view.logs)
    BY <2>0, LogsDefault
  <2>2. SameLists(w) /\ LogFollows(w) /\ w.seq = view.seq /\ w.selected = view.selected /\ w.active = view.active
        /\ w.prev = view.prev /\ w.initial = view.initial /\ form.end <= Len(w.logs)
    <3> HIDE DEF form
    <3>1. w \in LogViews /\ w.logs = view.logs /\ w.form = form
      BY Zenon, <1>0, <2>1 DEF LogViews
    <3>2. form.end \in Nat /\ form.end <= Len(view.logs)
      BY <2>1 DEF LogForms
    <3> QED
      BY <1>0, <3>1, <3>2 DEF SameLists, LogFollows, LogViews
  <2>3. /\ view' = Logs!Asking(w, form)
        /\ calls' = calls \cup {Logs!Search(w.seq + 1, form, kind)}
    BY <1>4 DEF Logs!Reset, Logs!StartSearch, kind
  <2> HIDE DEF w, form
  <2>4. LogsState(Logs!Asking(w, form), calls \cup {Logs!Search(w.seq + 1, form, kind)})
    BY Zenon, <1>0, <1>1, <2>1, <2>2, LogsAsks DEF LogSearch
  <2> QED
    BY <2>3, <2>4 DEF LogsInv
<1> QED
  BY <1>2, <1>3, <1>4

LEMMA LogsPointer ==
  ASSUME LogsInv, Logs!Scroll \/ Logs!PointerEnter \/ Logs!PointerLeave
  PROVE  LogsInv'
<1>0. view \in LogViews /\ SameSearches(calls) /\ LogSearch(view, calls) /\ LogFollows(view)
  BY DEF LogsInv, LogsState, SameSearches
<1>1. \E top \in BOOLEAN, hover \in BOOLEAN, follow \in BOOLEAN :
        /\ view' = [view EXCEPT !.top = top, !.hover = hover, !.follow = follow] /\ calls' = calls
        /\ follow => view.pending = <<>>
  <2> DEFINE follow(top, hover) == top /\ ~hover /\ view.pending = <<>>
  <2>1. CASE Logs!Scroll
    <3>1. view' = [view EXCEPT !.top = ~view.top, !.hover = view.hover, !.follow = follow(~view.top, view.hover)]
          /\ calls' = calls
      BY Zenon, <1>0, <2>1 DEF Logs!Scroll, Logs!Synced, LogViews
    <3>2. (~view.top) \in BOOLEAN /\ view.hover \in BOOLEAN
      BY <1>0 DEF LogViews
    <3>3. follow(~view.top, view.hover) \in BOOLEAN
      BY Zenon
    <3> QED
      BY Zenon, <3>1, <3>2, <3>3
  <2>2. CASE Logs!PointerEnter
    <3>1. view' = [view EXCEPT !.top = view.top, !.hover = TRUE, !.follow = FALSE]
          /\ calls' = calls /\ view.top \in BOOLEAN
      BY Zenon, <1>0, <2>2 DEF Logs!PointerEnter, LogViews
    <3> QED
      BY Zenon, <3>1
  <2>3. CASE Logs!PointerLeave
    <3>1. view' = [view EXCEPT !.top = view.top, !.hover = FALSE, !.follow = follow(view.top, FALSE)]
          /\ calls' = calls
      BY Zenon, <1>0, <2>3 DEF Logs!PointerLeave, Logs!Synced, LogViews
    <3>2. view.top \in BOOLEAN /\ follow(view.top, FALSE) \in BOOLEAN
      BY <1>0 DEF LogViews
    <3> QED
      BY Zenon, <3>1, <3>2
  <2> QED
    BY Zenon, <2>1, <2>2, <2>3
<1>2. PICK top \in BOOLEAN, hover \in BOOLEAN, follow \in BOOLEAN :
        /\ view' = [view EXCEPT !.top = top, !.hover = hover, !.follow = follow] /\ calls' = calls
        /\ follow => view.pending = <<>>
  BY Zenon, <1>1
<1> DEFINE w == [view EXCEPT !.top = top, !.hover = hover, !.follow = follow]
<1>3. /\ w \in LogViews /\ w.rows = view.rows /\ w.pending = view.pending /\ w.got = view.got /\ w.sent = view.sent
      /\ w.logs = view.logs /\ w.of = view.of /\ w.form = view.form /\ w.follow = follow
      /\ w.status = view.status /\ w.seq = view.seq /\ w.asked = view.asked /\ w.selected = view.selected
      /\ w.active = view.active /\ w.prev = view.prev /\ w.initial = view.initial
  BY ZenonT(40), <1>0 DEF LogViews
<1>4. view' = w
  BY <1>2
<1> HIDE DEF w
<1>5. SameLists(w) /\ LogFollows(w)
  BY <1>0, <1>2, <1>3 DEF SameLists, LogSearch, LogFollows
<1>6. LogsState(w, calls)
  BY <1>0, <1>3, <1>5, LogsReader DEF LogSearch
<1> QED
  BY <1>2, <1>4, <1>6 DEF LogsInv

LEMMA LogsSelects ==
  ASSUME LogsInv, NEW id \in Nat, Logs!Select(id)
  PROVE  LogsInv'
<1>0. view \in LogViews /\ SameSearches(calls) /\ LogSearch(view, calls) /\ LogFollows(view)
  BY DEF LogsInv, LogsState, SameSearches
<1> DEFINE w == [view EXCEPT !.selected = id]
<1>1. id \in {view.rows[i].id : i \in DOMAIN view.rows}
  BY DEF Logs!Select, Logs!Table
<1>2. /\ w \in LogViews /\ w.rows = view.rows /\ w.pending = view.pending /\ w.got = view.got /\ w.sent = view.sent
      /\ w.logs = view.logs /\ w.of = view.of /\ w.form = view.form /\ w.follow = view.follow
      /\ w.status = view.status /\ w.seq = view.seq /\ w.asked = view.asked /\ w.selected = id
      /\ w.active = view.active /\ w.prev = view.prev /\ w.initial = view.initial
  BY Zenon, <1>0 DEF LogViews, LogChoice
<1>3. view' = w /\ calls' = calls
  BY DEF Logs!Select
<1> HIDE DEF w
<1>4. SameLists(w) /\ LogFollows(w)
  BY <1>0, <1>2 DEF SameLists, LogSearch, LogFollows
<1>5. LogsState(w, calls)
  BY <1>0, <1>1, <1>2, <1>4, LogsReader DEF LogSearch
<1> QED
  BY <1>3, <1>5 DEF LogsInv

\* An answer: of the latest search, or late.
LEMMA LogsAnswered ==
  ASSUME LogsInv, NEW c \in calls, NEW tail \in BOOLEAN, Logs!Succeeds(c, tail)
  PROVE  LogsInv'
<1>0. /\ view \in LogViews /\ calls \subseteq LogCalls /\ LogSearch(view, calls) /\ LogFollows(view)
      /\ LogsKnown(view) /\ LogOrder(view) /\ LogHolds(view)
      /\ c \in LogCalls /\ calls' = calls \ {c}
  BY DEF LogsInv, LogsState, Logs!Succeeds
<1>1. CASE c.n # view.seq
  <2>1. view' = view
    BY <1>1 DEF Logs!Succeeds
  <2>2. LogSearch(view, calls \ {c})
    BY <1>0, <1>1 DEF LogSearch
  <2> QED
    BY <1>0, <2>1, <2>2 DEF LogsInv, LogsState
<1>2. CASE c.n = view.seq
  <2> DEFINE found == Logs!Answer(c.form)
             chosen == Logs!Reselected(view, found)
             w == [view EXCEPT !.rows = found, !.of = c.form, !.status = "ok", !.tail = tail, !.pending = <<>>,
                               !.got = <<>>, !.selected = chosen]
             form == c.form
  <2>1. view' = w
    BY <1>2 DEF Logs!Succeeds
  <2>2. form = view.asked /\ form \in LogForms /\ form.end \in Nat /\ form.end <= Len(view.logs)
    BY <1>0, <1>2 DEF LogSearch, LogCalls, LogForms
  <2>3. view.logs \in Seq(LogTrace) /\ <<>> \in Seq(LogRows) /\ Len(view.logs) \in Nat /\ LogLimit \in Nat
    BY <1>0, WebAssumption DEF LogViews
  <2>4. FoundLogs(found, view.logs, form) /\ Len(found) <= LogLimit
    <3>1. view.logs \in Seq(LogTrace)
      BY <2>3
    <3> QED
      BY <2>2, <3>1, AnswerLogs
  <2> HIDE DEF found, form
  <2>5. found \in Seq(LogRows) /\ \A i \in DOMAIN found : found[i] \in LogRows /\ found[i].id \in Nat
    <3>1. found \in Seq(LogRows)
      BY <2>4 DEF FoundLogs
    <3>2. \A i \in DOMAIN found : found[i] \in LogRows
      BY <3>1
    <3> QED
      BY <3>1, <3>2 DEF LogRows
  <2>6. chosen = None \/ \E i \in DOMAIN found : chosen = found[i].id
    <3>1. {found[i].id : i \in DOMAIN found} # {} => 1 \in DOMAIN found
      BY <2>5
    <3> QED
      BY <3>1 DEF Logs!Reselected
  <2>7. chosen \in LogChoice
    BY <2>5, <2>6 DEF LogChoice
  <2> HIDE DEF chosen
  <2>8. /\ w \in LogViews /\ w.rows = found /\ w.pending = <<>> /\ w.got = <<>> /\ w.sent = view.sent
        /\ w.logs = view.logs /\ w.of = view.asked /\ w.form = view.form /\ w.follow = view.follow
        /\ w.status = "ok" /\ w.seq = view.seq /\ w.asked = view.asked /\ w.selected = chosen
        /\ w.active = view.active /\ w.prev = view.prev /\ w.initial = view.initial
    <3>1. form = c.form /\ None \in LogChoice
      BY DEF form, LogChoice
    <3> QED
      BY Zenon, <1>0, <2>2, <2>3, <2>5, <2>7, <3>1 DEF LogViews
  <2> HIDE DEF w
  <2>9. LogSearch(w, calls \ {c})
    BY <1>0, <2>2, <2>8 DEF LogSearch
  <2>10. \A i \in DOMAIN found : KnownLog(w, found[i].id)
    BY <2>2, <2>4, <2>8 DEF FoundLogs, KnownLog
  <2>11. LogsKnown(w)
    BY <2>6, <2>8, <2>10 DEF LogsKnown
  <2>12. LogOrder(w)
    <3>1. /\ Len(w.rows) <= LogLimit /\ Len(w.pending) <= LogLimit /\ w.sent <= Len(w.logs)
      BY <1>0, <2>3, <2>4, <2>8 DEF LogOrder
    <3>2. \A i \in DOMAIN found : ~found[i].live
      BY <2>4 DEF FoundLogs
    <3> QED
      BY <2>8, <3>1, <3>2 DEF LogOrder, LiveOrder
  <2>13. LogHolds(w) /\ LogFollows(w)
    BY <2>8 DEF LogHolds, LogFollows
  <2> QED
    BY <1>0, <2>1, <2>8, <2>9, <2>11, <2>12, <2>13 DEF LogsInv, LogsState
<1> QED
  BY <1>1, <1>2

LEMMA LogsFailed ==
  ASSUME LogsInv, NEW c \in calls, Logs!Fails(c)
  PROVE  LogsInv'
<1>0. /\ view \in LogViews /\ calls \subseteq LogCalls /\ LogSearch(view, calls) /\ LogFollows(view)
      /\ LogsKnown(view) /\ LogOrder(view) /\ LogHolds(view)
      /\ c \in LogCalls /\ calls' = calls \ {c}
  BY DEF LogsInv, LogsState, Logs!Fails
<1>1. CASE c.n # view.seq
  <2>1. view' = view
    BY <1>1 DEF Logs!Fails
  <2>2. LogSearch(view, calls \ {c})
    BY <1>0, <1>1 DEF LogSearch
  <2> QED
    BY <1>0, <2>1, <2>2 DEF LogsInv, LogsState
<1>2. CASE c.n = view.seq
  <2> DEFINE form == c.form
             w == [view EXCEPT !.rows = <<>>, !.of = form, !.status = "error", !.got = <<>>, !.selected = None]
  <2>0. form \in LogForms /\ form.end <= Len(view.logs)
    BY <1>0 DEF LogSearch, LogCalls
  <2>1. view' = w
    BY <1>2 DEF Logs!Fails
  <2> HIDE DEF form
  <2>2. /\ w \in LogViews /\ w.rows = <<>> /\ w.pending = view.pending /\ w.got = <<>> /\ w.sent = view.sent
        /\ w.logs = view.logs /\ w.of = form /\ w.form = view.form /\ w.follow = view.follow
        /\ w.status = "error" /\ w.seq = view.seq /\ w.asked = view.asked
        /\ w.active = view.active /\ w.prev = view.prev /\ w.initial = view.initial
    <3>1. <<>> \in Seq(LogRows) /\ None \in LogChoice
      BY DEF LogChoice
    <3> QED
      BY Zenon, <1>0, <2>0, <3>1 DEF LogViews
  <2> HIDE DEF w
  <2>3. LogSearch(w, calls \ {c}) /\ LogsKnown(w)
    BY <1>0, <2>0, <2>2 DEF LogSearch, LogsKnown
  <2>4. LogOrder(w) /\ LogHolds(w) /\ LogFollows(w)
    <3>1. Len(<<>>) <= LogLimit
      BY WebAssumption
    <3> QED
      BY <1>0, <2>2, <3>1 DEF LogOrder, LiveOrder, LogHolds, LogFollows
  <2> QED
    BY <1>0, <2>1, <2>2, <2>3, <2>4 DEF LogsInv, LogsState
<1> QED
  BY <1>1, <1>2

LEMMA LogsWritten ==
  ASSUME LogsInv, NEW trace \in LogTrace, Logs!Write(trace)
  PROVE  LogsInv'
<1>0. /\ view \in LogViews /\ calls \subseteq LogCalls /\ LogSearch(view, calls) /\ LogFollows(view)
      /\ LogsKnown(view) /\ LogOrder(view) /\ LogHolds(view)
  BY DEF LogsInv, LogsState
<1> DEFINE logs == Append(view.logs, trace)
           n == Len(view.logs)
           w == [view EXCEPT !.logs = logs]
<1>1. view.logs \in Seq(LogTrace) /\ n \in Nat
  BY <1>0 DEF LogViews
<1>2. logs \in Seq(LogTrace) /\ Len(logs) = n + 1 /\ \A i \in 1..n : logs[i] = view.logs[i]
  BY <1>1
<1>3. view' = w /\ calls' = calls
  BY <1>0 DEF Logs!Write, LogViews
<1> HIDE DEF logs
<1>4. /\ w \in LogViews /\ w.rows = view.rows /\ w.pending = view.pending /\ w.got = view.got /\ w.sent = view.sent
      /\ w.logs = logs /\ w.of = view.of /\ w.form = view.form /\ w.follow = view.follow
      /\ w.status = view.status /\ w.seq = view.seq /\ w.asked = view.asked /\ w.selected = view.selected
      /\ w.active = view.active /\ w.prev = view.prev /\ w.initial = view.initial
  BY Zenon, <1>0, <1>2 DEF LogViews
<1> HIDE DEF w
<1>5. /\ view.of.end \in Nat /\ view.form.end \in Nat /\ view.sent \in Nat
      /\ \A c \in calls : c.form.end \in Nat
  BY <1>0 DEF LogViews, LogForms, LogCalls
<1>6. \A end \in Nat : end <= n => end <= Len(logs)
  BY <1>1, <1>2
<1>7. LogSearch(w, calls)
  BY <1>0, <1>4, <1>5, <1>6 DEF LogSearch, n
<1>8. \A id : KnownLog(view, id) => KnownLog(w, id)
  <2>1. \A i \in 1..view.of.end : i \in 1..n
    BY <1>0, <1>1, <1>5 DEF LogSearch
  <2> QED
    BY <1>2, <1>4, <2>1 DEF KnownLog
<1>9. LogsKnown(w)
  BY <1>0, <1>4, <1>8 DEF LogsKnown
<1>10. LogOrder(w)
  BY <1>0, <1>4, <1>5, <1>6 DEF LogOrder, n
<1>11. LogHolds(w) /\ LogFollows(w)
  BY <1>0, <1>4 DEF LogHolds, LogFollows
<1> QED
  BY <1>0, <1>3, <1>4, <1>7, <1>9, <1>10, <1>11 DEF LogsInv, LogsState

\* A log that comes, on top of a list.
LEMMA LogOnTop ==
  ASSUME NEW rows \in Seq(LogRows), LiveOrder(rows), NEW sent \in Nat,
         \A j \in DOMAIN rows : rows[j].live => rows[j].id <= sent,
         NEW row \in LogRows, row.id = sent + 1, row.live
  PROVE  LET new == Logs!PrependLiveLog(rows, row)
         IN  /\ new \in Seq(LogRows) /\ Len(new) <= LogLimit /\ Len(new) <= Len(rows) + 1
             /\ LiveOrder(new)
             /\ \A k \in DOMAIN new : new[k] = row \/ \E j \in DOMAIN rows : new[k] = rows[j]
             /\ HeldAt(new, row, 1)
             /\ \A old \in LogRows, place \in Nat :
                  place < LogLimit /\ HeldAt(rows, old, place) => HeldAt(new, old, place + 1)
<1> DEFINE new == Logs!PrependLiveLog(rows, row)
           n == Len(rows)
<1>1. /\ new \in Seq(LogRows) /\ Len(new) = (IF n < LogLimit THEN n + 1 ELSE LogLimit)
      /\ \A i \in 1..Len(new) : new[i] = IF i = 1 THEN row ELSE rows[i - 1]
  BY Zenon, PrependLog
<1>2. n \in Nat /\ DOMAIN rows = 1..n /\ LogLimit \in Nat \ {0}
  BY WebAssumption
<1> HIDE DEF new, n
<1>3. /\ DOMAIN new = 1..Len(new) /\ Len(new) \in Nat /\ Len(new) <= LogLimit /\ Len(new) <= n + 1 /\ Len(new) >= 1
      /\ \A k \in 2..Len(new) : k - 1 \in 1..n /\ new[k] = rows[k - 1]
      /\ new[1] = row
  BY <1>1, <1>2
<1>4. \A j \in 1..n : rows[j] \in LogRows /\ rows[j].id \in Nat /\ (rows[j].live => rows[j].id < row.id)
  <2>1. \A j \in 1..n : rows[j] \in LogRows
    BY <1>2
  <2> QED
    BY <1>2, <2>1 DEF LogRows
<1>5. LiveOrder(new)
  <2> SUFFICES ASSUME NEW i \in 1..Len(new), NEW j \in 1..Len(new), i < j, new[j].live
      PROVE  new[i].live /\ new[i].id > new[j].id
    BY <1>3 DEF LiveOrder
  <2>1. j \in 2..Len(new)
    BY <1>3
  <2>2. CASE i = 1
    BY <1>3, <1>4, <2>1, <2>2
  <2>3. CASE i \in 2..Len(new)
    <3>1. i - 1 \in 1..n /\ j - 1 \in 1..n /\ i - 1 < j - 1 /\ new[i] = rows[i - 1] /\ new[j] = rows[j - 1]
      BY <1>3, <2>1, <2>3
    <3> QED
      BY <1>2, <3>1 DEF LiveOrder
  <2> QED
    BY <1>3, <2>2, <2>3
<1>6. \A k \in DOMAIN new : new[k] = row \/ \E j \in DOMAIN rows : new[k] = rows[j]
  BY <1>2, <1>3
<1>7. HeldAt(new, row, 1)
  BY <1>3 DEF HeldAt
<1>8. ASSUME NEW old \in LogRows, NEW place \in Nat, place < LogLimit, HeldAt(rows, old, place)
      PROVE  HeldAt(new, old, place + 1)
  <2>1. PICK k \in 1..n : k <= place /\ rows[k] = old
    BY <1>2, <1>8 DEF HeldAt
  <2>2. k + 1 \in DOMAIN new /\ k + 1 <= place + 1 /\ (k + 1) - 1 = k /\ k + 1 # 1
    BY <1>1, <1>2, <1>3, <1>8, <2>1
  <2> QED
    BY Zenon, <1>1, <1>3, <2>1, <2>2 DEF HeldAt
<1> QED
  BY <1>1, <1>3, <1>5, <1>6, <1>7, <1>8 DEF new, n

LEMMA LogsReceives ==
  ASSUME LogsInv, Logs!Receive
  PROVE  LogsInv'
<1> DEFINE sent == view.sent + 1
           row == Logs!Row(view, view.sent + 1, TRUE)
           v == [view EXCEPT !.sent = sent]
           n == Len(view.got)
           got == Append(view.got, row)
<1>0. /\ view \in LogViews /\ calls \subseteq LogCalls /\ LogSearch(view, calls) /\ LogFollows(view)
      /\ LogsKnown(view) /\ LogOrder(view) /\ LogHolds(view) /\ calls' = calls /\ view.sent < Len(view.logs)
  BY DEF LogsInv, LogsState, Logs!Receive
<1>1. /\ view.rows \in Seq(LogRows) /\ view.pending \in Seq(LogRows) /\ view.got \in Seq(LogRows)
      /\ view.logs \in Seq(LogTrace) /\ view.sent \in Nat /\ sent \in Nat /\ n \in Nat /\ LogLimit \in Nat
      /\ view.follow \in BOOLEAN
  BY <1>0, WebAssumption DEF LogViews
<1>2. sent \in 1..Len(view.logs) /\ sent <= Len(view.logs) /\ view.sent < sent
  BY <1>0, <1>1
<1>3. row \in LogRows /\ row.id = view.sent + 1 /\ row.live
  BY <1>1, <1>2 DEF Logs!Row, LogRows
<1>4. \/ view' = v
      \/ view.follow /\ view' = [v EXCEPT !.rows = Logs!PrependLiveLog(view.rows, row), !.got = got]
      \/ ~view.follow /\ view' = [v EXCEPT !.pending = Logs!PrependLiveLog(view.pending, row), !.got = got]
  <2>1. v.rows = view.rows /\ v.pending = view.pending /\ v.got = view.got /\ v.follow = view.follow
    BY <1>0 DEF LogViews
  <2>2. \/ view' = v
        \/ v.follow /\ view' = [v EXCEPT !.rows = Logs!PrependLiveLog(@, row), !.got = Append(@, row)]
        \/ ~v.follow /\ view' = [v EXCEPT !.pending = Logs!PrependLiveLog(@, row), !.got = Append(@, row)]
    BY Zenon, <1>0 DEF Logs!Receive, LogViews
  <2>3. /\ [v EXCEPT !.rows = Logs!PrependLiveLog(@, row), !.got = Append(@, row)]
             = [v EXCEPT !.rows = Logs!PrependLiveLog(view.rows, row), !.got = got]
        /\ [v EXCEPT !.pending = Logs!PrependLiveLog(@, row), !.got = Append(@, row)]
             = [v EXCEPT !.pending = Logs!PrependLiveLog(view.pending, row), !.got = got]
    <3> HIDE DEF v, row
    <3> QED
      BY <2>1
  <2> HIDE DEF v, row
  <2> QED
    BY <2>1, <2>2, <2>3
<1>5. /\ got \in Seq(LogRows) /\ DOMAIN got = 1..(n + 1) /\ Len(got) = n + 1 /\ got[n + 1] = row
      /\ \A j \in 1..n : got[j] = view.got[j] /\ got[j] \in LogRows
      /\ DOMAIN view.got = 1..n
  <2>1. \A j \in 1..n : view.got[j] \in LogRows
    BY <1>1
  <2> HIDE DEF row
  <2> QED
    BY <1>1, <1>3, <2>1
<1> HIDE DEF row, got, sent
<1>6. /\ \A j \in DOMAIN view.rows : view.rows[j].live => view.rows[j].id <= view.sent /\ view.rows[j].id <= sent
                                                         /\ view.rows[j].id < row.id
      /\ \A j \in DOMAIN view.pending : view.pending[j].id <= view.sent /\ view.pending[j].id <= sent
                                        /\ view.pending[j].live
  <2>1. /\ \A j \in DOMAIN view.rows : view.rows[j] \in LogRows
        /\ \A j \in DOMAIN view.pending : view.pending[j] \in LogRows
    BY <1>1
  <2>2. /\ \A j \in DOMAIN view.rows : view.rows[j].id \in Nat
        /\ \A j \in DOMAIN view.pending : view.pending[j].id \in Nat
    BY <2>1 DEF LogRows
  <2>3. /\ \A j \in DOMAIN view.rows : view.rows[j].live => view.rows[j].id <= view.sent
        /\ \A j \in DOMAIN view.pending : view.pending[j].id <= view.sent /\ view.pending[j].live
    BY <1>0 DEF LogOrder
  <2>4. \A id \in Nat : id <= view.sent => id <= sent /\ id < row.id
    BY <1>1, <1>2, <1>3
  <2> QED
    BY <2>2, <2>3, <2>4
<1>7. CASE view' = v
  <2>1. /\ v \in LogViews /\ v.rows = view.rows /\ v.pending = view.pending /\ v.got = view.got /\ v.sent = sent
        /\ v.logs = view.logs /\ v.of = view.of /\ v.form = view.form /\ v.follow = view.follow
        /\ v.status = view.status /\ v.seq = view.seq /\ v.asked = view.asked /\ v.selected = view.selected
        /\ v.active = view.active /\ v.prev = view.prev /\ v.initial = view.initial
    BY Zenon, <1>0, <1>1 DEF LogViews
  <2> HIDE DEF v
  <2>2. LogSearch(v, calls) /\ LogsKnown(v)
    BY <1>0, <2>1, SMTT(20) DEF LogSearch, LogsKnown, KnownLog
  <2>3. LogOrder(v)
    BY <1>0, <1>2, <1>6, <2>1 DEF LogOrder
  <2>4. LogHolds(v) /\ LogFollows(v)
    BY <1>0, <2>1 DEF LogHolds, LogFollows
  <2> QED
    BY <1>0, <1>7, <2>1, <2>2, <2>3, <2>4 DEF LogsInv, LogsState
<1>8. ASSUME NEW j \in 1..n, (n + 1) - j < LogLimit
      PROVE  /\ n - j \in Nat /\ (n - j) + 1 < LogLimit /\ (n + 1) - j + 1 = (n - j) + 2
             /\ ((n - j) + 1) + 1 = (n - j) + 2 /\ (n - j) + 1 \in Nat
             /\ \/ HeldAt(view.pending, got[j], (n - j) + 1)
                \/ HeldAt(view.rows, got[j], (n - j) + 1 - Len(view.pending))
  <2>1. n - j \in Nat /\ (n - j) + 1 < LogLimit /\ n - j < LogLimit /\ (n + 1) - j + 1 = (n - j) + 2
        /\ ((n - j) + 1) + 1 = (n - j) + 2 /\ (n - j) + 1 \in Nat
    BY <1>1, <1>8
  <2>2. got[j] = view.got[j] /\ j \in DOMAIN view.got
    BY <1>5
  <2> QED
    BY Zenon, <1>0, <2>1, <2>2 DEF LogHolds
<1>9. \A id : KnownLog(view, id) \/ id = row.id => \/ id \in 1..view.of.end /\ view.of.trace \in {None, view.logs[id]}
                                                  \/ \E i \in DOMAIN got : got[i].id = id
  <2>1. \A i \in DOMAIN view.got : i \in DOMAIN got /\ got[i] = view.got[i]
    BY <1>1, <1>5
  <2>2. n + 1 \in DOMAIN got
    BY <1>1, <1>5
  <2> QED
    BY <1>5, <2>1, <2>2 DEF KnownLog
<1>10. CASE view.follow /\ view' = [v EXCEPT !.rows = Logs!PrependLiveLog(view.rows, row), !.got = got]
  <2> DEFINE new == Logs!PrependLiveLog(view.rows, row)
             w == [v EXCEPT !.rows = new, !.got = got]
  <2>1. /\ new \in Seq(LogRows) /\ Len(new) <= LogLimit /\ LiveOrder(new)
        /\ \A k \in DOMAIN new : new[k] = row \/ \E j \in DOMAIN view.rows : new[k] = view.rows[j]
        /\ HeldAt(new, row, 1)
        /\ \A old \in LogRows, place \in Nat :
             place < LogLimit /\ HeldAt(view.rows, old, place) => HeldAt(new, old, place + 1)
    <3>1. LiveOrder(view.rows)
      BY <1>0 DEF LogOrder
    <3> QED
      BY Zenon, <1>1, <1>3, <1>6, <3>1, LogOnTop
  <2>2. view' = w
    BY <1>10
  <2> HIDE DEF new
  <2>3. /\ w \in LogViews /\ w.rows = new /\ w.pending = view.pending /\ w.got = got /\ w.sent = sent
        /\ w.logs = view.logs /\ w.of = view.of /\ w.form = view.form /\ w.follow = view.follow
        /\ w.status = view.status /\ w.seq = view.seq /\ w.asked = view.asked /\ w.selected = view.selected
        /\ w.active = view.active /\ w.prev = view.prev /\ w.initial = view.initial
    BY Zenon, <1>0, <1>1, <1>5, <2>1 DEF LogViews
  <2> HIDE DEF v, w
  <2>4. view.pending = <<>>
    BY <1>0, <1>10 DEF LogFollows
  <2>5. LogSearch(w, calls) /\ LogFollows(w)
    BY <1>0, <2>3 DEF LogSearch, LogFollows
  <2>6. \A id : KnownLog(view, id) \/ id = row.id => KnownLog(w, id)
    BY <1>9, <2>3 DEF KnownLog
  <2>7. LogsKnown(w)
    BY <1>0, <2>1, <2>3, <2>6 DEF LogsKnown
  <2>8. LogOrder(w)
    <3>1. \A j \in DOMAIN new : new[j].live => new[j].id <= sent
      <4>1. row.id <= sent
        BY <1>1, <1>3 DEF sent
      <4> QED
        BY <1>6, <2>1, <4>1
    <3>2. LiveOrder(<<>>) /\ Len(view.pending) <= LogLimit
      BY <1>0 DEF LiveOrder, LogOrder
    <3> QED
      BY <1>2, <2>1, <2>3, <2>4, <3>1, <3>2 DEF LogOrder
  <2>9. LogHolds(w)
    <3> SUFFICES ASSUME NEW j \in 1..(n + 1), (n + 1) - j < LogLimit
        PROVE  HeldAt(new, got[j], (n + 1) - j + 1 - Len(<<>>))
      BY Zenon, <1>5, <2>3, <2>4 DEF LogHolds
    <3>1. CASE j = n + 1
      <4>1. (n + 1) - j + 1 - Len(<<>>) = 1 /\ got[j] = row
        BY <1>1, <1>5, <3>1
      <4> QED
        BY <2>1, <4>1
    <3>2. CASE j \in 1..n
      <4>1. /\ (n - j) + 1 \in Nat /\ (n - j) + 1 < LogLimit /\ (n + 1) - j + 1 - Len(<<>>) = ((n - j) + 1) + 1
            /\ got[j] \in LogRows /\ (n - j) + 1 - Len(<<>>) = (n - j) + 1
        BY <1>1, <1>5, <1>8, <3>2
      <4>2. ~HeldAt(<<>>, got[j], (n - j) + 1)
        BY DEF HeldAt
      <4>3. HeldAt(view.rows, got[j], (n - j) + 1)
        BY <1>8, <2>4, <3>2, <4>1, <4>2
      <4> QED
        BY <2>1, <4>1, <4>3
    <3> QED
      BY <1>1, <3>1, <3>2
  <2> QED
    BY <1>0, <2>2, <2>3, <2>5, <2>7, <2>8, <2>9 DEF LogsInv, LogsState
<1>11. CASE ~view.follow /\ view' = [v EXCEPT !.pending = Logs!PrependLiveLog(view.pending, row), !.got = got]
  <2> DEFINE new == Logs!PrependLiveLog(view.pending, row)
             w == [v EXCEPT !.pending = new, !.got = got]
  <2>1. /\ new \in Seq(LogRows) /\ Len(new) <= LogLimit /\ Len(new) <= Len(view.pending) + 1 /\ LiveOrder(new)
        /\ \A k \in DOMAIN new : new[k] = row \/ \E j \in DOMAIN view.pending : new[k] = view.pending[j]
        /\ HeldAt(new, row, 1)
        /\ \A old \in LogRows, place \in Nat :
             place < LogLimit /\ HeldAt(view.pending, old, place) => HeldAt(new, old, place + 1)
    <3>1. LiveOrder(view.pending)
      BY <1>0 DEF LogOrder
    <3> QED
      BY Zenon, <1>1, <1>3, <1>6, <3>1, LogOnTop
  <2>2. view' = w
    BY <1>11
  <2> HIDE DEF new
  <2>3. /\ w \in LogViews /\ w.rows = view.rows /\ w.pending = new /\ w.got = got /\ w.sent = sent
        /\ w.logs = view.logs /\ w.of = view.of /\ w.form = view.form /\ w.follow = view.follow
        /\ w.status = view.status /\ w.seq = view.seq /\ w.asked = view.asked /\ w.selected = view.selected
        /\ w.active = view.active /\ w.prev = view.prev /\ w.initial = view.initial
    BY Zenon, <1>0, <1>1, <1>5, <2>1 DEF LogViews
  <2> HIDE DEF v, w
  <2>4. LogSearch(w, calls) /\ LogFollows(w)
    BY <1>0, <1>11, <2>3 DEF LogSearch, LogFollows
  <2>5. \A id : KnownLog(view, id) \/ id = row.id => KnownLog(w, id)
    BY <1>9, <2>3 DEF KnownLog
  <2>6. LogsKnown(w)
    BY <1>0, <2>1, <2>3, <2>5 DEF LogsKnown
  <2>7. LogOrder(w)
    <3>1. row.id <= sent
      BY <1>1, <1>3 DEF sent
    <3>2. \A i \in DOMAIN new : new[i].live /\ new[i].id <= sent
      BY <1>3, <1>6, <2>1, <3>1
    <3>3. \A i \in DOMAIN new, j \in DOMAIN view.rows : view.rows[j].live => new[i].id > view.rows[j].id
      <4>1. \A i \in DOMAIN view.pending, j \in DOMAIN view.rows :
              view.rows[j].live => view.pending[i].id > view.rows[j].id
        BY <1>0 DEF LogOrder
      <4>2. \A j \in DOMAIN view.rows : view.rows[j] \in LogRows
        BY <1>1
      <4>3. \A j \in DOMAIN view.rows : view.rows[j].live => row.id > view.rows[j].id
        BY <1>3, <1>6, <4>2 DEF LogRows
      <4> QED
        BY <2>1, <4>1, <4>3
    <3>4. Len(view.rows) <= LogLimit /\ LiveOrder(view.rows)
      BY <1>0 DEF LogOrder
    <3> QED
      BY <1>2, <1>6, <2>1, <2>3, <3>2, <3>3, <3>4 DEF LogOrder
  <2>8. LogHolds(w)
    <3> SUFFICES ASSUME NEW j \in 1..(n + 1), (n + 1) - j < LogLimit
        PROVE  \/ HeldAt(new, got[j], (n + 1) - j + 1)
               \/ HeldAt(view.rows, got[j], (n + 1) - j + 1 - Len(new))
      BY Zenon, <1>5, <2>3 DEF LogHolds
    <3>1. CASE j = n + 1
      <4>1. (n + 1) - j + 1 = 1 /\ got[j] = row
        BY <1>1, <1>5, <3>1
      <4> QED
        BY Zenon, <2>1, <4>1
    <3>2. CASE j \in 1..n
      <4>1. /\ n - j \in Nat /\ (n - j) + 1 < LogLimit /\ (n + 1) - j + 1 = (n - j) + 2 /\ got[j] \in LogRows
            /\ ((n - j) + 1) + 1 = (n - j) + 2 /\ (n - j) + 1 \in Nat
        BY <1>5, <1>8, <3>2
      <4>2. CASE HeldAt(view.pending, got[j], (n - j) + 1)
        <5>1. HeldAt(new, got[j], ((n - j) + 1) + 1)
          BY <2>1, <4>1, <4>2
        <5> QED
          BY <4>1, <5>1
      <4>3. CASE HeldAt(view.rows, got[j], (n - j) + 1 - Len(view.pending))
        <5>1. PICK k \in DOMAIN view.rows : k <= (n - j) + 1 - Len(view.pending) /\ view.rows[k] = got[j]
          BY Zenon, <4>3 DEF HeldAt
        <5>2. k \in Nat /\ Len(view.pending) \in Nat /\ Len(new) \in Nat /\ Len(new) <= Len(view.pending) + 1
          BY <1>1, <2>1, SMTT(20)
        <5>3. k <= (n - j) + 2 - Len(new)
          BY Zenon, <4>1, <5>1, <5>2, DownByOne
        <5> QED
          BY <4>1, <5>1, <5>3 DEF HeldAt
      <4> QED
        BY Zenon, <1>8, <3>2, <4>1, <4>2, <4>3
    <3>3. j = n + 1 \/ j \in 1..n
      BY <1>1
    <3> QED
      BY <3>1, <3>2, <3>3
  <2> QED
    BY <1>0, <2>2, <2>3, <2>4, <2>6, <2>7, <2>8 DEF LogsInv, LogsState
<1> QED
  BY <1>4, <1>7, <1>10, <1>11

LEMMA LogsShowsPending ==
  ASSUME LogsInv, Logs!ShowPending
  PROVE  LogsInv'
<1> DEFINE new == Logs!FlushPendingLogs(view.rows, view.pending)
           w == [view EXCEPT !.rows = new, !.pending = <<>>, !.hover = FALSE, !.top = TRUE, !.follow = TRUE]
           p == Len(view.pending)
           m == Len(view.rows)
           n == Len(view.got)
<1>0. /\ view \in LogViews /\ calls \subseteq LogCalls /\ LogSearch(view, calls) /\ LogFollows(view)
      /\ LogsKnown(view) /\ LogOrder(view) /\ LogHolds(view) /\ calls' = calls
  BY DEF LogsInv, LogsState, Logs!ShowPending
<1>1. /\ view.rows \in Seq(LogRows) /\ view.pending \in Seq(LogRows) /\ view.got \in Seq(LogRows)
      /\ view.sent \in Nat /\ p \in Nat /\ m \in Nat /\ n \in Nat /\ LogLimit \in Nat /\ <<>> \in Seq(LogRows)
      /\ DOMAIN view.rows = 1..m /\ DOMAIN view.pending = 1..p /\ DOMAIN view.got = 1..n
  BY <1>0, WebAssumption DEF LogViews
<1>2. view' = w
  <2>1. view' = [view EXCEPT !.rows = Logs!FlushPendingLogs(@, view.pending), !.pending = <<>>,
                             !.hover = FALSE, !.top = TRUE, !.follow = TRUE]
    BY DEF Logs!ShowPending
  <2>2. [view EXCEPT !.rows = Logs!FlushPendingLogs(@, view.pending), !.pending = <<>>,
                             !.hover = FALSE, !.top = TRUE, !.follow = TRUE] = w
    BY <1>0 DEF LogViews
  <2> QED
    BY <2>1, <2>2
<1>3. m <= LogLimit /\ p <= LogLimit
  BY <1>0 DEF LogOrder
<1>4. StackedLogs(new, view.rows, view.pending, p)
  BY <1>1, <1>3, FlushLogs
<1> HIDE DEF new, p, m, n
<1>5. /\ new \in Seq(LogRows) /\ Len(new) \in Nat /\ DOMAIN new = 1..Len(new) /\ p <= Len(new) /\ Len(new) <= LogLimit
      /\ Len(new) = IF m + p < LogLimit THEN m + p ELSE LogLimit
  <2>1. new \in Seq(LogRows) /\ Len(new) = IF m + p < LogLimit THEN m + p ELSE LogLimit
    BY <1>4 DEF StackedLogs, m
  <2> QED
    BY <1>1, <1>3, <2>1
<1>6. ASSUME NEW k \in 1..Len(new)
      PROVE  \/ k \in 1..p /\ new[k] = view.pending[k]
             \/ k > p /\ k - p \in 1..m /\ new[k] = view.rows[k - p]
  <2>1. new[k] = IF k <= p THEN view.pending[p - p + k] ELSE view.rows[k - p]
    BY Zenon, <1>4 DEF StackedLogs, p
  <2>2. p - p + k = k /\ (k > p => k - p \in 1..m) /\ (k <= p => k \in 1..p)
    BY <1>1, <1>5
  <2> QED
    BY <1>1, <1>5, <2>1, <2>2
<1>7. /\ w \in LogViews /\ w.rows = new /\ w.pending = <<>> /\ w.got = view.got /\ w.sent = view.sent
      /\ w.logs = view.logs /\ w.of = view.of /\ w.form = view.form /\ w.follow
      /\ w.status = view.status /\ w.seq = view.seq /\ w.asked = view.asked /\ w.selected = view.selected
      /\ w.active = view.active /\ w.prev = view.prev /\ w.initial = view.initial
  BY Zenon, <1>0, <1>1, <1>5 DEF LogViews
<1> HIDE DEF w
<1>8. LogSearch(w, calls) /\ LogFollows(w)
  BY <1>0, <1>7 DEF LogSearch, LogFollows
<1>9. LogsKnown(w)
  <2>1. \A id : KnownLog(view, id) => KnownLog(w, id)
    BY <1>7 DEF KnownLog
  <2>2. ASSUME view.status = "ok" PROVE \A k \in DOMAIN new : KnownLog(view, new[k].id)
    <3>1. /\ \A i \in 1..m : KnownLog(view, view.rows[i].id)
          /\ \A i \in 1..p : KnownLog(view, view.pending[i].id)
      BY Zenon, <1>0, <1>1, <2>2 DEF LogsKnown
    <3>2. \A k \in 1..Len(new) : \/ \E i \in 1..p : new[k] = view.pending[i]
                                 \/ \E i \in 1..m : new[k] = view.rows[i]
      BY <1>6
    <3> QED
      BY <1>5, <3>1, <3>2
  <2>3. DOMAIN w.pending = {}
    BY <1>7
  <2> QED
    BY <1>0, <1>7, <2>1, <2>2, <2>3 DEF LogsKnown
<1>10. LogOrder(w)
  <2>1. /\ \A j \in 1..m : view.rows[j].live => view.rows[j].id <= view.sent
        /\ \A i \in 1..p : view.pending[i].live /\ view.pending[i].id <= view.sent
        /\ \A i \in 1..p, j \in 1..m : view.rows[j].live => view.pending[i].id > view.rows[j].id
        /\ \A i, j \in 1..m : i < j /\ view.rows[j].live => view.rows[i].live /\ view.rows[i].id > view.rows[j].id
        /\ \A i, j \in 1..p : i < j => view.pending[i].id > view.pending[j].id
    BY Zenon, <1>0, <1>1 DEF LogOrder, LiveOrder
  <2>2. LiveOrder(new)
    <3> SUFFICES ASSUME NEW i \in 1..Len(new), NEW j \in 1..Len(new), i < j, new[j].live
        PROVE  new[i].live /\ new[i].id > new[j].id
      BY <1>5 DEF LiveOrder
    <3>1. CASE i <= p /\ j <= p
      BY <1>1, <1>6, <2>1, <3>1
    <3>2. CASE i <= p /\ j > p
      <4>1. i \in 1..p /\ new[i] = view.pending[i]
        <5>1. ~(i > p)
          BY <1>1, <3>2
        <5> QED
          BY <1>6, <5>1
      <4>2. j - p \in 1..m /\ new[j] = view.rows[j - p]
        <5>1. ~(j \in 1..p)
          BY <1>1, <3>2
        <5> QED
          BY <1>6, <5>1
      <4> QED
        BY <2>1, <4>1, <4>2
    <3>3. CASE i > p
      <4>1. i - p \in 1..m /\ j - p \in 1..m /\ new[i] = view.rows[i - p] /\ new[j] = view.rows[j - p] /\ i - p < j - p
        BY <1>1, <1>6, <3>3
      <4> QED
        BY <2>1, <4>1
    <3> QED
      BY <1>1, <3>1, <3>2, <3>3
  <2>3. \A j \in DOMAIN new : new[j].live => new[j].id <= view.sent
    BY <1>5, <1>6, <2>1
  <2>4. LiveOrder(<<>>) /\ Len(<<>>) <= LogLimit /\ view.sent <= Len(view.logs)
    BY <1>0, <1>1 DEF LiveOrder, LogOrder
  <2> QED
    BY <1>5, <1>7, <2>2, <2>3, <2>4 DEF LogOrder
<1>11. LogHolds(w)
  <2> SUFFICES ASSUME NEW j \in DOMAIN view.got, n - j < LogLimit
      PROVE  HeldAt(new, view.got[j], n - j + 1 - Len(<<>>))
    BY <1>7 DEF LogHolds, n
  <2>1. n - j \in Nat /\ n - j + 1 - Len(<<>>) = n - j + 1 /\ n - j + 1 <= LogLimit
    BY <1>1
  <2>2. CASE HeldAt(view.pending, view.got[j], n - j + 1)
    <3>1. PICK k \in 1..p : k <= n - j + 1 /\ view.pending[k] = view.got[j]
      BY <1>1, <2>2 DEF HeldAt
    <3>2. k \in 1..Len(new) /\ ~(k > p)
      BY <1>1, <1>5, <3>1
    <3>3. k \in DOMAIN new /\ new[k] = view.pending[k]
      BY <1>5, <1>6, <3>2
    <3> QED
      BY <2>1, <3>1, <3>3 DEF HeldAt
  <2>3. CASE HeldAt(view.rows, view.got[j], n - j + 1 - p)
    <3>1. PICK a \in 1..m : a <= n - j + 1 - p /\ view.rows[a] = view.got[j]
      BY <1>1, <2>3 DEF HeldAt
    <3> DEFINE since == n - j
    <3>2. since \in Nat /\ a \in Nat /\ a <= since + 1 - p /\ since + 1 <= LogLimit
      BY <1>1, <2>1, <3>1
    <3>3. a + p <= LogLimit /\ a + p <= since + 1
      <4> HIDE DEF since
      <4> QED
        BY <1>1, <3>2
    <3>4. a + p \in 1..Len(new) /\ a + p > p /\ (a + p) - p = a
      <4>1. a \in 1..m /\ a + p <= LogLimit
        BY <3>3
      <4> HIDE DEF since
      <4>2. a + p <= m + p /\ a + p >= 1
        BY <1>1, <4>1
      <4>3. a + p <= Len(new)
        BY <1>5, <4>1, <4>2
      <4> QED
        BY <1>1, <1>5, <4>1, <4>2, <4>3
    <3>5. new[a + p] = view.rows[a] /\ ~(a + p \in 1..p)
      BY <1>1, <1>6, <3>4
    <3> QED
      BY <1>5, <2>1, <3>1, <3>3, <3>4, <3>5 DEF HeldAt
  <2> QED
    BY <1>0, <2>2, <2>3 DEF LogHolds, n, p
<1> QED
  BY <1>0, <1>2, <1>7, <1>8, <1>9, <1>10, <1>11 DEF LogsInv, LogsState

LEMMA LogsSteps == LogsInv /\ Logs!Next => LogsInv'
<1> SUFFICES ASSUME LogsInv, Logs!Next PROVE LogsInv'
  OBVIOUS
<1>1. LogTraces \cup {None} = LogTrace /\ None \in LogTrace /\ \A id \in 1..MaxLogs : id \in Nat
  BY DEF LogTrace
<1> QED
  BY <1>1, LogsScreen, LogsForm, LogsPointer, LogsSelects, LogsAnswered, LogsFailed, LogsWritten, LogsReceives,
     LogsShowsPending DEF Logs!Next

-----------------------------------------------------------------------------
(* Windows *)

\* The last two steps of CoverTraceWindow: the present, and what the server takes.
LiveWindow(start, end, now) ==
  IF now >= start THEN Window(start, Larger(end, now + Slack)) ELSE Window(start, end)

AskedFor(live) ==
  LET w == Cut(live)
  IN  Written(IF w.end <= w.start THEN Window(w.start, w.start + Slack) ELSE w)

\* What is written of a time: the time or a half second less, and even.
LEMMA WrittenTime ==
  ASSUME NEW t \in Int
  PROVE  /\ ToRFC3339(t) \in Int /\ ToRFC3339(t) \in {t, t - 1}
         /\ ToRFC3339(t) % 2 = 0
         /\ t % 2 = 0 => ToRFC3339(t) = t
  BY SMTT(30) DEF ToRFC3339

\* Times that lie a whole number of seconds apart are written that far apart.
LEMMA WrittenApart ==
  ASSUME NEW t \in Int, NEW d \in Int, d % 2 = 0
  PROVE  ToRFC3339(t - d) = ToRFC3339(t) - d
<1>1. (t - d) % 2 = t % 2
  BY SMTT(30)
<1> QED
  BY <1>1 DEF ToRFC3339

LEMMA CutIsLegal ==
  ASSUME NEW start \in Int, NEW end \in Int, start + 2 <= end,
         NEW w, w = Written(Cut(Window(start, end)))
  PROVE  /\ w.start \in Int /\ w.end = ToRFC3339(end)
         /\ w.start < w.end /\ w.end - w.start <= MaxWindow
         /\ w.start <= start \/ w.end - w.start = MaxWindow
<1> DEFINE s == ToRFC3339(start)
           e == ToRFC3339(end)
<1>1. MaxWindow \in Nat /\ MaxWindow % 2 = 0 /\ 2 <= MaxWindow
  BY WindowAssumption
<1>2. /\ s \in Int /\ s \in {start, start - 1} /\ s % 2 = 0
      /\ e \in Int /\ e \in {end, end - 1} /\ e % 2 = 0
  BY WrittenTime
<1>3. CASE end - start > MaxWindow
  <2>1. w.start = ToRFC3339(end - MaxWindow) /\ w.end = e
    BY <1>3 DEF Cut, Written, Window
  <2>2. ToRFC3339(end - MaxWindow) = e - MaxWindow
    <3>1. MaxWindow \in Int
      BY <1>1
    <3>2. MaxWindow % 2 = 0
      BY <1>1
    <3> QED
      BY <3>1, <3>2, WrittenApart, Zenon
  <2> HIDE DEF e
  <2>3. w.start = e - MaxWindow
    BY <2>1, <2>2
  <2> QED
    BY <1>1, <1>2, <2>1, <2>3 DEF e
<1>4. CASE ~(end - start > MaxWindow)
  <2>1. w.start = s /\ w.end = e
    BY <1>4 DEF Cut, Written, Window
  <2>2. s # end - MaxWindow - 1 \/ e # end
    BY <1>1, <1>2, SMTT(30)
  <2> HIDE DEF s, e
  <2>3. s < e /\ s <= start
    BY <1>2
  <2>4. e - s <= MaxWindow
    BY <1>1, <1>2, <1>4, SMTT(30)
  <2> QED
    BY <1>2, <2>1, <2>3, <2>4 DEF e
<1> QED
  BY <1>3, <1>4

LEMMA LiveCovers ==
  ASSUME NEW start \in Int, NEW end \in Int, NEW now \in Int
  PROVE  LET live == LiveWindow(start, end, now)
         IN  /\ live = Window(start, live.end) /\ live.end \in Int /\ end <= live.end
             /\ live.end = end \/ start + Slack <= live.end
<1>1. Slack \in Nat
  BY WindowAssumption
<1> QED
  BY <1>1 DEF LiveWindow, Window, Larger

LEMMA CutEmpty ==
  ASSUME NEW start \in Int, NEW end \in Int, end <= start
  PROVE  Cut(Window(start, end)) = Window(start, end)
<1>1. MaxWindow \in Nat
  BY WindowAssumption
<1> QED
  BY <1>1 DEF Cut, Window

LEMMA CutKeepsOrder ==
  ASSUME NEW start \in Int, NEW end \in Int, start < end
  PROVE  Cut(Window(start, end)).start < Cut(Window(start, end)).end
<1>1. MaxWindow \in Nat /\ 0 < MaxWindow
  BY WindowAssumption
<1> QED
  BY <1>1 DEF Cut, Window

\* A window that is not empty is two half seconds long, or ends where a form does.
LEMMA CoverIsLegal ==
  ASSUME NEW start \in Int, NEW end \in Int, NEW now \in Int,
         start + 2 <= end \/ (start % 2 = 0 /\ end % 2 = 0),
         NEW live, live = LiveWindow(start, end, now),
         NEW written, written = AskedFor(live)
  PROVE  /\ written.start < written.end /\ written.end - written.start <= MaxWindow
         /\ start < end => written.end = ToRFC3339(live.end) /\ end <= live.end /\ live.end \in Int
         /\ written.start \in Int
         /\ written.start <= start \/ written.end - written.start = MaxWindow
<1> DEFINE w == Cut(live)
<1>1. /\ Slack \in Nat /\ MaxWindow \in Nat /\ Slack % 2 = 0 /\ 2 <= Slack /\ Slack <= MaxWindow
  BY WindowAssumption
<1>2. /\ live = Window(start, live.end) /\ live.end \in Int /\ end <= live.end
      /\ live.end = end \/ start + Slack <= live.end
  BY LiveCovers
<1>3. CASE start < live.end
  <2>1. start + 2 <= live.end
    BY <1>1, <1>2, <1>3, SMTT(30)
  <2>2. w.start < w.end
    BY <1>2, <1>3, CutKeepsOrder
  <2>3. written = Written(w)
    <3>1. w = Cut(Window(start, live.end))
      BY <1>2
    <3>2. w.start \in Int /\ w.end \in Int
      BY <1>1, <1>2, <3>1 DEF Cut, Window
    <3> QED
      BY <2>2, <3>2 DEF AskedFor
  <2>4. written = Written(Cut(Window(start, live.end)))
    BY <1>2, <2>3
  <2>5. /\ written.start \in Int /\ written.end = ToRFC3339(live.end)
        /\ written.start < written.end /\ written.end - written.start <= MaxWindow
        /\ written.start <= start \/ written.end - written.start = MaxWindow
    BY <1>2, <2>1, <2>4, CutIsLegal
  <2> QED
    BY <1>2, <2>5
<1>4. CASE live.end <= start
  <2>1. w = Window(start, live.end)
    BY <1>2, <1>4, CutEmpty
  <2>2. written = Written(Window(start, start + Slack))
    BY <1>4, <2>1 DEF Window, AskedFor
  <2>3. start % 2 = 0
    BY <1>2, <1>4
  <2>4. (start + Slack) % 2 = 0 /\ start + Slack \in Int
    BY <1>1, <2>3, SMTT(30)
  <2>5. ToRFC3339(start) = start /\ ToRFC3339(start + Slack) = start + Slack
    BY <2>3, <2>4, WrittenTime
  <2>6. written.start = start /\ written.end = start + Slack
    BY <2>2, <2>5 DEF Written, Window
  <2> QED
    BY <1>1, <1>2, <1>4, <2>6
<1> QED
  BY <1>2, <1>3, <1>4

-----------------------------------------------------------------------------
(* The theorems *)

\* A trace opened from a row of the table: the window it is asked for with is
\* one the server takes and ends after the row, and it holds the row unless now,
\* the form's end or the row's end is later than the largest window after it.
THEOREM RowWindowIsLegal ==
  ASSUME NEW form, form.start \in Int, form.end \in Int,
         NEW row, row.at \in Int, row.length \in Int, NEW now \in Int
  PROVE  WindowIsLegal(form, {row}, now)
<1> DEFINE start == Smaller(row.at, form.start)
           end == Larger(form.end, row.at + Larger(row.length, 0) + Slack)
           live == LiveWindow(start, end, now)
           written == AskedFor(live)
<1>1. Slack \in Nat /\ 2 <= Slack /\ MaxWindow \in Nat /\ NaN \notin Int
  BY WindowAssumption
<1>2. /\ start \in Int /\ start <= row.at /\ end \in Int /\ row.at + row.length + 2 <= end
      /\ start + 2 <= end
  BY <1>1 DEF Smaller, Larger
<1>8. live.end <= Latest(form, row, now) /\ Latest(form, row, now) \in Int
  <2>1. live.end \in {end, Larger(end, now + Slack)}
    BY DEF LiveWindow, Window
  <2> QED
    BY <1>1, <2>1 DEF Larger, Latest
<1>3. CoverTraceWindow(form, {row}, now) = written
  <2>1. (CHOOSE r \in {row} : TRUE) = row /\ {row} # {}
    OBVIOUS
  <2>2. form.start # NaN /\ form.end # NaN
    BY <1>1
  <2>3. Covered(form, row) = Window(start, end)
    BY DEF Covered
  <2>4. Window(start, end).start = start /\ Window(start, end).end = end
    BY DEF Window
  <2> HIDE DEF start, end
  <2> QED
    BY <2>1, <2>2, <2>3, <2>4 DEF CoverTraceWindow, LiveWindow, AskedFor
<1> HIDE DEF start, end
<1>4. /\ written.start < written.end /\ written.end - written.start <= MaxWindow
      /\ written.end = ToRFC3339(live.end) /\ end <= live.end /\ live.end \in Int
      /\ written.start \in Int
      /\ written.start <= start \/ written.end - written.start = MaxWindow
  BY <1>2, CoverIsLegal
<1> HIDE DEF live, written
<1>5. ToRFC3339(live.end) \in {live.end, live.end - 1}
  BY <1>4, WrittenTime
<1>6. row.at + row.length < written.end
  BY <1>2, <1>4, <1>5
<1>7. ASSUME Latest(form, row, now) - row.at <= MaxWindow
      PROVE  written.start <= row.at
  <2>1. CASE written.start <= start
    BY <1>2, <1>4, <2>1
  <2>2. CASE written.end - written.start = MaxWindow
    BY <1>1, <1>4, <1>5, <1>7, <1>8, <2>2
  <2> QED
    BY <1>4, <2>1, <2>2
<1> QED
  BY <1>3, <1>4, <1>6, <1>7 DEF WindowIsLegal

\* A trace opened by its id: no row widens the window of the form.
THEOREM FormWindowIsLegal ==
  ASSUME NEW form, form.start \in Int, form.end \in Int, form = Window(form.start, form.end), NEW now \in Int
  PROVE  WindowIsLegal(form, {}, now)
<1> SUFFICES ASSUME form.start % 2 = 0, form.end % 2 = 0
             PROVE  LET w == CoverTraceWindow(form, {}, now)
                    IN  w.start < w.end /\ w.end - w.start <= MaxWindow
  BY DEF WindowIsLegal
<1> DEFINE live == LiveWindow(form.start, form.end, now)
           written == AskedFor(live)
<1>1. NaN \notin Int
  BY WindowAssumption
<1>2. CoverTraceWindow(form, {}, now) = written
  BY <1>1 DEF CoverTraceWindow, LiveWindow, AskedFor
<1>3. written.start < written.end /\ written.end - written.start <= MaxWindow
  BY CoverIsLegal
<1> QED
  BY <1>2, <1>3

\* The overview compares two halves of the window: they meet, fill it, and the
\* second is longer by a second at most.
THEOREM HalvesOfAWindow ==
  ASSUME NEW start \in Int, NEW end \in Int, start % 2 = 0, end % 2 = 0
  PROVE  HalvesAreEqual(Window(start, end))
<1> DEFINE mid == start + (end - start) \div 2
           m == ToRFC3339(mid)
           window == Window(start, end)
<1>1. window.start = start /\ window.end = end
  BY DEF Window
<1> SUFFICES ASSUME SplitWindow(window) # {}
             PROVE  \E first, second \in SplitWindow(window) :
                      /\ first.start = window.start /\ first.end = second.start /\ second.end = window.end
                      /\ (second.end - second.start) - (first.end - first.start) \in 0..2
  BY DEF HalvesAreEqual
<1>2. SplitWindow(window) = {Window(start, m), Window(m, end)}
  BY <1>1 DEF SplitWindow
<1>3. mid \in Int /\ mid + mid = start + end
  BY SMTT(30)
<1>4. m \in {mid, mid - 1}
  BY <1>3, WrittenTime
<1>5. (end - m) - (m - start) \in 0..2
  <2> HIDE DEF m, mid
  <2> QED
    BY <1>3, <1>4, SMTT(30)
<1>6. /\ Window(start, m).start = start /\ Window(start, m).end = m
      /\ Window(m, end).start = m /\ Window(m, end).end = end
  BY DEF Window
<1>7. Window(start, m) \in SplitWindow(window) /\ Window(m, end) \in SplitWindow(window)
  BY <1>2
<1> HIDE DEF m, window
<1> QED
  BY <1>1, <1>5, <1>6, <1>7

-----------------------------------------------------------------------------
(* URLs *)

\* A blank text stays blank, and trimming twice is trimming once.
LEMMA TrimText ==
  ASSUME NEW text
  PROVE  Trim(Trim(text)) = Trim(text) /\ (Trim(text) \in Blank <=> text \in Blank)
BY Zenon DEF Trim, Blank

\* What is written for a field, and what is read back.
KeptFields(form) == {"start", "end", "limit"} \cup {f \in Filters : form[f] \notin Blank}
TextOf(form, f) == IF f = "limit" /\ form["limit"] \in Blank THEN "50" ELSE Trim(form[f])

LEMMA ParamsOfForm ==
  ASSUME NEW form, NEW min \in {"min", "min_duration"}
  PROVE  LET p == Params(form, min)
             Name(f) == IF f = "min" THEN min ELSE f
         IN  /\ p = [name \in {Name(f) : f \in KeptFields(form)} |-> p[name]]
             /\ \A f \in KeptFields(form) : p[Name(f)] = TextOf(form, f)
BY DEF Params, KeptFields, TextOf, Filters

\* What a form written to a URL and read back again keeps.
ReadsBack(form, trace, url, back) ==
  /\ DOMAIN url = KeptFields(form) \cup (IF Trim(trace) = "" THEN {} ELSE {"trace"})
  /\ \A f \in KeptFields(form) : url[f] = TextOf(form, f)
  /\ Trim(trace) # "" => url["trace"] = Trim(trace)
  /\ DOMAIN back = Fields
  /\ \A f \in KeptFields(form) : back[f] = TextOf(form, f)
  /\ \A f \in Filters : form[f] \in Blank => back[f] = ""

LEMMA ReadBack ==
  ASSUME NEW form, DOMAIN form = Fields, NEW trace
  PROVE  LET url == WritePageURL(form, trace)
         IN  ReadsBack(form, trace, url, FormFromSearchParams(url))
<1> DEFINE p == BuildPageParams(form)
           url == WritePageURL(form, trace)
           back == FormFromSearchParams(url)
<1>1. DOMAIN p = KeptFields(form) /\ \A f \in KeptFields(form) : p[f] = TextOf(form, f)
  <2> DEFINE q == Params(form, "min")
             Name(f) == IF f = "min" THEN "min" ELSE f
  <2>1. /\ q = [name \in {Name(f) : f \in KeptFields(form)} |-> q[name]]
        /\ \A f \in KeptFields(form) : q[Name(f)] = TextOf(form, f)
    <3> DEFINE min == "min"
    <3>1. min \in {"min", "min_duration"}
      OBVIOUS
    <3> QED
      BY Zenon, <3>1, ParamsOfForm
  <2>2. \A f : Name(f) = f
    OBVIOUS
  <2>3. {Name(f) : f \in KeptFields(form)} = KeptFields(form)
    BY <2>2
  <2>4. p = q
    BY DEF BuildPageParams
  <2> QED
    BY <2>1, <2>2, <2>3, <2>4
<1> HIDE DEF p
<1>2. "trace" \notin KeptFields(form) /\ KeptFields(form) \subseteq Fields
  BY DEF KeptFields, Filters, Fields
<1>3. url = [f \in KeptFields(form) \cup (IF Trim(trace) = "" THEN {} ELSE {"trace"}) |->
               IF f = "trace" THEN Trim(trace) ELSE p[f]]
  BY <1>1 DEF WritePageURL, p
<1> HIDE DEF url
<1>4. /\ DOMAIN url = KeptFields(form) \cup (IF Trim(trace) = "" THEN {} ELSE {"trace"})
      /\ \A f \in KeptFields(form) : url[f] = TextOf(form, f)
      /\ Trim(trace) # "" => url["trace"] = Trim(trace)
  BY Zenon, <1>1, <1>2, <1>3
<1>5. back = [f \in Fields |-> IF f \in DOMAIN url THEN url[f] ELSE DefaultForm[f]]
  BY DEF FormFromSearchParams
<1> HIDE DEF back
<1>6. DOMAIN back = Fields /\ \A f \in KeptFields(form) : back[f] = TextOf(form, f)
  BY Zenon, <1>2, <1>4, <1>5
<1>7. ASSUME NEW f \in Filters, form[f] \in Blank PROVE back[f] = ""
  <2>1. f \notin DOMAIN url
    BY Zenon, <1>4, <1>7 DEF KeptFields, Filters
  <2>2. f \in Fields /\ DefaultForm[f] = ""
    BY Zenon DEF DefaultForm, Fields, Filters
  <2> QED
    BY Zenon, <1>5, <2>1, <2>2
<1>8. ReadsBack(form, trace, url, back)
  BY Zenon, <1>4, <1>6, <1>7 DEF ReadsBack
<1> QED
  BY <1>8 DEF url, back

\* A search keeps its fields through its URL, with a trace in it or without.
THEOREM SearchSurvivesURL ==
  ASSUME NEW form, DOMAIN form = Fields, NEW trace
  PROVE  URLKeepsTheSearch(form, trace)
<1> DEFINE url == WritePageURL(form, trace)
           back == FormFromSearchParams(url)
<1>0. ReadsBack(form, trace, url, back)
  BY ReadBack
<1> HIDE DEF url, back
<1>1. /\ DOMAIN url = KeptFields(form) \cup (IF Trim(trace) = "" THEN {} ELSE {"trace"})
      /\ \A f \in KeptFields(form) : url[f] = TextOf(form, f)
      /\ Trim(trace) # "" => url["trace"] = Trim(trace)
      /\ DOMAIN back = Fields
      /\ \A f \in KeptFields(form) : back[f] = TextOf(form, f)
      /\ \A f \in Filters : form[f] \in Blank => back[f] = ""
  BY Zenon, <1>0 DEF ReadsBack
<1>2. KeptFields(back) = KeptFields(form)
  <2>1. ASSUME NEW f \in Filters PROVE back[f] \in Blank <=> form[f] \in Blank
    <3>1. CASE form[f] \in Blank
      BY Zenon, <1>1, <3>1 DEF Blank
    <3>2. CASE form[f] \notin Blank
      <4>1. back[f] = TextOf(form, f) /\ f # "limit"
        BY Zenon, <1>1, <3>2 DEF KeptFields, Filters
      <4> QED
        BY <3>2, <4>1, TrimText DEF TextOf
    <3> QED
      BY <3>1, <3>2
  <2> QED
    BY <2>1 DEF KeptFields
<1>3. ASSUME NEW f \in KeptFields(form) PROVE TextOf(back, f) = TextOf(form, f)
  <2>1. back[f] = TextOf(form, f)
    BY Zenon, <1>1
  <2>2. "50" \notin Blank /\ Trim("50") = "50"
    BY DEF Blank, Trim
  <2>3. back["limit"] = TextOf(form, "limit")
    BY Zenon, <1>1 DEF KeptFields
  <2>4. CASE f = "limit" /\ form["limit"] \in Blank
    BY <2>1, <2>2, <2>4 DEF TextOf
  <2>5. CASE f = "limit" /\ form["limit"] \notin Blank
    <3>1. back["limit"] = Trim(form["limit"]) /\ back["limit"] \notin Blank
      BY <2>3, <2>5, TrimText DEF TextOf
    <3> QED
      BY <2>1, <2>5, <3>1, TrimText DEF TextOf
  <2>6. CASE f # "limit"
    BY <2>1, <2>6, TrimText DEF TextOf
  <2> QED
    BY <2>4, <2>5, <2>6
<1>4. BuildSearchParams(back) = BuildSearchParams(form)
  <2> DEFINE min == "min_duration"
             Name(f) == IF f = "min" THEN min ELSE f
             p == Params(back, min)
             q == Params(form, min)
             names == {Name(f) : f \in KeptFields(form)}
  <2>1. min \in {"min", "min_duration"}
    OBVIOUS
  <2>2. /\ p = [name \in names |-> p[name]]
        /\ \A f \in KeptFields(form) : p[Name(f)] = TextOf(back, f)
    BY Zenon, <1>2, <2>1, ParamsOfForm
  <2>3. /\ q = [name \in names |-> q[name]]
        /\ \A f \in KeptFields(form) : q[Name(f)] = TextOf(form, f)
    BY Zenon, <2>1, ParamsOfForm
  <2> HIDE DEF p, q
  <2>4. \A name \in names : p[name] = q[name]
    BY <1>3, <2>2, <2>3
  <2>5. p = q
    <3> HIDE DEF names
    <3>1. [name \in names |-> p[name]] = [name \in names |-> q[name]]
      BY <2>4
    <3> QED
      BY <2>2, <2>3, <3>1
  <2> QED
    BY <2>5 DEF BuildSearchParams, p, q
<1>5. PageTraceID(url) = Trim(trace)
  <2>1. "trace" \notin KeptFields(form)
    BY DEF KeptFields, Filters
  <2> QED
    BY Zenon, <1>1, <2>1, TrimText DEF PageTraceID
<1>6. ASSUME NEW f \in {"start", "end"} PROVE FormForService("x", url)[f] = Trim(form[f])
  <2>1. f \in KeptFields(form) /\ f \in Fields
    BY DEF KeptFields, Fields
  <2>2. FormForService("x", url)[f] = back[f]
    BY Zenon, <2>1 DEF FormForService, back
  <2>3. back[f] = Trim(form[f])
    BY Zenon, <1>1, <2>1 DEF TextOf
  <2> QED
    BY <2>2, <2>3
<1> QED
  BY <1>4, <1>5, <1>6 DEF URLKeepsTheSearch, url, back

-----------------------------------------------------------------------------
(* The frame *)

ShellViews ==
  [page : {"shell"}, tab : Shell!Tabs, seen : SUBSET Shell!Tabs, theme : Themes,
   logsTrace : Traces \cup {None}, tracesEpoch : Nat, serviceFocus : Services \cup {None},
   urlTrace : Traces \cup {None}, urlService : Services \cup {None},
   blocked : BOOLEAN, stored : Themes \cup {None}, system : Themes]

ShellInv == view \in ShellViews /\ Shell!ShellKeepsTrack

LEMMA ShellStarts == Shell!Init => ShellInv
<1> SUFFICES ASSUME Shell!Init PROVE ShellInv
  OBVIOUS
<1>1. PICK t \in Traces \cup {None}, s \in Services \cup {None}, blocked \in BOOLEAN, system \in Themes,
           stored \in Themes \cup {None} :
        view = Shell!Loaded([page |-> "shell", tab |-> "overview", seen |-> {}, theme |-> system, logsTrace |-> None,
                      tracesEpoch |-> 0, serviceFocus |-> None, urlTrace |-> t, urlService |-> s,
                      blocked |-> blocked, stored |-> stored, system |-> system])
  BY Zenon DEF Shell!Init, Shell!Themes, Themes
<1> DEFINE v == [page |-> "shell", tab |-> "overview", seen |-> {}, theme |-> system, logsTrace |-> None,
                 tracesEpoch |-> 0, serviceFocus |-> None, urlTrace |-> t, urlService |-> s,
                 blocked |-> blocked, stored |-> stored, system |-> system]
<1>2. v \in ShellViews /\ v.urlTrace = t /\ v.blocked = blocked /\ v.stored = stored /\ v.system = system
  BY DEF ShellViews, Shell!Tabs
<1> HIDE DEF v
<1>3. Shell!ReadTheme(v) \in Themes
  BY <1>2 DEF Shell!ReadTheme, Shell!StoredTheme
<1>4. /\ view \in ShellViews /\ view.theme = Shell!ReadTheme(v) /\ (view.urlTrace # None => view.tab = "traces")
      /\ view.blocked = v.blocked /\ view.stored = v.stored /\ view.system = v.system
  <2>1. view = Shell!Loaded(v)
    BY <1>1 DEF v
  <2> QED
    BY Zenon, <1>2, <1>3, <2>1 DEF Shell!Loaded, ShellViews, Shell!Tabs
<1> QED
  BY <1>4 DEF ShellInv, Shell!ShellKeepsTrack, Shell!ReadTheme, Shell!StoredTheme

ThemeFields == {"theme", "blocked", "stored", "system"}

\* A page change keeps what the invariant says when it leaves the theme alone
\* and the URL names no trace but that of the page shown.
LEMMA ShellMoves ==
  ASSUME ShellInv, NEW w \in ShellViews, NEW tab \in Shell!Tabs,
         \A f \in ThemeFields : w[f] = view[f],
         w.urlTrace # None => tab = "traces" \/ (tab = "logs" /\ w.logsTrace = w.urlTrace),
         view' = Shell!Go(w, tab) \/ (view' = Shell!Jump(w) /\ tab = "traces")
  PROVE  ShellInv'
<1>1. /\ view' \in ShellViews /\ view'.tab = tab
      /\ \A f \in {"urlTrace", "logsTrace"} \cup ThemeFields : view'[f] = w[f]
  <2>1. Shell!Go(w, tab) \in ShellViews
    BY Zenon DEF Shell!Go, ShellViews
  <2>2. /\ Shell!Go(w, tab).tab = tab
        /\ \A f \in {"urlTrace", "logsTrace"} \cup ThemeFields : Shell!Go(w, tab)[f] = w[f]
    BY DEF Shell!Go, ShellViews, ThemeFields
  <2>3. Shell!Jump(w) = [Shell!Go(w, "traces") EXCEPT !.tracesEpoch = @ + 1]
    BY DEF Shell!Jump
  <2> HIDE DEF Shell!Go
  <2> QED
    BY <2>1, <2>2, <2>3 DEF ShellViews, ThemeFields
<1> QED
  BY <1>1 DEF ShellInv, Shell!ShellKeepsTrack, Shell!ReadTheme, Shell!StoredTheme, ThemeFields

LEMMA ShellSteps == ShellInv /\ Shell!Next => ShellInv'
<1> SUFFICES ASSUME ShellInv, Shell!Next PROVE ShellInv'
  OBVIOUS
<1>0. view \in ShellViews
  BY DEF ShellInv
<1>1. ASSUME Shell!OpenLogs PROVE ShellInv'
  <2> DEFINE w == [view EXCEPT !.logsTrace = view.urlTrace]
  <2>1. w \in ShellViews /\ w.logsTrace = w.urlTrace /\ \A f \in ThemeFields : w[f] = view[f]
    BY <1>0 DEF ShellViews, ThemeFields
  <2>2. view' = Shell!Go(w, "logs") /\ "logs" \in Shell!Tabs
    BY <1>1 DEF Shell!OpenLogs, Shell!Stay, Shell!Tabs
  <2>3. w.urlTrace # None => "logs" = "traces" \/ ("logs" = "logs" /\ w.logsTrace = w.urlTrace)
    BY <2>1
  <2> HIDE DEF w
  <2> QED
    BY <2>1, <2>2, <2>3, ShellMoves, Zenon
<1>2. ASSUME Shell!Reload PROVE ShellInv'
  <2>1. view' = Shell!Loaded(view)
    BY <1>2 DEF Shell!Reload, Shell!Stay
  <2>2. Shell!ReadTheme(view) \in Themes
    BY <1>0 DEF Shell!ReadTheme, Shell!StoredTheme, ShellViews
  <2>3. /\ view' \in ShellViews /\ view'.theme = Shell!ReadTheme(view)
        /\ \A f \in {"urlTrace", "blocked", "stored", "system"} : view'[f] = view[f]
        /\ view.urlTrace # None => view'.tab = "traces"
    BY Zenon, <1>0, <2>1, <2>2 DEF Shell!Loaded, ShellViews, Shell!Tabs
  <2> QED
    BY <2>3 DEF ShellInv, Shell!ShellKeepsTrack, Shell!ReadTheme, Shell!StoredTheme
<1>3. ASSUME NEW tab \in Shell!Tabs, Shell!OnView(tab) PROVE ShellInv'
  <2> DEFINE v == [view EXCEPT !.logsTrace = IF tab = "logs" THEN None ELSE @]
             w == IF tab = "traces" THEN v ELSE [v EXCEPT !.urlTrace = None]
  <2>1. v \in ShellViews /\ w \in ShellViews
    <3>1. v \in ShellViews
      BY <1>0 DEF ShellViews
    <3> HIDE DEF v
    <3> QED
      BY <3>1 DEF ShellViews
  <2>2. w.urlTrace # None => tab = "traces"
    BY <2>1 DEF ShellViews
  <2>3. \A f \in ThemeFields : w[f] = view[f]
    BY Zenon, <1>0 DEF ShellViews, ThemeFields
  <2>4. view' = Shell!Go(w, tab)
    BY <1>3 DEF Shell!OnView, Shell!ClearTraceURL, Shell!Stay
  <2> HIDE DEF w
  <2> QED
    BY <2>1, <2>2, <2>3, <2>4, ShellMoves, Zenon
<1>4. ASSUME NEW s \in Services, Shell!OpenService(s) PROVE ShellInv'
  <2> DEFINE w == [Shell!ClearTraceURL(view) EXCEPT !.urlService = s, !.serviceFocus = s]
  <2>1. w \in ShellViews /\ w.urlTrace = None /\ \A f \in ThemeFields : w[f] = view[f]
    BY Zenon, <1>0 DEF ShellViews, ThemeFields, Shell!ClearTraceURL
  <2>2. view' = Shell!Go(w, "services") /\ "services" \in Shell!Tabs
    BY <1>4 DEF Shell!OpenService, Shell!Stay, Shell!Tabs
  <2> HIDE DEF w
  <2> QED
    BY <2>1, <2>2, ShellMoves, Zenon
<1>5. ASSUME NEW s \in Services \cup {None}, Shell!OpenTracesForService(s) \/ Shell!OpenTracesForm(s) PROVE ShellInv'
  <2> DEFINE w == [Shell!ClearTraceURL(view) EXCEPT !.urlService = s]
  <2>1. w \in ShellViews /\ w.urlTrace = None /\ \A f \in ThemeFields : w[f] = view[f]
    BY Zenon, <1>0 DEF ShellViews, ThemeFields, Shell!ClearTraceURL
  <2>2. view' = Shell!Jump(w)
    BY <1>5 DEF Shell!OpenTracesForService, Shell!OpenTracesForm, Shell!Stay
  <2> HIDE DEF w
  <2> QED
    BY <2>1, <2>2, ShellMoves DEF Shell!Tabs
<1>6. ASSUME NEW t \in Traces, Shell!OpenTrace(t) PROVE ShellInv'
  <2> DEFINE w == [view EXCEPT !.urlTrace = t, !.urlService = None]
  <2>1. w \in ShellViews /\ \A f \in ThemeFields : w[f] = view[f]
    BY Zenon, <1>0 DEF ShellViews, ThemeFields
  <2>2. view' = Shell!Jump(w)
    BY <1>6 DEF Shell!OpenTrace, Shell!Stay
  <2> HIDE DEF w
  <2> QED
    BY <2>1, <2>2, ShellMoves DEF Shell!Tabs
<1>7. ASSUME NEW t \in Traces \cup {None}, Shell!TracesPage(t) PROVE ShellInv'
  <2>1. view' = [view EXCEPT !.urlTrace = t] /\ view.tab = "traces"
    BY <1>7 DEF Shell!TracesPage, Shell!Stay
  <2>2. view' \in ShellViews /\ view'.tab = "traces" /\ \A f \in ThemeFields : view'[f] = view[f]
    BY <1>0, <2>1 DEF ShellViews, ThemeFields
  <2> QED
    BY <2>2 DEF ShellInv, Shell!ShellKeepsTrack, Shell!ReadTheme, Shell!StoredTheme, ThemeFields
<1>8. ASSUME NEW t \in Themes, Shell!OnTheme(t) PROVE ShellInv'
  <2>1. view' = [view EXCEPT !.theme = t, !.stored = IF view.blocked THEN @ ELSE t]
    BY <1>8 DEF Shell!OnTheme, Shell!Stay
  <2>2. /\ view' \in ShellViews /\ view'.theme = t /\ (~view.blocked => view'.stored = t)
        /\ \A f \in {"tab", "urlTrace", "logsTrace", "blocked"} : view'[f] = view[f]
    BY Zenon, <1>0, <2>1 DEF ShellViews
  <2>3. t # None
    BY WebAssumption
  <2> QED
    BY <2>2, <2>3 DEF ShellInv, Shell!ShellKeepsTrack, Shell!ReadTheme, Shell!StoredTheme
<1>9. ASSUME NEW t \in Themes, Shell!WatchSystemTheme(t) PROVE ShellInv'
  <2>1. view' = [view EXCEPT !.system = t, !.theme = IF Shell!StoredTheme(view) = None THEN t ELSE @]
    BY <1>9 DEF Shell!WatchSystemTheme, Shell!Stay
  <2>2. /\ view' \in ShellViews /\ view'.system = t
        /\ view'.theme = (IF Shell!StoredTheme(view) = None THEN t ELSE view.theme)
        /\ \A f \in {"tab", "urlTrace", "logsTrace", "blocked", "stored"} : view'[f] = view[f]
    BY Zenon, <1>0, <2>1 DEF ShellViews
  <2> QED
    BY <2>2 DEF ShellInv, Shell!ShellKeepsTrack, Shell!ReadTheme, Shell!StoredTheme
<1> QED
  BY <1>1, <1>2, <1>3, <1>4, <1>5, <1>6, <1>7, <1>8, <1>9 DEF Shell!Next, Shell!Themes, Themes

-----------------------------------------------------------------------------
(* The dock *)

Drags == [on : BOOLEAN, from : Int, h : Int, moved : BOOLEAN, raw : Int]
DockViews ==
  [page : {"dock"}, pane : Int, fit : Int, open : BOOLEAN, h : Int, lastH : Int, drag : Drags,
   didDrag : BOOLEAN, gestures : Nat, kept : Int, cap : Int]

\* Where the height the dock was left with is found: in h while it is open and
\* not dragged, in lastH while it is closed, and in one of lastH and the drag
\* while it is dragged.
HeightIsKept ==
  /\ view.kept > Dock!DOCK_SNAP
  /\ view.drag.on => view.drag.h = view.kept \/ (view.drag.h = Dock!HEAD /\ view.lastH = view.kept)
  /\ view.drag.on /\ view.drag.moved => view.open
  /\ ~view.drag.on \/ ~view.drag.moved =>
       IF view.open THEN view.h = view.kept /\ view.h <= view.cap ELSE view.lastH = view.kept

DockInv == view \in DockViews /\ HeightIsKept

LEMMA DockHeights ==
  ASSUME NEW v \in DockViews
  PROVE  /\ Dock!MaxH(v) \in Int /\ Dock!MaxH(v) >= 216
         /\ \A px \in Int : /\ Dock!ClampOpen(v, px) \in Int
                            /\ Dock!ClampOpen(v, px) <= Dock!MaxH(v)
                            /\ px > 108 => Dock!ClampOpen(v, px) > 108
<1>1. v.pane \in Int /\ v.fit \in Int
  BY DEF DockViews
<1>2. Dock!MaxH(v) \in Int /\ Dock!MaxH(v) >= 216
  BY <1>1 DEF Dock!MaxH, Dock!PaneCap, Dock!AtMost, Dock!AtLeast, Dock!STD, Dock!DOCK_WORK
<1> QED
  BY <1>2 DEF Dock!ClampOpen, Dock!AtMost, Dock!AtLeast, Dock!DOCK_MIN

\* What rendering makes of a new state w.
LEMMA DockRenders ==
  ASSUME view \in DockViews, NEW w \in DockViews, Dock!Render(w)
  PROVE  /\ view' \in DockViews
         /\ \A f \in {"open", "lastH", "drag"} : view'[f] = w[f]
         /\ view'.h = (IF w.open /\ ~view.open THEN Dock!AtMost(w.h, Dock!MaxH(w)) ELSE w.h)
         /\ view'.kept = (IF w.open /\ ~w.drag.on THEN view'.h ELSE w.kept)
         /\ view'.cap = Dock!AtLeast(IF view.open THEN w.cap ELSE 0, Dock!MaxH(w))
<1> DEFINE fits == IF w.open /\ ~view.open THEN [w EXCEPT !.h = Dock!AtMost(@, Dock!MaxH(w))] ELSE w
           cap == Dock!AtLeast(IF view.open THEN w.cap ELSE 0, Dock!MaxH(w))
           seen == [fits EXCEPT !.cap = cap]
<1>1. Dock!MaxH(w) \in Int
  BY DockHeights
<1>2. Dock!AtMost(w.h, Dock!MaxH(w)) \in Int /\ cap \in Int
  BY <1>1 DEF Dock!AtMost, Dock!AtLeast, DockViews
<1>3. /\ fits \in DockViews /\ \A f \in {"open", "lastH", "drag", "kept", "cap"} : fits[f] = w[f]
      /\ fits.h = (IF w.open /\ ~view.open THEN Dock!AtMost(w.h, Dock!MaxH(w)) ELSE w.h)
  BY <1>2 DEF DockViews
<1>4. Dock!MaxH(fits) = Dock!MaxH(w)
  BY DEF Dock!MaxH, Dock!PaneCap, DockViews
<1>5. view' = IF seen.open /\ ~seen.drag.on THEN [seen EXCEPT !.kept = seen.h] ELSE seen
  BY <1>3, <1>4 DEF Dock!Render
<1> HIDE DEF fits, cap
<1>6. /\ seen \in DockViews /\ \A f \in {"open", "lastH", "drag", "kept", "h"} : seen[f] = fits[f]
      /\ seen.cap = cap
  BY <1>2, <1>3 DEF DockViews
<1> HIDE DEF seen
<1>7. view' \in DockViews /\ view'.kept = (IF seen.open /\ ~seen.drag.on THEN seen.h ELSE seen.kept)
      /\ \A f \in {"open", "lastH", "drag", "h", "cap"} : view'[f] = seen[f]
  BY <1>5, <1>6 DEF DockViews
<1> QED
  BY <1>3, <1>6, <1>7 DEF cap

Sized(v, h, cap) == [v EXCEPT !.h = h, !.cap = cap]

LEMMA DockIsSized ==
  ASSUME NEW v \in DockViews, NEW h \in Int, NEW cap \in Int
  PROVE  /\ Sized(v, h, cap) \in DockViews /\ Sized(v, h, cap).h = h /\ Sized(v, h, cap).cap = cap
         /\ \A f \in {"kept", "lastH", "open", "drag"} : Sized(v, h, cap)[f] = v[f]
BY Zenon DEF DockViews, Sized

LEMMA DockStarts == Dock!Init => DockInv
<1> SUFFICES ASSUME Dock!Init PROVE DockInv
  OBVIOUS
<1>1. PICK pane \in Panes, fit \in Fits :
        LET v == [page |-> "dock", pane |-> pane, fit |-> fit, open |-> TRUE, h |-> Dock!STD, lastH |-> Dock!STD,
                  drag |-> Dock!Idle, didDrag |-> FALSE, gestures |-> 0, kept |-> Dock!STD, cap |-> 0]
        IN  view = [v EXCEPT !.h = Dock!AtMost(Dock!STD, Dock!MaxH(v)), !.cap = Dock!MaxH(v)]
  BY Zenon DEF Dock!Init
<1> DEFINE v == [page |-> "dock", pane |-> pane, fit |-> fit, open |-> TRUE, h |-> Dock!STD, lastH |-> Dock!STD,
                 drag |-> Dock!Idle, didDrag |-> FALSE, gestures |-> 0, kept |-> Dock!STD, cap |-> 0]
<1>2. v \in DockViews /\ v.h = 216 /\ v.kept = 216 /\ v.lastH = 216 /\ v.open /\ ~v.drag.on
  BY WebAssumption DEF DockViews, Drags, Dock!Idle, Dock!STD
<1>3. Dock!MaxH(v) \in Int /\ Dock!MaxH(v) >= 216
  BY <1>2, DockHeights
<1>4. Dock!AtMost(Dock!STD, Dock!MaxH(v)) = 216
  BY <1>3 DEF Dock!AtMost, Dock!STD
<1>5. view = [v EXCEPT !.h = 216, !.cap = Dock!MaxH(v)]
  BY Zenon, <1>1, <1>4
<1> HIDE DEF v
<1>6. /\ view \in DockViews /\ view.kept = v.kept /\ view.lastH = v.lastH /\ view.open = v.open /\ view.drag = v.drag
      /\ view.h = 216 /\ view.cap = Dock!MaxH(v)
  <2> DEFINE cap == Dock!MaxH(v)
  <2>1. v \in DockViews /\ 216 \in Int /\ cap \in Int /\ view = Sized(v, 216, cap)
    BY <1>2, <1>3, <1>5 DEF Sized
  <2>2. cap = Dock!MaxH(v)
    OBVIOUS
  <2> HIDE DEF cap
  <2>3. view \in DockViews /\ view.h = 216 /\ view.cap = cap
    BY <2>1, DockIsSized
  <2>4. view.kept = v.kept /\ view.lastH = v.lastH /\ view.open = v.open /\ view.drag = v.drag
    BY <2>1, DockIsSized
  <2> QED
    BY <2>2, <2>3, <2>4
<1>7. view.kept = 216 /\ view.lastH = 216 /\ view.open /\ ~view.drag.on /\ view.h <= view.cap
  BY <1>2, <1>3, <1>6
<1> QED
  <2>1. view.kept > Dock!DOCK_SNAP
    BY <1>7 DEF Dock!DOCK_SNAP
  <2>2. view.h = view.kept
    BY <1>6, <1>7
  <2>3. HeightIsKept
    BY <1>7, <2>1, <2>2, Zenon DEF HeightIsKept
  <2> QED
    BY <1>6, <2>3 DEF DockInv

\* A state that is at rest and open, at rest and closed, or in a drag.
OpenAtRest(w) == ~w.drag.on /\ w.open /\ w.h > 108 /\ (view.open => w.h <= w.cap \/ w.h <= Dock!MaxH(w))
ClosedAtRest(w) == ~w.drag.on /\ ~w.open /\ w.lastH = w.kept
Dragged(w) ==
  /\ w.drag.on /\ (w.drag.h = w.kept \/ (w.drag.h = 32 /\ w.lastH = w.kept))
  /\ w.drag.moved => w.open
  /\ ~w.drag.moved => /\ w.open = view.open
                      /\ IF w.open THEN w.h = w.kept /\ w.h <= w.cap ELSE w.lastH = w.kept

LEMMA DockKeeps ==
  ASSUME DockInv, NEW w \in DockViews, Dock!Render(w), w.kept = view.kept, w.cap = view.cap,
         OpenAtRest(w) \/ ClosedAtRest(w) \/ Dragged(w)
  PROVE  DockInv'
<1>0. view \in DockViews
  BY DEF DockInv
<1>1. Dock!MaxH(w) \in Int /\ Dock!MaxH(w) >= 216 /\ w.h \in Int /\ w.cap \in Int /\ view.kept > 108
  BY DockHeights DEF DockViews, DockInv, HeightIsKept, Dock!DOCK_SNAP
<1>2. /\ view' \in DockViews
      /\ view'.open = w.open /\ view'.lastH = w.lastH /\ view'.drag = w.drag
      /\ view'.h = (IF w.open /\ ~view.open THEN Dock!AtMost(w.h, Dock!MaxH(w)) ELSE w.h)
      /\ view'.kept = (IF w.open /\ ~w.drag.on THEN view'.h ELSE w.kept)
      /\ view'.cap = Dock!AtLeast(IF view.open THEN w.cap ELSE 0, Dock!MaxH(w))
  BY <1>0, DockRenders
<1>3. CASE OpenAtRest(w)
  <2>1. view'.h > 108 /\ view'.h <= view'.cap
    BY <1>1, <1>2, <1>3 DEF OpenAtRest, Dock!AtMost, Dock!AtLeast
  <2> QED
    BY <1>2, <1>3, <2>1 DEF OpenAtRest, DockInv, HeightIsKept, Dock!DOCK_SNAP
<1>4. CASE ClosedAtRest(w)
  BY <1>1, <1>2, <1>4 DEF ClosedAtRest, DockInv, HeightIsKept, Dock!DOCK_SNAP
<1>5. CASE Dragged(w)
  <2>1. ASSUME ~w.drag.moved, w.open PROVE view'.h = view'.kept /\ view'.h <= view'.cap
    <3>1. w.drag.on /\ view.open /\ w.h = w.kept /\ w.h <= w.cap
      BY Zenon, <1>5, <2>1 DEF Dragged
    <3>2. view'.h = w.h /\ view'.kept = w.kept /\ view'.cap = Dock!AtLeast(w.cap, Dock!MaxH(w))
      BY <1>2, <3>1
    <3> QED
      BY <1>1, <3>1, <3>2 DEF Dock!AtLeast
  <2> QED
    BY <1>1, <1>2, <1>5, <2>1 DEF Dragged, DockInv, HeightIsKept, Dock!DOCK_SNAP, Dock!HEAD
<1> QED
  BY <1>3, <1>4, <1>5

LEMMA DockSteps == DockInv /\ Dock!Next => DockInv'
<1> SUFFICES ASSUME DockInv, Dock!Next PROVE DockInv'
  OBVIOUS
<1>0. /\ view \in DockViews /\ view.drag \in Drags /\ Dock!MaxH(view) \in Int /\ Dock!MaxH(view) >= 216
      /\ view.h \in Int /\ view.lastH \in Int /\ view.kept \in Int /\ view.kept > 108
      /\ \A px \in Int : /\ Dock!ClampOpen(view, px) \in Int /\ Dock!ClampOpen(view, px) <= Dock!MaxH(view)
                         /\ px > 108 => Dock!ClampOpen(view, px) > 108
  BY DockHeights DEF DockInv, DockViews, HeightIsKept, Dock!DOCK_SNAP
<1>1. CASE Dock!Toggle
  <2>1. CASE view.open
    <3> DEFINE w == [view EXCEPT !.lastH = view.h, !.open = FALSE]
    <3>1. Dock!Render(w) /\ ~view.drag.on
      BY <1>1, <2>1 DEF Dock!Toggle
    <3>2. /\ w \in DockViews /\ w.lastH = view.h /\ ~w.open
          /\ w.drag = view.drag /\ w.kept = view.kept /\ w.cap = view.cap
      BY Zenon, <1>0 DEF DockViews
    <3> HIDE DEF w
    <3>3. ClosedAtRest(w)
      BY <2>1, <3>1, <3>2 DEF ClosedAtRest, DockInv, HeightIsKept
    <3> QED
      BY <3>1, <3>2, <3>3, DockKeeps
  <2>2. CASE ~view.open
    <3> DEFINE w == [view EXCEPT !.h = Dock!ClampOpen(view, view.lastH), !.open = TRUE]
    <3>1. Dock!Render(w) /\ ~view.drag.on
      BY <1>1, <2>2 DEF Dock!Toggle
    <3>2. /\ w \in DockViews /\ w.h = Dock!ClampOpen(view, view.lastH) /\ w.open
          /\ w.drag = view.drag /\ w.kept = view.kept /\ w.cap = view.cap
      BY Zenon, <1>0 DEF DockViews
    <3> HIDE DEF w
    <3>3. view.lastH > 108
      BY <1>0, <2>2, <3>1 DEF DockInv, HeightIsKept
    <3>4. OpenAtRest(w)
      BY <1>0, <2>2, <3>1, <3>2, <3>3 DEF OpenAtRest
    <3> QED
      BY <3>1, <3>2, <3>4, DockKeeps
  <2> QED
    BY <2>1, <2>2
<1>2. ASSUME NEW y \in Ys, Dock!HeadDown(y) PROVE DockInv'
  <2> DEFINE vis == IF view.open THEN view.h ELSE Dock!HEAD
             drag == [on |-> TRUE, from |-> y, h |-> vis, moved |-> FALSE, raw |-> vis]
             n == view.gestures + 1
             w == [view EXCEPT !.gestures = n, !.didDrag = FALSE, !.drag = drag]
  <2>1. Dock!Render(w) /\ ~view.drag.on
    BY <1>2 DEF Dock!HeadDown
  <2> n \in Nat
    BY <1>0 DEF DockViews
  <2> HIDE DEF n
  <2>2. drag \in Drags
    BY <1>0, WebAssumption DEF Drags, Dock!HEAD
  <2>3. drag.on /\ ~drag.moved /\ drag.h = vis
    OBVIOUS
  <2> HIDE DEF drag
  <2>4. /\ w \in DockViews /\ w.drag = drag
        /\ w.open = view.open /\ w.h = view.h /\ w.lastH = view.lastH /\ w.kept = view.kept /\ w.cap = view.cap
    BY Zenon, <1>0, <2>2 DEF DockViews
  <2> HIDE DEF w
  <2>5. Dragged(w)
    BY <2>1, <2>3, <2>4 DEF Dragged, DockInv, HeightIsKept, Dock!HEAD
  <2> QED
    BY <2>1, <2>4, <2>5, DockKeeps
<1>3. ASSUME NEW y \in Ys, Dock!HeadMove(y) PROVE DockInv'
  <2> DEFINE raw == view.drag.h + (view.drag.from - y)
             v == [view EXCEPT !.drag.raw = raw]
             w == [v EXCEPT !.drag.moved = TRUE, !.didDrag = TRUE, !.open = TRUE,
                            !.h = Dock!AtMost(Dock!MaxH(v), Dock!AtLeast(Dock!HEAD, raw))]
  <2>1. view.drag.on /\ raw \in Int /\ y \in Int
    BY <1>0, <1>3, WebAssumption DEF Dock!HeadMove, Drags
  <2>2. /\ v \in DockViews /\ v.drag \in Drags /\ v.drag.on /\ v.drag.h = view.drag.h /\ v.drag.moved = view.drag.moved
        /\ \A f \in {"open", "h", "lastH", "kept", "cap"} : v[f] = view[f]
    BY <1>0, <2>1 DEF DockViews, Drags
  <2>3. Dock!Render(v) \/ Dock!Render(w)
    BY <1>3 DEF Dock!HeadMove
  <2> HIDE DEF v
  <2>4. Dock!AtMost(Dock!MaxH(v), Dock!AtLeast(Dock!HEAD, raw)) \in Int
    BY <2>1, <2>2, DockHeights DEF Dock!AtMost, Dock!AtLeast, Dock!HEAD
  <2>5. /\ w \in DockViews /\ w.drag.on /\ w.drag.h = v.drag.h /\ w.drag.moved /\ w.open
        /\ \A f \in {"lastH", "kept", "cap"} : w[f] = v[f]
    BY Zenon, <2>2, <2>4 DEF DockViews, Drags
  <2> HIDE DEF w
  <2>6. ~v.drag.moved \/ v.drag.moved => Dragged(v)
    BY <2>1, <2>2 DEF Dragged, DockInv, HeightIsKept, Dock!HEAD
  <2>7. Dragged(w)
    BY <2>1, <2>2, <2>5 DEF Dragged, DockInv, HeightIsKept, Dock!HEAD
  <2> QED
    BY <2>2, <2>3, <2>5, <2>6, <2>7, DockKeeps
<1>4. CASE Dock!HeadUp
  <2> DEFINE d == view.drag
             v == [view EXCEPT !.drag = Dock!Idle]
             w == IF d.h > Dock!DOCK_SNAP THEN [v EXCEPT !.lastH = d.h, !.h = d.h] ELSE v
             next == Dock!ClampOpen(v, d.raw)
             closed == [w EXCEPT !.open = FALSE]
             opened == [v EXCEPT !.lastH = next, !.h = next, !.open = TRUE]
  <2>1. view.drag.on /\ d.h \in Int /\ d.raw \in Int
    BY <1>0, <1>4 DEF Dock!HeadUp, Drags
  <2> Dock!Idle \in Drags /\ ~Dock!Idle.on
    BY DEF Drags, Dock!Idle
  <2>2. /\ v \in DockViews /\ ~v.drag.on
        /\ v.open = view.open /\ v.h = view.h /\ v.lastH = view.lastH /\ v.kept = view.kept /\ v.cap = view.cap
    BY <1>0 DEF DockViews
  <2>3. CASE ~d.moved
    <3>1. Dock!Render(v)
      BY <1>4, <2>3 DEF Dock!HeadUp
    <3> HIDE DEF v
    <3>2. OpenAtRest(v) \/ ClosedAtRest(v)
      BY <1>0, <2>1, <2>2, <2>3 DEF OpenAtRest, ClosedAtRest, DockInv, HeightIsKept
    <3> QED
      BY <2>2, <3>1, <3>2, DockKeeps
  <2>4. CASE d.moved /\ d.raw <= Dock!DOCK_SNAP
    <3>1. Dock!Render(closed)
      BY <1>4, <2>4 DEF Dock!HeadUp
    <3> HIDE DEF v
    <3>2. /\ w \in DockViews /\ ~w.drag.on /\ w.kept = view.kept /\ w.cap = view.cap
          /\ w.lastH = IF d.h > Dock!DOCK_SNAP THEN d.h ELSE view.lastH
      BY Zenon, <2>1, <2>2 DEF DockViews
    <3>3. w.lastH = w.kept
      BY <1>0, <2>1, <3>2 DEF DockInv, HeightIsKept, Dock!DOCK_SNAP, Dock!HEAD
    <3> HIDE DEF w
    <3>4. /\ closed \in DockViews /\ ~closed.open
          /\ \A f \in {"drag", "lastH", "kept", "cap"} : closed[f] = w[f]
      BY Zenon, <3>2 DEF DockViews
    <3> HIDE DEF closed
    <3>5. ClosedAtRest(closed)
      BY <3>2, <3>3, <3>4 DEF ClosedAtRest
    <3> QED
      BY <3>1, <3>2, <3>4, <3>5, DockKeeps
  <2>5. CASE d.moved /\ ~(d.raw <= Dock!DOCK_SNAP)
    <3>1. Dock!Render(opened)
      BY <1>4, <2>5 DEF Dock!HeadUp
    <3> HIDE DEF v
    <3>2. next \in Int /\ next > 108
      BY <2>1, <2>2, <2>5, DockHeights DEF Dock!DOCK_SNAP
    <3>3. next <= Dock!MaxH(opened)
      <4>1. Dock!MaxH(opened) = Dock!MaxH(v)
        BY <2>2 DEF DockViews, Dock!MaxH, Dock!PaneCap
      <4> QED
        BY <2>1, <2>2, <4>1, DockHeights
    <3> HIDE DEF next
    <3>4. /\ opened \in DockViews /\ opened.open /\ opened.h = next
          /\ \A f \in {"drag", "kept", "cap"} : opened[f] = v[f]
      BY Zenon, <2>2, <3>2 DEF DockViews
    <3> HIDE DEF opened
    <3>5. OpenAtRest(opened)
      BY <2>2, <3>2, <3>3, <3>4 DEF OpenAtRest
    <3> QED
      BY <2>2, <3>1, <3>4, <3>5, DockKeeps
  <2> QED
    BY <2>3, <2>4, <2>5
<1>5. CASE Dock!DblClick
  <2> DEFINE closed == [view EXCEPT !.lastH = view.h, !.open = FALSE]
             opened == [view EXCEPT !.lastH = IF view.open THEN view.h ELSE @, !.h = Dock!MaxH(view), !.open = TRUE]
  <2>1. ~view.drag.on /\ ((Dock!Render(closed) /\ view.open) \/ Dock!Render(opened))
    BY <1>5 DEF Dock!DblClick, Dock!IsMax
  <2>2. /\ closed \in DockViews /\ closed.lastH = view.h /\ ~closed.open
        /\ closed.drag = view.drag /\ closed.kept = view.kept /\ closed.cap = view.cap
    BY Zenon, <1>0 DEF DockViews
  <2>3. /\ opened \in DockViews /\ opened.h = Dock!MaxH(view) /\ opened.open
        /\ opened.drag = view.drag /\ opened.kept = view.kept /\ opened.cap = view.cap
    BY Zenon, <1>0 DEF DockViews
  <2>4. Dock!MaxH(opened) = Dock!MaxH(view)
    BY <1>0 DEF DockViews, Dock!MaxH, Dock!PaneCap
  <2> HIDE DEF closed, opened
  <2>5. view.open => ClosedAtRest(closed)
    BY <2>1, <2>2 DEF ClosedAtRest, DockInv, HeightIsKept
  <2>6. OpenAtRest(opened)
    BY <1>0, <2>1, <2>3, <2>4 DEF OpenAtRest
  <2> QED
    BY <2>1, <2>2, <2>3, <2>5, <2>6, DockKeeps
<1>6. ASSUME NEW pane \in Panes, Dock!ResizePane(pane) PROVE DockInv'
  <2> DEFINE n == view.gestures + 1
             w == [view EXCEPT !.pane = pane, !.gestures = n]
  <2>1. Dock!Render(w) /\ pane \in Int
    BY <1>6, WebAssumption DEF Dock!ResizePane
  <2> n \in Nat
    BY <1>0 DEF DockViews
  <2> HIDE DEF n
  <2>2. /\ w \in DockViews /\ w.open = view.open /\ w.h = view.h /\ w.lastH = view.lastH
        /\ w.drag = view.drag /\ w.kept = view.kept /\ w.cap = view.cap
    BY Zenon, <1>0, <2>1 DEF DockViews
  <2> HIDE DEF w
  <2>3. OpenAtRest(w) \/ ClosedAtRest(w) \/ Dragged(w)
    BY <1>0, <2>2 DEF OpenAtRest, ClosedAtRest, Dragged, DockInv, HeightIsKept, Dock!HEAD
  <2> QED
    BY <2>1, <2>2, <2>3, DockKeeps
<1> QED
  BY <1>1, <1>2, <1>3, <1>4, <1>5, <1>6 DEF Dock!Next

LEMMA DockSafe == DockInv => Dock!OpensAsLeft
<1> SUFFICES ASSUME DockInv, ~view.drag.on, ~view.open
             PROVE  Dock!ClampOpen(view, view.lastH) = Dock!AtMost(Dock!MaxH(view), view.kept)
  BY DEF DockInv, HeightIsKept, Dock!OpensAsLeft
<1>1. view.lastH = view.kept /\ view.kept > 108 /\ view.kept \in Int
  BY DEF DockInv, HeightIsKept, DockViews, Dock!DOCK_SNAP
<1> QED
  BY <1>1 DEF Dock!ClampOpen, Dock!AtMost, Dock!AtLeast, Dock!DOCK_MIN

-----------------------------------------------------------------------------
(* The overview *)

OverviewWindows == [range : Ranges, win : Nat]
OverviewViews ==
  [page : {"overview"}, active : BOOLEAN, range : Ranges, win : Nat, data : OverviewWindows \cup {None},
   status : {"loading", "ok", "error"}, seq : Nat, fetching : BOOLEAN]
OverviewCalls == [n : Nat, of : OverviewWindows, silent : BOOLEAN]

\* The calls of the latest load are for the range and the window on screen, and
\* silent only over numbers that are there.
LatestLoad ==
  \A c \in calls : /\ c.n <= view.seq
                   /\ c.n = view.seq => /\ c.of = Ovw!Window(view)
                                        /\ c.silent => view.status # "loading"

\* Once the status is "ok" the numbers are those of the range on screen: others
\* are on screen under "loading" only.
NumbersOfRange == view.status = "ok" => view.data # None /\ view.data.range = view.range

OverviewInv ==
  /\ view \in OverviewViews /\ calls \subseteq OverviewCalls
  /\ LatestLoad /\ NumbersOfRange /\ Ovw!NeverStuck

\* Numbers of another range are on screen under "loading", and the call under
\* way then is of the latest load and not silent.
LEMMA OverviewShows == OverviewInv => Ovw!ShowsTheSelection
<1> SUFFICES ASSUME OverviewInv PROVE Ovw!ShowsTheSelection
  OBVIOUS
<1>1. view.status \in {"loading", "ok", "error"}
  BY DEF OverviewInv, OverviewViews
<1>2. Ovw!Shown(view).says # "ok"
  BY <1>1 DEF OverviewInv, NumbersOfRange, Ovw!Shown
<1>3. ASSUME Ovw!Shown(view).says = "numbers", Ovw!Shown(view).data.range # Ovw!Shown(view).range
      PROVE  \E c \in calls : c.n = view.seq /\ c.of = Ovw!Window(view) /\ ~c.silent
  <2>1. view.status = "loading"
    BY <1>1, <1>3 DEF OverviewInv, NumbersOfRange, Ovw!Shown
  <2>2. PICK c \in calls : c.n = view.seq
    BY <2>1 DEF OverviewInv, Ovw!NeverStuck
  <2> QED
    BY <2>1, <2>2 DEF OverviewInv, LatestLoad
<1> QED
  BY <1>2, <1>3 DEF Ovw!ShowsTheSelection

LEMMA OverviewStarts == Ovw!Init => OverviewInv
<1> SUFFICES ASSUME Ovw!Init PROVE OverviewInv
  OBVIOUS
<1>1. PICK r \in Ranges : view = [page |-> "overview", active |-> TRUE, range |-> r, win |-> 1,
       data |-> None, status |-> "loading", seq |-> 1, fetching |-> TRUE]
  BY Zenon DEF Ovw!Init
<1>2. calls = {[n |-> 1, of |-> [range |-> r, win |-> 1], silent |-> FALSE]}
  BY <1>1 DEF Ovw!Init, Ovw!Window
<1>3. view \in OverviewViews /\ calls \subseteq OverviewCalls
  BY <1>1, <1>2 DEF OverviewViews, OverviewCalls, OverviewWindows
<1>4. LatestLoad /\ Ovw!NeverStuck
  BY <1>1, <1>2 DEF LatestLoad, Ovw!NeverStuck, Ovw!Window
<1>5. NumbersOfRange
  BY <1>1 DEF NumbersOfRange
<1> QED
  BY <1>3, <1>4, <1>5 DEF OverviewInv

LEMMA OverviewLoads ==
  ASSUME OverviewInv, NEW w \in OverviewViews, Ovw!Load(view, w), w.seq = view.seq, w.status = view.status,
         w.data = view.data
  PROVE  OverviewInv'
<1> DEFINE silent == Ovw!Silent(view, w)
           status == IF silent THEN w.status ELSE "loading"
           seq == w.seq + 1
           call == [n |-> seq, of |-> [range |-> w.range, win |-> w.win], silent |-> silent]
<1>0. /\ view \in OverviewViews /\ calls \subseteq OverviewCalls
      /\ w.range \in Ranges /\ w.win \in Nat /\ w.seq \in Nat /\ seq \in Nat
      /\ silent \in BOOLEAN /\ silent = (view.status = "ok" /\ w.range = view.range)
      /\ status \in {"loading", "ok", "error"}
  BY DEF OverviewInv, OverviewViews, Ovw!Silent
<1>1. /\ view' = [w EXCEPT !.seq = seq, !.fetching = TRUE, !.status = status]
      /\ calls' = calls \cup {call}
  BY DEF Ovw!Load, Ovw!Window
<1>2. call \in OverviewCalls /\ call.n = seq /\ call.of = [range |-> w.range, win |-> w.win]
      /\ call.silent = silent
  BY <1>0 DEF OverviewCalls, OverviewWindows
<1> HIDE DEF status, seq, call, silent
<1>3. /\ view' \in OverviewViews
      /\ view'.seq = seq /\ view'.fetching /\ view'.status = status
      /\ view'.range = w.range /\ view'.win = w.win /\ view'.data = w.data
  BY Zenon, <1>0, <1>1 DEF OverviewViews
<1>4. calls' \subseteq OverviewCalls
  BY <1>0, <1>1, <1>2
<1>5. \A c \in calls : c.n \in Nat /\ c.n < seq
  BY <1>0 DEF OverviewInv, LatestLoad, OverviewCalls, seq
<1>6. silent => status = "ok"
  BY Zenon, <1>0 DEF status
<1>7. LatestLoad'
  <2>1. \A c \in calls' : c \in calls \/ c = call
    BY <1>1
  <2>2. Ovw!Window(view)' = call.of
    BY <1>2, <1>3 DEF Ovw!Window
  <2> QED
    BY <1>0, <1>2, <1>3, <1>5, <1>6, <2>1, <2>2 DEF LatestLoad
<1>8. Ovw!NeverStuck'
  BY <1>1, <1>2, <1>3 DEF Ovw!NeverStuck
<1>9. NumbersOfRange'
  BY <1>0, <1>3 DEF status, OverviewInv, NumbersOfRange
<1> QED
  BY <1>3, <1>4, <1>7, <1>8, <1>9 DEF OverviewInv

LEMMA OverviewSteps == OverviewInv /\ Ovw!Next => OverviewInv'
<1> SUFFICES ASSUME OverviewInv, Ovw!Next PROVE OverviewInv'
  OBVIOUS
<1>0. view \in OverviewViews /\ calls \subseteq OverviewCalls /\ view.win \in Nat
  BY DEF OverviewInv, OverviewViews
\* slide, from a state that differs from view in active only.
<1>1. ASSUME NEW b \in BOOLEAN, Ovw!Slide([view EXCEPT !.active = b]) PROVE OverviewInv'
  <2> DEFINE v == [view EXCEPT !.active = b]
             n == v.win + 1
             w == [v EXCEPT !.win = n]
  <2>1. /\ v \in OverviewViews /\ v.seq = view.seq /\ v.status = view.status /\ v.fetching = view.fetching
        /\ v.data = view.data /\ v.win = view.win /\ v.range = view.range
    BY <1>0 DEF OverviewViews
  <2>2. CASE view' = v /\ UNCHANGED calls
    BY <2>1, <2>2 DEF OverviewInv, LatestLoad, NumbersOfRange, Ovw!NeverStuck, Ovw!Window
  <2>3. CASE Ovw!Load(view, w)
    <3>1. n \in Nat
      BY <1>0, <2>1
    <3> HIDE DEF n, v
    <3>2. /\ w \in OverviewViews /\ w.seq = view.seq /\ w.status = view.status
          /\ w.data = view.data /\ w.win = n
      BY <2>1, <3>1 DEF OverviewViews
    <3> HIDE DEF w
    <3> QED
      BY <2>3, <3>1, <3>2, OverviewLoads
  <2> QED
    BY <1>1, <2>2, <2>3 DEF Ovw!Slide
<1>2. CASE Ovw!Poll
  <2>1. view = [view EXCEPT !.active = view.active] /\ view.active \in BOOLEAN
    BY <1>0 DEF OverviewViews
  <2>2. Ovw!Slide([view EXCEPT !.active = view.active])
    BY Zenon, <1>2, <2>1 DEF Ovw!Poll
  <2> QED
    BY <1>1, <2>1, <2>2
<1>3. CASE Ovw!Enter
  BY Zenon, <1>1, <1>3 DEF Ovw!Enter
<1>4. CASE Ovw!Leave
  <2>1. view' = [view EXCEPT !.active = FALSE] /\ calls' = calls
    BY <1>4 DEF Ovw!Leave
  <2>2. /\ view' \in OverviewViews /\ view'.seq = view.seq /\ view'.status = view.status /\ view'.fetching = view.fetching
        /\ view'.data = view.data /\ view'.win = view.win /\ view'.range = view.range
    BY Zenon, <1>0, <2>1 DEF OverviewViews
  <2> QED
    BY <2>1, <2>2 DEF OverviewInv, LatestLoad, NumbersOfRange, Ovw!NeverStuck, Ovw!Window
<1>5. ASSUME NEW r \in Ranges, Ovw!ApplyRange(r) PROVE OverviewInv'
  <2> DEFINE n == view.win + 1
             w == [view EXCEPT !.range = r, !.win = n]
  <2>1. Ovw!Load(view, w) /\ n \in Nat
    BY <1>0, <1>5 DEF Ovw!ApplyRange
  <2> HIDE DEF n
  <2>2. /\ w \in OverviewViews /\ w.seq = view.seq /\ w.status = view.status
        /\ w.data = view.data /\ w.win = n
    BY Zenon, <1>0, <2>1 DEF OverviewViews
  <2> HIDE DEF w
  <2> QED
    BY <2>1, <2>2, OverviewLoads
\* An answer to an earlier load changes nothing but the calls.
<1>6. ASSUME NEW c \in calls, view' = view, calls' = calls \ {c}, c.n # view.seq PROVE OverviewInv'
  BY <1>6 DEF OverviewInv, LatestLoad, NumbersOfRange, Ovw!NeverStuck, Ovw!Window
\* The end of the latest load.
<1>7. ASSUME NEW c \in calls, calls' = calls \ {c}, view' \in OverviewViews,
             view'.seq = view.seq, view'.range = view.range, view'.win = view.win,
             view'.status # "loading", ~view'.fetching,
             view'.status = "ok" => view'.data # None /\ view'.data.range = view.range
      PROVE  OverviewInv'
  <2>1. LatestLoad' /\ Ovw!NeverStuck'
    BY <1>7 DEF OverviewInv, LatestLoad, Ovw!NeverStuck, Ovw!Window
  <2>2. NumbersOfRange'
    BY <1>7 DEF NumbersOfRange
  <2> QED
    BY <1>0, <1>7, <2>1, <2>2 DEF OverviewInv
<1>8. ASSUME NEW c \in calls, c.n = view.seq
      PROVE  /\ c.of \in OverviewWindows /\ c.of # None /\ c.of.range = view.range
             /\ c.silent => view.status # "loading"
  BY <1>0, <1>8, WebAssumption DEF OverviewInv, LatestLoad, OverviewCalls, OverviewWindows, Ovw!Window
<1>9. ASSUME NEW c \in calls, Ovw!Succeeds(c) PROVE OverviewInv'
  <2>1. CASE c.n = view.seq
    <3>1. view' = [view EXCEPT !.data = c.of, !.status = "ok", !.fetching = FALSE] /\ calls' = calls \ {c}
      BY <1>9, <2>1 DEF Ovw!Succeeds
    <3>2. /\ view' \in OverviewViews /\ view'.seq = view.seq /\ view'.range = view.range /\ view'.win = view.win
          /\ view'.status = "ok" /\ ~view'.fetching /\ view'.data = c.of
      BY Zenon, <1>0, <1>8, <2>1, <3>1 DEF OverviewViews
    <3> QED
      BY <1>7, <1>8, <2>1, <3>1, <3>2
  <2> QED
    BY <1>6, <1>9, <2>1 DEF Ovw!Succeeds
<1>10. ASSUME NEW c \in calls, Ovw!Fails(c) PROVE OverviewInv'
  <2>1. CASE c.n = view.seq /\ c.silent
    <3>1. view' = [view EXCEPT !.fetching = FALSE] /\ calls' = calls \ {c}
      BY <1>10, <2>1 DEF Ovw!Fails
    <3>2. /\ view' \in OverviewViews /\ view'.seq = view.seq /\ view'.range = view.range /\ view'.win = view.win
          /\ view'.status = view.status /\ ~view'.fetching /\ view'.data = view.data
      BY Zenon, <1>0, <3>1 DEF OverviewViews
    <3>3. view.status = "ok" => view.data # None /\ view.data.range = view.range
      BY DEF OverviewInv, NumbersOfRange
    <3> QED
      BY <1>7, <1>8, <2>1, <3>1, <3>2, <3>3
  <2>2. CASE c.n = view.seq /\ ~c.silent
    <3>1. /\ view' = [view EXCEPT !.data = None, !.status = "error", !.fetching = FALSE]
          /\ calls' = calls \ {c}
      BY <1>10, <2>2 DEF Ovw!Fails
    <3>2. /\ view' \in OverviewViews /\ view'.seq = view.seq /\ view'.range = view.range /\ view'.win = view.win
          /\ view'.status = "error" /\ ~view'.fetching
      BY Zenon, <1>0, <3>1 DEF OverviewViews
    <3> QED
      BY <1>7, <3>1, <3>2
  <2> QED
    BY <1>6, <1>10, <2>1, <2>2 DEF Ovw!Fails
<1> QED
  BY <1>2, <1>3, <1>4, <1>5, <1>9, <1>10 DEF Ovw!Next

-----------------------------------------------------------------------------
(* The service map *)

MapViews ==
  [page : {"map"}, active : BOOLEAN, nodes : SUBSET Services, failing : BOOLEAN, of : Nat, p95 : Nat,
   mode : {"calls", "errors"}, status : {"loading", "ok", "error"}, selected : Services \cup {None}, seq : Nat]
MapCalls == [n : Nat, stage : {"graph", "metrics"}]

\* No call is ahead of the latest load, and that load asks for percentiles only
\* once its graph is shown.
GraphComesFirst ==
  \A c \in calls : /\ c.n <= view.seq
                   /\ c.n = view.seq /\ c.stage = "metrics" => view.of = view.seq /\ view.status # "loading"

MapInv ==
  /\ view \in MapViews /\ calls \subseteq MapCalls
  /\ GraphComesFirst /\ Map!ShowsTheSelection /\ Map!NeverStuck

LEMMA MapStarts == Map!Init => MapInv
  BY DEF Map!Init, Map!Call, MapInv, MapViews, MapCalls, GraphComesFirst, Map!ShowsTheSelection, Map!NeverStuck

LEMMA MapLoads ==
  ASSUME MapInv, NEW w \in MapViews, Map!Load(w), w.seq = view.seq
  PROVE  MapInv'
<1> DEFINE seq == view.seq + 1
<1>1. view' = [w EXCEPT !.seq = seq] /\ calls' = calls \cup {[n |-> seq, stage |-> "graph"]}
  BY DEF Map!Load, Map!Call
<1>2. view \in MapViews /\ calls \subseteq MapCalls /\ seq \in Nat /\ view.seq \in Nat
  BY DEF MapInv, MapViews
<1>3. \A c \in calls : c.n \in Nat /\ c.n < seq
  BY <1>2 DEF MapInv, GraphComesFirst, MapCalls
<1> HIDE DEF seq
<1>4. view' \in MapViews /\ view'.seq = seq
  BY <1>1, <1>2 DEF MapViews
<1> DEFINE call == [n |-> seq, stage |-> "graph"]
<1>5. call \in MapCalls /\ call.n = seq /\ call.stage = "graph" /\ calls' = calls \cup {call}
  BY <1>1, <1>2 DEF MapCalls
<1> HIDE DEF call
<1>6. calls' \subseteq MapCalls /\ \E c \in calls' : c.n = seq
  BY <1>2, <1>5
<1>7. GraphComesFirst'
  BY <1>2, <1>3, <1>4, <1>5 DEF GraphComesFirst
<1> QED
  BY <1>4, <1>6, <1>7 DEF MapInv, Map!ShowsTheSelection, Map!NeverStuck

LEMMA MapSteps == MapInv /\ Map!Next => MapInv'
<1> SUFFICES ASSUME MapInv, Map!Next PROVE MapInv'
  OBVIOUS
<1>0. view \in MapViews /\ calls \subseteq MapCalls /\ view.seq \in Nat
  BY DEF MapInv, MapViews
<1>1. CASE Map!Enter
  <2>1. [view EXCEPT !.active = TRUE] \in MapViews /\ [view EXCEPT !.active = TRUE].seq = view.seq
    BY Zenon, <1>0 DEF MapViews
  <2> QED
    BY Zenon, <1>1, <2>1, MapLoads DEF Map!Enter
<1>2. CASE Map!Leave
  <2>1. view' = [view EXCEPT !.active = FALSE] /\ calls' = {}
    BY <1>2 DEF Map!Leave
  <2>2. view' \in MapViews /\ ~view'.active
    BY Zenon, <1>0, <2>1 DEF MapViews
  <2> QED
    BY <2>1, <2>2 DEF MapInv, GraphComesFirst, Map!ShowsTheSelection, Map!NeverStuck
<1>3. CASE Map!Poll
  BY <1>0, <1>3, MapLoads DEF Map!Poll
\* The user's choices touch neither the calls nor what was loaded.
<1>4. ASSUME calls' = calls, view' \in MapViews, view'.active = view.active, view'.status = view.status,
             view'.of = view.of, view'.p95 = view.p95, view'.seq = view.seq
      PROVE  MapInv'
  BY <1>4 DEF MapInv, GraphComesFirst, Map!ShowsTheSelection, Map!NeverStuck
<1>5. ASSUME NEW s \in Services \cup {None}, Map!Select(s) PROVE MapInv'
  <2>1. view' = [view EXCEPT !.selected = s] /\ calls' = calls
    BY <1>5 DEF Map!Select
  <2> QED
    BY <1>0, <1>4, <2>1 DEF MapViews
<1>6. ASSUME NEW mode \in {"calls", "errors"}, Map!SetMode(mode) PROVE MapInv'
  <2>1. view' = [view EXCEPT !.mode = mode] /\ calls' = calls
    BY <1>6 DEF Map!SetMode
  <2> QED
    BY <1>0, <1>4, <2>1 DEF MapViews
\* The end of a load that another has overtaken.
<1>7. ASSUME NEW c \in calls, view' = view, calls' = calls \ {c}, c.n # view.seq PROVE MapInv'
  BY <1>7 DEF MapInv, GraphComesFirst, Map!ShowsTheSelection, Map!NeverStuck
\* The end of the latest load.
<1>8. ASSUME NEW c \in calls, calls' = calls \ {c}, view' \in MapViews, view'.seq = view.seq,
             view'.of = view.seq, view'.p95 = view.seq, view'.status # "loading"
      PROVE  MapInv'
  BY <1>0, <1>8 DEF MapInv, GraphComesFirst, Map!ShowsTheSelection, Map!NeverStuck
<1>9. ASSUME NEW c \in calls, NEW nodes \in SUBSET Services, NEW failing \in BOOLEAN,
             Map!GraphArrives(c, nodes, failing)
      PROVE  MapInv'
  <2>1. CASE c.n = view.seq
    <3> DEFINE d == [c EXCEPT !.stage = "metrics"]
    <3>1. /\ view' = [view EXCEPT !.nodes = nodes, !.failing = failing, !.of = c.n, !.status = "ok"]
          /\ calls' = (calls \ {c}) \cup {d}
      BY <1>9, <2>1 DEF Map!GraphArrives
    <3>2. /\ view' \in MapViews /\ view'.seq = view.seq /\ view'.of = view.seq /\ view'.status = "ok"
          /\ view'.active = view.active
      BY Zenon, <1>0, <2>1, <3>1 DEF MapViews
    <3>3. d \in MapCalls /\ d.n = view.seq
      BY <1>0, <2>1 DEF MapCalls
    <3> HIDE DEF d
    <3>4. calls' \subseteq MapCalls /\ GraphComesFirst'
      BY <1>0, <3>1, <3>2, <3>3 DEF MapInv, GraphComesFirst
    <3> QED
      BY <3>1, <3>2, <3>3, <3>4 DEF MapInv, Map!ShowsTheSelection, Map!NeverStuck
  <2>2. CASE c.n # view.seq
    BY <1>7, <1>9, <2>2 DEF Map!GraphArrives
  <2> QED
    BY <2>1, <2>2
<1>10. ASSUME NEW c \in calls, Map!GraphFails(c) PROVE MapInv'
  <2>1. CASE c.n = view.seq
    <3>1. /\ view' = [view EXCEPT !.nodes = {}, !.failing = FALSE, !.of = c.n, !.p95 = c.n, !.status = "error"]
          /\ calls' = calls \ {c}
      BY <1>10, <2>1 DEF Map!GraphFails
    <3>2. /\ view' \in MapViews /\ view'.seq = view.seq /\ view'.of = view.seq /\ view'.p95 = view.seq
          /\ view'.status = "error"
      BY Zenon, <1>0, <2>1, <3>1 DEF MapViews
    <3> QED
      BY <1>8, <3>1, <3>2
  <2> QED
    BY <1>7, <1>10, <2>1 DEF Map!GraphFails
<1>11. ASSUME NEW c \in calls, Map!MetricsArrive(c) PROVE MapInv'
  <2>1. CASE c.n = view.seq
    <3>1. view' = [view EXCEPT !.p95 = c.n] /\ calls' = calls \ {c} /\ c.stage = "metrics"
      BY <1>11, <2>1 DEF Map!MetricsArrive
    <3>2. /\ view' \in MapViews /\ view'.seq = view.seq /\ view'.of = view.of /\ view'.p95 = view.seq
          /\ view'.status = view.status
      BY <1>0, <2>1, <3>1 DEF MapViews
    <3>3. view.of = view.seq /\ view.status # "loading"
      BY <2>1, <3>1 DEF MapInv, GraphComesFirst
    <3> QED
      BY <1>8, <3>1, <3>2, <3>3
  <2> QED
    BY <1>7, <1>11, <2>1 DEF Map!MetricsArrive
<1> QED
  BY <1>1, <1>2, <1>3, <1>5, <1>6, <1>9, <1>10, <1>11 DEF Map!Next

-----------------------------------------------------------------------------
(* The charts *)

Drawings == [n : Nat, theme : Themes, key : Keys]
ChartViews ==
  [page : {"chart"}, sized : BOOLEAN, theme : Themes, key : Keys, n : Nat, buckets : Seq(BOOLEAN),
   plot : Drawings \cup {None}, payload : Drawings \cup {None}, hover : Nat \cup {None}, missed : BOOLEAN]

\* What was captured is of the theme and the lines on screen, and so is the
\* plot; a plot is missing only where there is no room for it, and what it will
\* be built from is then of the data on screen, unless some were missed.
Captured(v) ==
  /\ v.payload = None <=> Chart!Empty(v)
  /\ v.payload # None => v.payload.theme = v.theme /\ v.payload.key = v.key
Plotted(v) ==
  /\ v.plot # None =>
       v.payload # None /\ v.plot.theme = v.theme /\ v.plot.key = v.key /\ (v.plot.n = v.n \/ v.missed)
  /\ v.plot = None /\ v.payload # None => ~v.sized /\ (v.payload.n = v.n \/ v.missed)
  /\ v.hover # None => v.plot # None

ChartInv == view \in ChartViews /\ Captured(view) /\ Plotted(view)

LEMMA ChartStarts == Chart!Init => ChartInv
<1> SUFFICES ASSUME Chart!Init PROVE ChartInv
  OBVIOUS
<1>1. PICK sized \in BOOLEAN, theme \in Themes, key \in Keys :
       view = [page |-> "chart", sized |-> sized, theme |-> theme, key |-> key, n |-> 0, buckets |-> <<>>,
               plot |-> None, payload |-> None, hover |-> None, missed |-> FALSE]
  BY Zenon DEF Chart!Init
<1>2. <<>> \in Seq(BOOLEAN)
  OBVIOUS
<1>3. view \in ChartViews
  BY <1>1, <1>2 DEF ChartViews
<1> QED
  BY <1>1, <1>3 DEF ChartInv, Captured, Plotted, Chart!Empty

LEMMA ChartLayout ==
  ASSUME NEW v \in ChartViews, Captured(v), v.plot = None \/ Plotted(v), v.payload # None /\ v.plot = None => v.payload.n = v.n \/ v.missed,
         v.hover # None => v.plot # None
  PROVE  Chart!Layout(v) \in ChartViews /\ Captured(Chart!Layout(v)) /\ Plotted(Chart!Layout(v))
<1>1. CASE v.sized /\ v.plot = None /\ v.payload # None
  <2> DEFINE w == [v EXCEPT !.plot = v.payload]
  <2>1. /\ w \in ChartViews /\ w.plot = v.payload /\ w.buckets = v.buckets /\ w.payload = v.payload /\ w.theme = v.theme
        /\ w.key = v.key /\ w.n = v.n /\ w.missed = v.missed /\ w.hover = v.hover
    BY DEF ChartViews
  <2>2. Chart!Layout(v) = w
    BY <1>1 DEF Chart!Layout
  <2> HIDE DEF w
  <2> QED
    BY <1>1, <2>1, <2>2 DEF Captured, Plotted, Chart!Empty
<1>2. CASE ~(v.sized /\ v.plot = None /\ v.payload # None)
  <2>1. Chart!Layout(v) = v
    BY <1>2 DEF Chart!Layout
  <2>2. v.sized \in BOOLEAN
    BY DEF ChartViews
  <2> QED
    BY <1>2, <2>1, <2>2 DEF Plotted
<1> QED
  BY <1>1, <1>2

\* Rendering new props w keeps the invariant.
LEMMA ChartRenders ==
  ASSUME ChartInv, NEW w \in ChartViews, Chart!Render(w),
         w.sized = view.sized, w.plot = view.plot, w.payload = view.payload, w.hover = view.hover, w.missed = view.missed,
         w.n = view.n => w.buckets = view.buckets /\ w.key = view.key
  PROVE  ChartInv'
<1> DEFINE b == Chart!Build(view, w)
<1>0. view \in ChartViews /\ Captured(view) /\ Plotted(view)
  BY DEF ChartInv
<1>1. b \in ChartViews /\ Captured(b) /\ b.n = w.n /\ Chart!Empty(b) = Chart!Empty(w)
      /\ \/ Plotted(b)
         \/ /\ w.n # view.n /\ b = w
            /\ b.hover # None => b.plot # None
            /\ b.plot # None => b.payload # None /\ b.plot.theme = b.theme /\ b.plot.key = b.key
            /\ b.plot = None /\ b.payload # None => ~b.sized
  <2>1. CASE Chart!Rebuilds(view, w)
    <3> DEFINE payload == IF Chart!Empty(w) THEN None ELSE Chart!Drawing(w)
               v == [w EXCEPT !.plot = None, !.hover = None, !.missed = FALSE, !.payload = payload]
    <3>1. Chart!Drawing(w) \in Drawings /\ Chart!Drawing(w) # None
      BY WebAssumption DEF Chart!Drawing, Drawings, ChartViews
    <3>2. /\ payload \in Drawings \cup {None} /\ (payload = None <=> Chart!Empty(w))
          /\ payload # None => payload.n = w.n /\ payload.theme = w.theme /\ payload.key = w.key
      BY <3>1 DEF Chart!Drawing
    <3> HIDE DEF payload
    <3>3. /\ v \in ChartViews /\ v.plot = None /\ v.hover = None /\ v.payload = payload /\ v.buckets = w.buckets
          /\ v.theme = w.theme /\ v.key = w.key /\ v.n = w.n
      BY Zenon, <3>2 DEF ChartViews
    <3>4. b = Chart!Layout(v)
      BY <2>1 DEF Chart!Build, payload
    <3> HIDE DEF v, b
    <3>5. Captured(v) /\ (v.payload # None /\ v.plot = None => v.payload.n = v.n \/ v.missed)
      BY <3>2, <3>3 DEF Captured, Chart!Empty
    <3>6. b \in ChartViews /\ Captured(b) /\ Plotted(b)
      BY <3>3, <3>4, <3>5, ChartLayout
    <3>7. b.n = w.n /\ b.buckets = w.buckets
      BY <3>3, <3>4 DEF Chart!Layout, ChartViews
    <3> QED
      BY <3>6, <3>7 DEF Chart!Empty
  <2>2. CASE ~Chart!Rebuilds(view, w)
    <3>1. b = w /\ w.theme = view.theme /\ w.key = view.key /\ Chart!Empty(w) = Chart!Empty(view)
      BY <2>2 DEF Chart!Build, Chart!Rebuilds
    <3> QED
      BY <1>0, <3>1 DEF Captured, Plotted
  <2> QED
    BY <2>1, <2>2
<1>2. view' = Chart!SetData(view, b)
  BY DEF Chart!Render
<1> HIDE DEF b
<1>3. CASE w.n = view.n \/ Chart!Empty(w)
  BY <1>0, <1>1, <1>2, <1>3 DEF Chart!SetData, ChartInv, Captured, Plotted
<1>4. CASE w.n # view.n /\ ~Chart!Empty(w) /\ b.plot # None
  <2>1. view' = [b EXCEPT !.plot.n = b.n, !.missed = FALSE]
    BY <1>1, <1>2, <1>4 DEF Chart!SetData
  <2>2. b.plot \in Drawings
    BY <1>1, <1>4 DEF ChartViews
  <2> DEFINE plot == [b.plot EXCEPT !.n = b.n]
  <2>3. plot \in Drawings /\ plot # None /\ plot.n = b.n /\ plot.theme = b.plot.theme /\ plot.key = b.plot.key
    BY <1>1, <2>2, WebAssumption DEF Drawings, ChartViews
  <2>4. view' = [b EXCEPT !.plot = plot, !.missed = FALSE]
    BY <1>1, <2>1 DEF ChartViews
  <2> HIDE DEF plot
  <2>5. /\ view' \in ChartViews /\ view'.plot = plot /\ view'.payload = b.payload /\ view'.buckets = b.buckets
        /\ view'.theme = b.theme /\ view'.key = b.key /\ view'.n = b.n
    BY Zenon, <1>1, <2>3, <2>4 DEF ChartViews
  <2> QED
    BY <1>1, <1>4, <2>3, <2>5 DEF ChartInv, Captured, Plotted, Chart!Empty
<1>5. CASE w.n # view.n /\ ~Chart!Empty(w) /\ b.plot = None
  <2> DEFINE missed == b.payload.n # b.n
  <2>1. view' = [b EXCEPT !.missed = missed]
    BY <1>1, <1>2, <1>5 DEF Chart!SetData
  <2>2. /\ view' \in ChartViews /\ view'.plot = b.plot /\ view'.payload = b.payload /\ view'.buckets = b.buckets
        /\ view'.theme = b.theme /\ view'.key = b.key /\ view'.n = b.n /\ view'.hover = b.hover /\ view'.sized = b.sized
        /\ view'.missed = missed
    BY Zenon, <1>1, <2>1 DEF ChartViews
  <2> QED
    BY Zenon, <1>1, <1>5, <2>2 DEF ChartInv, Captured, Plotted, Chart!Empty
<1> QED
  BY <1>3, <1>4, <1>5

LEMMA ChartSteps == ChartInv /\ Chart!Next => ChartInv'
<1> SUFFICES ASSUME ChartInv, Chart!Next PROVE ChartInv'
  OBVIOUS
<1>0. view \in ChartViews /\ Captured(view) /\ Plotted(view)
  BY DEF ChartInv
<1>1. CASE Chart!Resize
  <2> DEFINE v == [view EXCEPT !.sized = ~@]
  <2>1. /\ v \in ChartViews /\ v.plot = view.plot /\ v.payload = view.payload /\ v.buckets = view.buckets
        /\ v.theme = view.theme /\ v.key = view.key /\ v.n = view.n /\ v.hover = view.hover /\ v.missed = view.missed
    BY Zenon, <1>0 DEF ChartViews
  <2>2. view' = Chart!Layout(v)
    BY <1>1 DEF Chart!Resize
  <2> HIDE DEF v
  <2>3. Captured(v) /\ (v.plot = None \/ Plotted(v))
    BY <1>0, <2>1 DEF Captured, Plotted, Chart!Empty
  <2>4. v.payload # None /\ v.plot = None => v.payload.n = v.n \/ v.missed
    BY <1>0, <2>1 DEF Plotted
  <2>5. v.hover # None => v.plot # None
    BY <1>0, <2>1 DEF Plotted
  <2> QED
    BY <2>1, <2>2, <2>3, <2>4, <2>5, ChartLayout DEF ChartInv
\* The cursor touches nothing but the tip.
<1>2. ASSUME NEW hover \in Nat \cup {None}, view' = [view EXCEPT !.hover = hover], view.plot # None \/ hover = None
      PROVE  ChartInv'
  <2>1. /\ view' \in ChartViews /\ view'.plot = view.plot /\ view'.payload = view.payload /\ view'.buckets = view.buckets
        /\ view'.theme = view.theme /\ view'.key = view.key /\ view'.n = view.n /\ view'.hover = hover
        /\ view'.missed = view.missed /\ view'.sized = view.sized
    BY <1>0, <1>2 DEF ChartViews
  <2> QED
    BY <1>0, <1>2, <2>1 DEF ChartInv, Captured, Plotted, Chart!Empty
<1>3. CASE Chart!Unhover
  BY <1>2, <1>3 DEF Chart!Unhover
<1>4. ASSUME NEW i \in 1..2, Chart!Hover(i) PROVE ChartInv'
  <2> DEFINE hover == IF view.buckets[i] THEN i ELSE None
  <2>1. hover \in Nat \cup {None} /\ view' = [view EXCEPT !.hover = hover] /\ view.plot # None
    BY <1>4 DEF Chart!Hover
  <2> HIDE DEF hover
  <2> QED
    BY <1>2, <2>1
<1>5. ASSUME NEW buckets \in Charts, Chart!NewData(buckets) PROVE ChartInv'
  <2>1. PICK key \in Keys : Chart!Render([view EXCEPT !.n = @ + 1, !.buckets = buckets, !.key = key])
    BY Zenon, <1>5 DEF Chart!NewData
  <2> DEFINE n == view.n + 1
             w == [view EXCEPT !.n = n, !.buckets = buckets, !.key = key]
  <2>2. n \in Nat /\ n # view.n /\ buckets \in Seq(BOOLEAN)
    BY <1>0, WebAssumption DEF ChartViews
  <2>3. Chart!Render(w)
    BY <2>1
  <2> HIDE DEF n
  <2>4. /\ w \in ChartViews /\ w.sized = view.sized /\ w.plot = view.plot /\ w.payload = view.payload
        /\ w.hover = view.hover /\ w.missed = view.missed /\ w.n = n
    BY Zenon, <1>0, <2>2 DEF ChartViews
  <2> HIDE DEF w
  <2> QED
    BY <2>2, <2>3, <2>4, ChartRenders
<1>6. ASSUME NEW t \in Themes, Chart!NewTheme(t) PROVE ChartInv'
  <2> DEFINE w == [view EXCEPT !.theme = t]
  <2>1. Chart!Render(w)
    BY <1>6 DEF Chart!NewTheme
  <2>2. /\ w \in ChartViews /\ w.sized = view.sized /\ w.plot = view.plot /\ w.payload = view.payload
        /\ w.hover = view.hover /\ w.missed = view.missed /\ w.buckets = view.buckets /\ w.key = view.key
    BY <1>0 DEF ChartViews
  <2> HIDE DEF w
  <2> QED
    BY <2>1, <2>2, ChartRenders
<1> QED
  BY <1>1, <1>3, <1>4, <1>5, <1>6 DEF Chart!Next

LEMMA ChartSafe == ChartInv => Chart!ShowsTheSelection
<1> SUFFICES ASSUME ChartInv PROVE Chart!ShowsTheSelection
  OBVIOUS
<1>1. view.hover \notin DOMAIN view.buckets \/ view.hover # None
  <2>1. DOMAIN view.buckets \subseteq Nat
    BY DEF ChartInv, ChartViews
  <2> QED
    BY <2>1, WebAssumption
<1> QED
  BY <1>1 DEF ChartInv, Captured, Plotted, Chart!ShowsTheSelection, Chart!Shown

-----------------------------------------------------------------------------
(* The search form *)

\* Nothing depends on what the names and the texts are: S holds them all.
FormMenus(S) == [open : BOOLEAN, hi : S, names : S, of : S]
FormViews(S) ==
  [page : {"form"}, service : S, op : S, win : Nat, disabled : BOOLEAN, menu : [Form!Which -> FormMenus(S)]]
FormTexts(S) == {1, <<>>, [p |-> "none"]} \subseteq S

\* Every call is for what its menu has to offer now.
CallsAreWanted == \A c \in calls : c.p \in Form!Which /\ c = Form!Wanted(view, c.p)

FormInv == (\E S : FormTexts(S) /\ view \in FormViews(S)) /\ CallsAreWanted /\ Form!ShowsTheSelection

LEMMA FormStarts == Form!Init => FormInv
<1> SUFFICES ASSUME Form!Init PROVE FormInv
  OBVIOUS
<1> DEFINE S == {1, <<>>, [p |-> "none"]}
<1>1. /\ view = [page |-> "form", service |-> <<>>, op |-> <<>>, win |-> 1, disabled |-> FALSE,
                 menu |-> [p \in Form!Which |-> Form!NoMenu]]
      /\ calls = {[p |-> "service", win |-> 1]}
  BY DEF Form!Init, Form!Blank, Form!Wanted
<1>2. Form!NoMenu \in FormMenus(S)
  BY DEF Form!NoMenu, FormMenus
<1>3. view \in FormViews(S)
  BY <1>1, <1>2 DEF FormViews
<1>4. CallsAreWanted
  BY <1>1 DEF CallsAreWanted, Form!Wanted, Form!Which
<1>5. Form!ShowsTheSelection
  BY <1>1 DEF Form!ShowsTheSelection, Form!NoMenu
<1>6. FormTexts(S)
  BY DEF FormTexts
<1> QED
  BY <1>3, <1>4, <1>5, <1>6 DEF FormInv

SameNames(v, w) == \A p \in Form!Which : w.menu[p].names = v.menu[p].names /\ w.menu[p].of = v.menu[p].of

\* A step that changes nothing of the menus but whether they are open and what is highlighted.
LEMMA FormRenders ==
  ASSUME FormInv, NEW S, FormTexts(S), NEW w \in FormViews(S), Form!Render(w),
         SameNames(view, w)
  PROVE  FormInv'
<1> DEFINE Top(p) == IF w[p] # view[p] \/ w.menu[p].open # view.menu[p].open THEN [w.menu[p] EXCEPT !.hi = 1] ELSE w.menu[p]
           Gone(p) == p = "op" /\ Form!Reloads(view, w, p) /\ w.service = Form!Blank
           Menu(p) == IF Gone(p) THEN [Top(p) EXCEPT !.names = <<>>, !.of = [p |-> "none"]] ELSE Top(p)
           menu == [p \in Form!Which |-> Menu(p)]
<1>1. ASSUME NEW p \in Form!Which
      PROVE  /\ Menu(p) \in FormMenus(S)
             /\ Gone(p) => Menu(p).names = <<>>
             /\ ~Gone(p) => Menu(p).names = view.menu[p].names /\ Menu(p).of = view.menu[p].of
  <2>1. w.menu[p] \in FormMenus(S)
    BY DEF FormViews
  <2>2. Top(p) \in FormMenus(S) /\ Top(p).names = w.menu[p].names /\ Top(p).of = w.menu[p].of
    BY <2>1 DEF FormMenus, FormTexts, SameNames
  <2> HIDE DEF Top, Gone
  <2> QED
    BY Zenon, <2>2 DEF FormMenus, FormTexts, SameNames
<1>2. view' = [w EXCEPT !.menu = menu] /\ calls' = Form!Calls(view, w)
  BY Zenon DEF Form!Render, Form!Blank
<1> HIDE DEF Menu, Gone
<1>3. /\ view' \in FormViews(S) /\ view'.menu = menu /\ view'.service = w.service /\ view'.win = w.win
  BY <1>1, <1>2 DEF FormViews
<1>4. \A p \in Form!Which : Form!Wanted(view', p) = Form!Wanted(w, p)
  BY <1>3 DEF Form!Wanted
<1>5. \A p \in Form!Which : ~Form!Reloads(view, w, p) => Form!Wanted(view, p) = Form!Wanted(w, p)
  BY DEF Form!Reloads, Form!Wanted, Form!Which
<1>6. \A p \in Form!Which : Form!Wanted(w, p).p = p
  BY DEF Form!Wanted, Form!Which
<1>7. CallsAreWanted'
  BY <1>2, <1>4, <1>5, <1>6 DEF FormInv, CallsAreWanted, Form!Calls
<1>8. ASSUME NEW p \in Form!Which, \A c \in calls' : c.p # p
      PROVE  view'.menu[p].names = <<>> \/ view'.menu[p].of = Form!Wanted(view', p)
  <2>1. view'.menu[p] = Menu(p)
    BY <1>3
  <2>2. CASE Form!Reloads(view, w, p)
    <3>1. ~(p = "op" => w.service # Form!Blank)
      BY <1>2, <1>6, <1>8, <2>2 DEF Form!Calls
    <3> QED
      BY <1>1, <2>1, <2>2, <3>1 DEF Gone
  <2>3. CASE ~Form!Reloads(view, w, p)
    <3>1. \A c \in calls : c.p # p
      BY <1>2, <1>8, <2>3 DEF Form!Calls
    <3>2. view.menu[p].names = <<>> \/ view.menu[p].of = Form!Wanted(view, p)
      BY <3>1 DEF FormInv, Form!ShowsTheSelection
    <3>3. ~Gone(p)
      BY <2>3 DEF Gone
    <3> QED
      BY <1>1, <1>4, <1>5, <2>1, <2>3, <3>2, <3>3
  <2> QED
    BY <2>2, <2>3
<1> QED
  BY <1>3, <1>7, <1>8 DEF FormInv, Form!ShowsTheSelection

\* Opening, closing and moving about in a menu leave its names alone.
Opened(v, p, open) == [v EXCEPT !.menu[p].open = open]
Lit(v, p, i) == [v EXCEPT !.menu[p].hi = i]

LEMMA FormMenu ==
  ASSUME NEW S, FormTexts(S), NEW v \in FormViews(S), NEW p \in Form!Which
  PROVE  /\ \A open \in BOOLEAN : Opened(v, p, open) \in FormViews(S) /\ SameNames(v, Opened(v, p, open))
         /\ \A i \in Nat : Lit(v, p, i) \in FormViews(S \cup {i}) /\ SameNames(v, Lit(v, p, i))
  BY DEF FormViews, FormMenus, Form!Which, Opened, Lit, SameNames

LEMMA FormSteps == FormInv /\ Form!Next => FormInv'
<1> SUFFICES ASSUME FormInv, Form!Next PROVE FormInv'
  OBVIOUS
<1>1. PICK S : FormTexts(S) /\ view \in FormViews(S)
  BY DEF FormInv
<1>2. CASE Form!SetWindow
  <2> DEFINE n == view.win + 1
             w == [view EXCEPT !.win = n]
  <2>1. Form!Render(w) /\ n \in Nat
    BY <1>1, <1>2 DEF Form!SetWindow, FormViews
  <2> HIDE DEF n
  <2>2. w \in FormViews(S) /\ w.menu = view.menu
    BY <1>1, <2>1 DEF FormViews
  <2> HIDE DEF w
  <2> QED
    BY <1>1, <2>1, <2>2, FormRenders DEF SameNames
<1>3. CASE Form!SetDisabled
  <2> DEFINE w == [view EXCEPT !.disabled = ~@]
  <2>1. Form!Render(w)
    BY <1>3 DEF Form!SetDisabled
  <2>2. w \in FormViews(S) /\ w.menu = view.menu
    BY Zenon, <1>1 DEF FormViews
  <2> HIDE DEF w
  <2> QED
    BY <1>1, <2>1, <2>2, FormRenders DEF SameNames
<1>4. ASSUME NEW p \in Form!Which, Form!Focus(p) \/ Form!Close(p) PROVE FormInv'
  <2>1. PICK open \in BOOLEAN : Form!Render(Opened(view, p, open))
    BY Zenon, <1>4 DEF Form!Focus, Form!Close, Opened
  <2> QED
    BY <1>1, <2>1, FormMenu, FormRenders
\* A text typed or picked.
<1>5. ASSUME NEW p \in Form!Which, NEW text, NEW picked \in BOOLEAN, NEW open \in BOOLEAN,
             Form!Render([Form!SetForm(view, p, text, picked) EXCEPT !.menu[p].open = open])
      PROVE  FormInv'
  <2> DEFINE T == S \cup {text}
             v == Form!SetForm(view, p, text, picked)
             w == Opened(v, p, open)
  <2>1. FormTexts(T)
    BY <1>1 DEF FormTexts
  <2>2. v \in FormViews(T) /\ v.menu = view.menu
    BY Zenon, <1>1, <2>1 DEF Form!SetForm, FormViews, FormMenus, FormTexts, Form!Which, Form!Blank
  <2>3. Form!Render(w)
    BY <1>5 DEF Opened
  <2> HIDE DEF T, v
  <2>4. w \in FormViews(T) /\ SameNames(v, w)
    BY <2>1, <2>2, FormMenu
  <2> HIDE DEF w
  <2>5. SameNames(view, w)
    BY <2>2, <2>4 DEF SameNames
  <2> QED
    BY <2>1, <2>3, <2>4, <2>5, FormRenders
<1>6. ASSUME NEW p \in Form!Which, NEW text \in Texts, Form!Type(p, text) PROVE FormInv'
  BY Zenon, <1>5, <1>6 DEF Form!Type
<1>7. ASSUME NEW p \in Form!Which, NEW i \in 1..3, Form!Pick(p, i) PROVE FormInv'
  BY Zenon, <1>5, <1>7 DEF Form!Pick
<1>8. ASSUME NEW p \in Form!Which, NEW i \in 1..3, Form!Highlight(p, i) PROVE FormInv'
  <2> DEFINE w == Lit(view, p, i)
             T == S \cup {i}
  <2>1. Form!Render(w)
    BY <1>8 DEF Form!Highlight, Lit
  <2>2. w \in FormViews(T) /\ SameNames(view, w)
    BY <1>1, FormMenu
  <2>3. FormTexts(T)
    BY <1>1 DEF FormTexts
  <2> HIDE DEF w, T
  <2> QED
    BY <2>1, <2>2, <2>3, FormRenders
<1>9. ASSUME NEW c \in calls, NEW ok \in BOOLEAN, Form!NamesArrive(c, ok) PROVE FormInv'
  <2> DEFINE names == IF ok THEN Form!Named(c) ELSE <<>>
             m == [view.menu[c.p] EXCEPT !.names = names, !.of = c]
             T == S \cup {names, c}
  <2>1. c.p \in Form!Which /\ c = Form!Wanted(view, c.p)
    BY DEF FormInv, CallsAreWanted
  <2>2. view' = [view EXCEPT !.menu[c.p].names = names, !.menu[c.p].of = c] /\ calls' = calls \ {c}
    BY <1>9 DEF Form!NamesArrive
  <2>3. view.menu \in [Form!Which -> FormMenus(S)] /\ view.menu[c.p] \in FormMenus(S)
    BY <1>1, <2>1 DEF FormViews
  <2> HIDE DEF names
  <2>4. m \in FormMenus(T) /\ m.of = c
    BY Zenon, <2>3 DEF FormMenus
  <2>5. view' = [view EXCEPT !.menu = [@ EXCEPT ![c.p] = m]]
    BY Zenon, <1>1, <2>1, <2>2, <2>3 DEF FormViews, FormMenus
  <2> HIDE DEF m
  <2>6. FormMenus(S) \subseteq FormMenus(T) /\ FormTexts(T)
    BY <1>1 DEF FormMenus, FormTexts
  <2>7. [view.menu EXCEPT ![c.p] = m] \in [Form!Which -> FormMenus(T)]
    BY Zenon, <2>3, <2>4, <2>6
  <2>8. /\ view' \in FormViews(T) /\ view'.menu = [view.menu EXCEPT ![c.p] = m]
        /\ view'.service = view.service /\ view'.win = view.win
    BY Zenon, <1>1, <2>5, <2>7 DEF FormViews
  <2>9. \A p \in Form!Which : Form!Wanted(view', p) = Form!Wanted(view, p)
    BY <2>8 DEF Form!Wanted
  <2>10. CallsAreWanted'
    BY <2>2, <2>9 DEF FormInv, CallsAreWanted
  <2>11. Form!ShowsTheSelection'
    BY <2>1, <2>2, <2>3, <2>4, <2>8, <2>9 DEF FormInv, Form!ShowsTheSelection
  <2> QED
    BY <2>6, <2>8, <2>10, <2>11 DEF FormInv
<1> QED
  BY <1>2, <1>3, <1>4, <1>6, <1>7, <1>8, <1>9 DEF Form!Next

-----------------------------------------------------------------------------
(* The services page *)

ServiceWindows == [svc : Services, win : Nat]
Asked == ServiceWindows \cup {None}
ServiceViews ==
  [page : {"services"}, active : BOOLEAN, win : Nat, rows : SUBSET Services, status : {"loading", "ok", "error"},
   selected : Services \cup {None}, url : Services \cup {None}, kpis : Asked, causes : Asked, ops : Asked,
   dash : {"idle", "loading", "ok", "error"}, seq : Nat, dashSeq : Nat, fetching : BOOLEAN]
ListCalls == [kind : {"list"}, n : Nat]
DashCalls ==
  [kind : {"dash"}, n : Nat, of : ServiceWindows, stage : {"metrics", "causes", "operations", "stray"},
   phase : {"head", "body"}, doomed : BOOLEAN]
DashOf(cs) == {c \in cs : c.kind = "dash"}
OnScreen(v) == Svc!Of(v.selected, v.win)

\* A chain that is not aborted, which is the chain of the selection on screen.
Live(c) == ~c.doomed /\ c.stage # "stray"
LiveAt(cs, stages) == \E c \in DashOf(cs) : ~c.doomed /\ c.stage \in stages

\* A chain that was aborted and still has to fail reads a body; a stray one no
\* longer hears of its abort.
ChainsInOrder(v, cs) ==
  \A c \in DashOf(cs) : c.n <= v.dashSeq /\ (c.doomed => c.stage # "stray" /\ c.phase = "body")

\* An aborted chain still counts as the latest only when nothing is selected.
ChainIsCurrent(v, cs) ==
  \A c \in DashOf(cs) : /\ ~Live(c) /\ c.n = v.dashSeq => v.selected = None
                        /\ Live(c) => c.n = v.dashSeq /\ v.selected # None /\ c.of = OnScreen(v)
                        /\ \A d \in DashOf(cs) : Live(c) /\ Live(d) => c = d

ListComes(v, cs) == v.fetching \/ v.status = "loading" => Svc!ListCall(v.seq) \in cs
DashComes(v, cs) == v.dash = "loading" => LiveAt(cs, {"metrics"})

\* A dashboard holds of another service or window only what its chain has still to bring.
DashIsCurrent(v, cs) ==
  v.dash # "error" /\ v.selected # None =>
    /\ v.kpis # OnScreen(v) => LiveAt(cs, {"metrics"})
    /\ v.causes \notin {OnScreen(v), None} => LiveAt(cs, {"metrics", "causes"})
    /\ v.ops \notin {OnScreen(v), None} => LiveAt(cs, {"metrics", "causes", "operations"})

ServicesState(v, cs) ==
  /\ v \in ServiceViews /\ cs \subseteq ListCalls \cup DashCalls
  /\ ChainsInOrder(v, cs) /\ ChainIsCurrent(v, cs) /\ ListComes(v, cs) /\ DashComes(v, cs) /\ DashIsCurrent(v, cs)

ServicesInv == ServicesState(view, calls)

\* What aborting leaves of the chains: none is live.
LEMMA DoomedCalls ==
  ASSUME NEW v \in ServiceViews, NEW cs \in SUBSET (ListCalls \cup DashCalls), ChainsInOrder(v, cs)
  PROVE  /\ Svc!Doom(cs) \subseteq ListCalls \cup DashCalls
         /\ ChainsInOrder(v, Svc!Doom(cs))
         /\ \A c \in DashOf(Svc!Doom(cs)) : ~Live(c)
         /\ \A n : Svc!ListCall(n) \in cs => Svc!ListCall(n) \in Svc!Doom(cs)
<1> DEFINE heard == {c \in cs : c.kind = "dash" /\ ~c.doomed /\ c.stage # "stray"}
           reading == {c \in heard : c.phase = "body"}
           doomed == {[c EXCEPT !.doomed = TRUE] : c \in reading}
<1>1. Svc!Doom(cs) = (cs \ heard) \cup doomed
  BY DEF Svc!Doom
<1>2. ASSUME NEW c \in reading
      PROVE  /\ [c EXCEPT !.doomed = TRUE] \in DashCalls /\ [c EXCEPT !.doomed = TRUE].doomed
             /\ [c EXCEPT !.doomed = TRUE].n <= v.dashSeq
             /\ [c EXCEPT !.doomed = TRUE].stage # "stray" /\ [c EXCEPT !.doomed = TRUE].phase = "body"
  <2>1. c \in DashCalls /\ c.n <= v.dashSeq /\ c.stage # "stray" /\ c.phase = "body"
    BY DEF DashOf, ListCalls, ChainsInOrder
  <2> QED
    BY Zenon, <2>1 DEF DashCalls
<1>3. \A d \in doomed : /\ d \in DashCalls /\ d.doomed /\ d.n <= v.dashSeq
                        /\ d.stage # "stray" /\ d.phase = "body"
  BY Zenon, <1>2
<1>4. \A n : Svc!ListCall(n) \notin heard
  BY DEF Svc!ListCall
<1>5. \A c \in cs : c \notin heard /\ c.kind = "dash" => ~Live(c)
  BY DEF Live
<1>6. cs \ heard \subseteq cs
  OBVIOUS
<1> HIDE DEF doomed, heard
<1> QED
  BY <1>1, <1>3, <1>4, <1>5, <1>6 DEF DashOf, ChainsInOrder, Live

\* The effect that loads the dashboard, or clears it.
LEMMA DashEffects ==
  ASSUME NEW v \in ServiceViews, NEW cs \in SUBSET (ListCalls \cup DashCalls), ChainsInOrder(v, cs), ListComes(v, cs)
  PROVE  ServicesState(Svc!DashEffect(v, cs).v, Svc!DashEffect(v, cs).cs)
<1>1. /\ Svc!Doom(cs) \subseteq ListCalls \cup DashCalls
      /\ ChainsInOrder(v, Svc!Doom(cs)) /\ \A c \in DashOf(Svc!Doom(cs)) : ~Live(c)
      /\ \A n : Svc!ListCall(n) \in cs => Svc!ListCall(n) \in Svc!Doom(cs)
  BY DoomedCalls
<1>2. CASE v.selected = None
  <2> DEFINE w == [v EXCEPT !.kpis = None, !.causes = None, !.ops = None, !.dash = "idle"]
  <2>1. Svc!DashEffect(v, cs).v = w /\ Svc!DashEffect(v, cs).cs = Svc!Doom(cs)
    BY <1>2, ZenonT(30) DEF Svc!DashEffect
  <2>2. /\ w \in ServiceViews /\ w.dash = "idle" /\ w.selected = None /\ w.dashSeq = v.dashSeq /\ w.seq = v.seq
        /\ w.fetching = v.fetching /\ w.status = v.status
    <3>1. None \in Asked
      BY DEF Asked
    <3> QED
      BY <1>2, <3>1, ZenonT(30) DEF ServiceViews
  <2> HIDE DEF w
  <2> QED
    BY <1>1, <2>1, <2>2 DEF ServicesState, ChainsInOrder, ChainIsCurrent, ListComes, DashComes, DashIsCurrent
<1>3. CASE v.selected # None
  <2> DEFINE seq == v.dashSeq + 1
             w == [v EXCEPT !.dashSeq = seq, !.dash = "loading"]
             call == Svc!DashCall(w)
  <2>1. Svc!DashEffect(v, cs).v = w /\ Svc!DashEffect(v, cs).cs = Svc!Doom(cs) \cup {call}
    BY <1>3 DEF Svc!DashEffect
  <2>2. seq \in Nat /\ v.dashSeq \in Nat /\ v.dashSeq < seq
    BY DEF ServiceViews
  <2> HIDE DEF seq
  <2>3. /\ w \in ServiceViews /\ w.dash = "loading" /\ w.selected = v.selected /\ w.dashSeq = seq /\ w.seq = v.seq
        /\ w.fetching = v.fetching /\ w.status = v.status
    BY Zenon, <2>2 DEF ServiceViews
  <2> HIDE DEF w
  <2>4. /\ call \in DashCalls /\ call.kind = "dash" /\ call.n = seq /\ call.of = OnScreen(w)
        /\ call.stage = "metrics" /\ ~call.doomed /\ Live(call)
    BY <1>3, <2>2, <2>3 DEF Svc!DashCall, Svc!Of, OnScreen, DashCalls, ServiceWindows, ServiceViews, Live
  <2> HIDE DEF call
  <2>5. \A c \in Svc!Doom(cs) \cup {call} : c.kind = "dash" => c \in DashOf(Svc!Doom(cs)) \/ c = call
    BY DEF DashOf
  <2>6. \A c \in DashOf(Svc!Doom(cs)) : c.n <= seq /\ c.n # seq
    <3>1. \A c \in DashOf(Svc!Doom(cs)) : c.n \in Nat
      BY <1>1 DEF DashOf, DashCalls, ListCalls
    <3> QED
      BY <1>1, <2>2, <3>1 DEF ChainsInOrder
  <2>7. ChainsInOrder(w, Svc!Doom(cs) \cup {call}) /\ ChainIsCurrent(w, Svc!Doom(cs) \cup {call})
    <3>1. seq <= seq
      BY <2>2
    <3> QED
      BY <1>1, <1>3, <2>3, <2>4, <2>6, <3>1 DEF ChainsInOrder, ChainIsCurrent, DashOf
  <2>8. ListComes(w, Svc!Doom(cs) \cup {call}) /\ DashComes(w, Svc!Doom(cs) \cup {call})
    BY <1>1, <2>3, <2>4 DEF ListComes, DashComes, LiveAt, DashOf
  <2>9. DashIsCurrent(w, Svc!Doom(cs) \cup {call})
    BY <2>4 DEF DashIsCurrent, LiveAt, DashOf
  <2> QED
    BY <1>1, <2>1, <2>3, <2>4, <2>7, <2>8, <2>9 DEF ServicesState
<1> QED
  BY <1>2, <1>3

\* The effect that loads the list.
LEMMA ListEffects ==
  ASSUME NEW v \in ServiceViews, NEW cs \in SUBSET (ListCalls \cup DashCalls), ChainsInOrder(v, cs)
  PROVE  /\ Svc!ListEffect(v, cs).v \in ServiceViews /\ Svc!ListEffect(v, cs).cs \in SUBSET (ListCalls \cup DashCalls)
         /\ ChainsInOrder(Svc!ListEffect(v, cs).v, Svc!ListEffect(v, cs).cs)
         /\ ListComes(Svc!ListEffect(v, cs).v, Svc!ListEffect(v, cs).cs)
<1> DEFINE seq == v.seq + 1
           w == [v EXCEPT !.seq = seq, !.fetching = TRUE]
           call == Svc!ListCall(seq)
<1>1. Svc!ListEffect(v, cs).v = w /\ Svc!ListEffect(v, cs).cs = cs \cup {call}
  BY DEF Svc!ListEffect
<1>2. seq \in Nat /\ call \in ListCalls /\ call.kind = "list"
  BY DEF ServiceViews, Svc!ListCall, ListCalls
<1>3. w \in ServiceViews /\ w.dashSeq = v.dashSeq /\ w.seq = seq
  <2> HIDE DEF seq
  <2> QED
    BY Zenon, <1>2 DEF ServiceViews
<1> HIDE DEF w, seq
<1> QED
  BY <1>1, <1>2, <1>3 DEF ChainsInOrder, ListComes, DashOf

LEMMA ServicesStarts == Svc!Init => ServicesInv
<1> SUFFICES ASSUME Svc!Init PROVE ServicesInv
  OBVIOUS
<1>1. PICK svc \in Services \cup {None} :
       LET v == [page |-> "services", active |-> TRUE, win |-> 1, rows |-> {},
                 status |-> "loading", selected |-> svc, url |-> svc, kpis |-> None, causes |-> None,
                 ops |-> None, dash |-> "idle", seq |-> 0, dashSeq |-> 0, fetching |-> FALSE]
           a == Svc!ListEffect(v, {})
           b == Svc!DashEffect(a.v, a.cs)
       IN  view = b.v /\ calls = b.cs
  BY Zenon DEF Svc!Init
<1> DEFINE v == [page |-> "services", active |-> TRUE, win |-> 1, rows |-> {},
                 status |-> "loading", selected |-> svc, url |-> svc, kpis |-> None, causes |-> None,
                 ops |-> None, dash |-> "idle", seq |-> 0, dashSeq |-> 0, fetching |-> FALSE]
           a == Svc!ListEffect(v, {})
<1>2. v \in ServiceViews
  BY DEF ServiceViews, Asked
<1>3. ChainsInOrder(v, {})
  BY DEF ChainsInOrder, DashOf
<1> HIDE DEF v
<1>4. a.v \in ServiceViews /\ a.cs \in SUBSET (ListCalls \cup DashCalls) /\ ChainsInOrder(a.v, a.cs) /\ ListComes(a.v, a.cs)
  BY <1>2, <1>3, ListEffects
<1>5. view = Svc!DashEffect(a.v, a.cs).v /\ calls = Svc!DashEffect(a.v, a.cs).cs
  BY <1>1 DEF v
<1> HIDE DEF a
<1> QED
  BY <1>4, <1>5, DashEffects DEF ServicesInv

\* Rendering a new state w, after a step that took nothing but list calls from the calls.
LEMMA ServicesRenders ==
  ASSUME ServicesInv, NEW w \in ServiceViews, NEW cs \in SUBSET calls, DashOf(cs) = DashOf(calls), Svc!Render(w, cs),
         w.kpis = view.kpis, w.causes = view.causes, w.ops = view.ops, w.dash = view.dash,
         w.dashSeq = view.dashSeq, ListComes(w, cs)
  PROVE  ServicesInv'
<1> DEFINE slid == w.win # view.win
           a == IF slid THEN Svc!ListEffect(w, cs) ELSE [v |-> w, cs |-> cs]
           b == IF slid \/ w.selected # view.selected THEN Svc!DashEffect(a.v, a.cs) ELSE a
<1>1. view' = b.v /\ calls' = b.cs
  BY DEF Svc!Render
<1>2. cs \in SUBSET (ListCalls \cup DashCalls) /\ ChainsInOrder(w, cs)
  BY DEF ServicesInv, ServicesState, ChainsInOrder
<1>3. a.v \in ServiceViews /\ a.cs \in SUBSET (ListCalls \cup DashCalls) /\ ChainsInOrder(a.v, a.cs) /\ ListComes(a.v, a.cs)
  <2>1. CASE slid
    BY <1>2, <2>1, ListEffects
  <2>2. CASE ~slid
    BY <1>2, <2>2
  <2> QED
    BY <2>1, <2>2
<1>4. CASE slid \/ w.selected # view.selected
  <2>1. view' = Svc!DashEffect(a.v, a.cs).v /\ calls' = Svc!DashEffect(a.v, a.cs).cs
    BY <1>1, <1>4
  <2> HIDE DEF a
  <2> QED
    BY <1>3, <2>1, DashEffects DEF ServicesInv
<1>5. CASE ~(slid \/ w.selected # view.selected)
  <2>1. view' = w /\ calls' = cs /\ OnScreen(w) = OnScreen(view) /\ w.selected = view.selected
    BY <1>1, <1>5 DEF OnScreen
  <2>2. ChainIsCurrent(w, cs) /\ DashComes(w, cs) /\ DashIsCurrent(w, cs)
    BY <2>1 DEF ServicesInv, ServicesState, ChainIsCurrent, DashComes, DashIsCurrent, LiveAt
  <2> QED
    BY <1>2, <2>1, <2>2 DEF ServicesInv, ServicesState
<1> QED
  BY <1>4, <1>5

\* slide changes the window only, and not while a list is being fetched.
LEMMA ServicesSlide ==
  view \in ServiceViews =>
    /\ Svc!Slid(view) \in ServiceViews
    /\ \A f \in {"kpis", "causes", "ops", "dash", "dashSeq", "seq", "fetching", "status"} : Svc!Slid(view)[f] = view[f]
<1> SUFFICES ASSUME view \in ServiceViews
             PROVE  /\ Svc!Slid(view) \in ServiceViews
                    /\ \A f \in {"kpis", "causes", "ops", "dash", "dashSeq", "seq", "fetching", "status"} :
                         Svc!Slid(view)[f] = view[f]
  OBVIOUS
<1> DEFINE win == view.win + 1
<1>1. win \in Nat /\ (Svc!Slid(view) = view \/ Svc!Slid(view) = [view EXCEPT !.win = win])
  BY DEF Svc!Slid, ServiceViews
<1> HIDE DEF win
<1>2. /\ [view EXCEPT !.win = win] \in ServiceViews
      /\ \A f \in {"kpis", "causes", "ops", "dash", "dashSeq", "seq", "fetching", "status"} :
           [view EXCEPT !.win = win][f] = view[f]
  BY <1>1 DEF ServiceViews
<1> QED
  BY Zenon, <1>1, <1>2

LEMMA ServicesUser ==
  ASSUME ServicesInv,
         \/ Svc!Poll \/ Svc!ApplyRange \/ Svc!GoElsewhere \/ Svc!Enter
         \/ Svc!OpenTraces \/ Svc!OpenCause \/ Svc!OpenOp
         \/ \E svc \in Services : Svc!Focus(svc) \/ Svc!Select(svc) \/ Svc!OpenNeighbor(svc)
  PROVE  ServicesInv'
<1>0. view \in ServiceViews /\ calls \in SUBSET calls /\ ListComes(view, calls)
  BY DEF ServicesInv, ServicesState
\* What the user and the timer do to the state before it is rendered.
<1>1. ASSUME NEW w \in ServiceViews, Svc!Render(w, calls),
             w.kpis = view.kpis, w.causes = view.causes, w.ops = view.ops, w.dash = view.dash, w.dashSeq = view.dashSeq,
             w.seq = view.seq, w.fetching = view.fetching, w.status = view.status
      PROVE  ServicesInv'
  <2>1. ListComes(w, calls)
    BY <1>0, <1>1 DEF ListComes
  <2> QED
    BY <1>0, <1>1, <2>1, ServicesRenders
<1> DEFINE v == Svc!Slid(view)
<1>2. /\ v \in ServiceViews /\ v.kpis = view.kpis /\ v.causes = view.causes /\ v.ops = view.ops /\ v.dash = view.dash
      /\ v.dashSeq = view.dashSeq /\ v.seq = view.seq /\ v.fetching = view.fetching /\ v.status = view.status
  BY <1>0, ServicesSlide
<1> HIDE DEF v
<1>3. CASE Svc!Poll
  BY <1>1, <1>2, <1>3 DEF Svc!Poll, v
<1>4. CASE Svc!ApplyRange
  <2> DEFINE win == view.win + 1
             w == [view EXCEPT !.win = win]
  <2>1. win \in Nat /\ Svc!Render(w, calls)
    BY <1>0, <1>4 DEF Svc!ApplyRange, ServiceViews
  <2> HIDE DEF win
  <2>2. /\ w \in ServiceViews /\ w.kpis = view.kpis /\ w.causes = view.causes /\ w.ops = view.ops /\ w.dash = view.dash
        /\ w.dashSeq = view.dashSeq /\ w.seq = view.seq /\ w.fetching = view.fetching /\ w.status = view.status
    BY <1>0, <2>1 DEF ServiceViews
  <2> HIDE DEF w
  <2> QED
    BY <1>1, <2>1, <2>2
<1>5. ASSUME NEW url \in Services \cup {None}, Svc!Leave(url) PROVE ServicesInv'
  <2>1. view' = [view EXCEPT !.active = FALSE, !.url = url] /\ calls' = calls
    BY <1>5 DEF Svc!Leave
  <2>2. /\ view' \in ServiceViews /\ view'.kpis = view.kpis /\ view'.causes = view.causes /\ view'.ops = view.ops
        /\ view'.dash = view.dash /\ view'.dashSeq = view.dashSeq /\ view'.seq = view.seq
        /\ view'.fetching = view.fetching /\ view'.status = view.status /\ view'.selected = view.selected
        /\ view'.win = view.win
    BY Zenon, <1>0, <2>1 DEF ServiceViews
  <2>3. OnScreen(view') = OnScreen(view)
    BY <2>2 DEF OnScreen
  <2> QED
    BY <2>1, <2>2, <2>3
       DEF ServicesInv, ServicesState, ChainsInOrder, ChainIsCurrent, ListComes, DashComes, DashIsCurrent
<1>6. CASE Svc!GoElsewhere
  BY <1>5, <1>6 DEF Svc!GoElsewhere
<1>7. CASE Svc!Enter
  <2> DEFINE w == [v EXCEPT !.active = TRUE]
  <2>1. Svc!Render(w, calls)
    BY <1>7 DEF Svc!Enter, v
  <2>2. /\ w \in ServiceViews /\ w.kpis = v.kpis /\ w.causes = v.causes /\ w.ops = v.ops /\ w.dash = v.dash
        /\ w.dashSeq = v.dashSeq /\ w.seq = v.seq /\ w.fetching = v.fetching /\ w.status = v.status
    BY Zenon, <1>2 DEF ServiceViews
  <2> HIDE DEF w
  <2> QED
    BY <1>1, <1>2, <2>1, <2>2
<1>8. ASSUME NEW svc \in Services, Svc!Focus(svc) PROVE ServicesInv'
  <2> DEFINE w == [v EXCEPT !.active = TRUE, !.selected = svc, !.url = svc]
  <2>1. Svc!Render(w, calls)
    BY Zenon, <1>8 DEF Svc!Focus, v
  <2>2. /\ w \in ServiceViews /\ w.kpis = v.kpis /\ w.causes = v.causes /\ w.ops = v.ops /\ w.dash = v.dash
        /\ w.dashSeq = v.dashSeq /\ w.seq = v.seq /\ w.fetching = v.fetching /\ w.status = v.status
    BY Zenon, <1>2 DEF ServiceViews
  <2> HIDE DEF w
  <2> QED
    BY <1>1, <1>2, <2>1, <2>2
<1>9. ASSUME NEW svc \in Services, Svc!Select(svc) \/ Svc!OpenNeighbor(svc) PROVE ServicesInv'
  <2> DEFINE w(url) == [view EXCEPT !.selected = svc, !.url = url]
  <2>1. view = [view EXCEPT !.url = view.url] /\ view.url \in Services \cup {None}
    BY <1>0 DEF ServiceViews
  <2>2. PICK url \in Services \cup {None} : Svc!Render(w(url), calls)
    <3>1. [view EXCEPT !.selected = svc] = w(view.url)
      BY Zenon, <1>0 DEF ServiceViews
    <3> QED
      BY Zenon, <1>9, <2>1, <3>1 DEF Svc!Select, Svc!OpenNeighbor
  <2>3. /\ w(url) \in ServiceViews /\ w(url).kpis = view.kpis /\ w(url).causes = view.causes /\ w(url).ops = view.ops
        /\ w(url).dash = view.dash /\ w(url).dashSeq = view.dashSeq /\ w(url).seq = view.seq
        /\ w(url).fetching = view.fetching /\ w(url).status = view.status
    BY Zenon, <1>0 DEF ServiceViews
  <2> HIDE DEF w
  <2> QED
    BY <1>1, <2>2, <2>3
<1>10. CASE Svc!OpenTraces \/ Svc!OpenCause \/ Svc!OpenOp
  <2>1. view.selected \in Services \cup {None}
    BY <1>0 DEF ServiceViews
  <2> QED
    BY <1>5, <1>10, <2>1 DEF Svc!OpenTraces, Svc!OpenCause, Svc!OpenOp
<1> QED
  BY <1>3, <1>4, <1>6, <1>7, <1>8, <1>9, <1>10

LEMMA ServicesList ==
  ASSUME ServicesInv, NEW c \in calls, c.kind = "list",
         Svc!ListFails(c) \/ \E found \in SUBSET Services : Svc!ListAnswered(c, found)
  PROVE  ServicesInv'
<1> DEFINE cs == calls \ {c}
<1>0. /\ view \in ServiceViews /\ cs \in SUBSET calls /\ DashOf(cs) = DashOf(calls) /\ ListComes(view, calls)
      /\ calls \subseteq ListCalls \cup DashCalls
  BY DEF ServicesInv, ServicesState, DashOf
<1> HIDE DEF cs
\* A failure, or an answer that is not the latest list's, renders nothing that the effects depend on.
<1>1. ASSUME calls' = cs, view' \in ServiceViews, ListComes(view', cs),
             view'.kpis = view.kpis, view'.causes = view.causes, view'.ops = view.ops, view'.dash = view.dash,
             view'.dashSeq = view.dashSeq, view'.selected = view.selected, view'.win = view.win
      PROVE  ServicesInv'
  <2>1. OnScreen(view') = OnScreen(view)
    BY <1>1 DEF OnScreen
  <2> QED
    BY <1>0, <1>1, <2>1
       DEF ServicesInv, ServicesState, ChainsInOrder, ChainIsCurrent, ListComes, DashComes, DashIsCurrent, LiveAt
<1>2. ASSUME view' = view, calls' = cs, c.n # view.seq PROVE ServicesInv'
  <2>1. Svc!ListCall(view.seq) # c
    BY <1>2 DEF Svc!ListCall
  <2>2. ListComes(view, cs)
    BY <1>0, <2>1 DEF ListComes, cs
  <2> QED
    BY <1>0, <1>1, <1>2, <2>2
<1>3. CASE Svc!ListFails(c) /\ c.n = view.seq
  <2>1. view' = [view EXCEPT !.rows = {}, !.status = "error", !.fetching = FALSE] /\ calls' = cs
    BY <1>3 DEF Svc!ListFails, cs
  <2>2. /\ view' \in ServiceViews /\ view'.status = "error" /\ ~view'.fetching
        /\ view'.kpis = view.kpis /\ view'.causes = view.causes /\ view'.ops = view.ops /\ view'.dash = view.dash
        /\ view'.dashSeq = view.dashSeq /\ view'.selected = view.selected /\ view'.win = view.win
    BY Zenon, <1>0, <2>1 DEF ServiceViews
  <2> QED
    BY <1>1, <2>1, <2>2 DEF ListComes
<1>4. ASSUME NEW found \in SUBSET Services, Svc!ListAnswered(c, found), c.n = view.seq PROVE ServicesInv'
  <2> DEFINE s == Svc!Reselected(view, found)
             w == [view EXCEPT !.rows = found, !.status = "ok", !.fetching = FALSE, !.selected = s]
  <2>1. Svc!Render(w, cs)
    BY Zenon, <1>4 DEF Svc!ListAnswered, cs
  <2>2. s \in Services \cup {None}
    BY DEF Svc!Reselected
  <2> HIDE DEF s
  <2>3. /\ w \in ServiceViews /\ w.status = "ok" /\ ~w.fetching /\ w.kpis = view.kpis /\ w.causes = view.causes
        /\ w.ops = view.ops /\ w.dash = view.dash /\ w.dashSeq = view.dashSeq
    BY Zenon, <1>0, <2>2 DEF ServiceViews
  <2> HIDE DEF w
  <2>4. ListComes(w, cs)
    BY <2>3 DEF ListComes
  <2> QED
    BY <1>0, <2>1, <2>3, <2>4, ServicesRenders
<1> QED
  BY Zenon, <1>2, <1>3, <1>4 DEF Svc!ListFails, Svc!ListAnswered, cs

\* How a chain may end: one that was aborted fails, no other is taken for aborted.
LEMMA ChainEnds ==
  ASSUME ServicesInv, NEW c \in DashOf(calls), NEW late \in BOOLEAN, NEW end \in Svc!EndOf(c.phase, c.doomed, late)
  PROVE  end # "aborted" /\ (c.doomed => end # "ok")
<1>1. c.phase \in {"head", "body"} /\ c.doomed \in BOOLEAN /\ (c.doomed => c.phase = "body")
  BY DEF ServicesInv, ServicesState, ChainsInOrder, DashOf, ListCalls, DashCalls
<1> QED
  BY <1>1 DEF Svc!EndOf

LEMMA ServicesChain ==
  ASSUME ServicesInv, NEW c \in calls, c.kind = "dash",
         \/ Svc!HeadArrives(c)
         \/ \E late \in BOOLEAN : \E end \in Svc!EndOf(c.phase, c.doomed, late) :
              Svc!MetricsEnd(c, end) \/ Svc!CausesEnd(c, end) \/ Svc!OperationsEnd(c, end)
  PROVE  ServicesInv'
<1>0. /\ view \in ServiceViews /\ c \in DashOf(calls) /\ c \in DashCalls /\ calls \subseteq ListCalls \cup DashCalls
      /\ ChainsInOrder(view, calls) /\ ChainIsCurrent(view, calls) /\ ListComes(view, calls)
      /\ DashComes(view, calls) /\ DashIsCurrent(view, calls)
  BY DEF ServicesInv, ServicesState, DashOf, ListCalls
\* The list is not touched by what happens to a chain.
<1>1. ASSUME NEW d, calls' = calls \ {c} \/ calls' = (calls \ {c}) \cup {d}, view'.fetching = view.fetching,
             view'.status = view.status, view'.seq = view.seq
      PROVE  ListComes(view', calls')
  <2>1. Svc!ListCall(view.seq) # c
    BY DEF Svc!ListCall
  <2> QED
    BY <1>0, <1>1, <2>1 DEF ListComes
\* The chain ends.
<1>2. ASSUME calls' = calls \ {c}
      PROVE  /\ calls' \subseteq ListCalls \cup DashCalls /\ DashOf(calls') = DashOf(calls) \ {c}
             /\ ChainsInOrder(view, calls') /\ ChainIsCurrent(view, calls')
  <2>1. DashOf(calls') = DashOf(calls) \ {c}
    BY <1>2 DEF DashOf
  <2> QED
    BY Zenon, <1>0, <1>2, <2>1 DEF ChainsInOrder, ChainIsCurrent
\* The chain goes on as d.
<1>3. ASSUME NEW d \in DashCalls, calls' = (calls \ {c}) \cup {d}, d.n = c.n, d.of = c.of, Live(d) <=> Live(c),
             d.doomed => d.stage # "stray" /\ d.phase = "body"
      PROVE  /\ calls' \subseteq ListCalls \cup DashCalls
             /\ DashOf(calls') = (DashOf(calls) \ {c}) \cup {d}
             /\ ChainsInOrder(view, calls') /\ ChainIsCurrent(view, calls')
  <2>1. d.kind = "dash"
    BY DEF DashCalls
  <2>2. DashOf(calls') = (DashOf(calls) \ {c}) \cup {d}
    BY <1>3, <2>1 DEF DashOf
  <2> QED
    BY Zenon, <1>0, <1>3, <2>2 DEF ChainsInOrder, ChainIsCurrent
\* A stage that the selection still waits for is that of its live chain.
<1>4. ASSUME NEW stages \in SUBSET {"metrics", "causes", "operations"}, LiveAt(calls, stages)
      PROVE  \E d \in DashOf(calls) : Live(d) /\ d.stage \in stages /\ (Live(c) => d = c)
  BY <1>0, <1>4 DEF LiveAt, Live, ChainIsCurrent
<1>5. view.selected # None /\ c.n = view.dashSeq => Live(c)
  BY <1>0 DEF ChainIsCurrent
<1>6. Live(c) => c.n = view.dashSeq /\ c.of = OnScreen(view)
  BY <1>0 DEF ChainIsCurrent
<1>7. c.doomed => c.phase = "body" /\ c.stage # "stray"
  BY <1>0 DEF ChainsInOrder
\* A chain that another has replaced.
<1>8. ASSUME view' = view, calls' = calls \ {c}, c.n # view.dashSeq PROVE ServicesInv'
  <2>1. /\ ChainsInOrder(view, calls') /\ ChainIsCurrent(view, calls') /\ calls' \subseteq ListCalls \cup DashCalls
        /\ DashOf(calls') = DashOf(calls) \ {c}
    BY <1>2, <1>8
  <2>2. ~Live(c)
    BY <1>6, <1>8
  <2>3. ASSUME NEW stages \in SUBSET {"metrics", "causes", "operations"}, LiveAt(calls, stages)
        PROVE  LiveAt(calls', stages)
    BY <1>4, <2>1, <2>2, <2>3 DEF LiveAt, Live
  <2>4. DashComes(view, calls') /\ DashIsCurrent(view, calls')
    BY <1>0, <2>3 DEF DashComes, DashIsCurrent
  <2> QED
    BY <1>0, <1>1, <1>8, <2>1, <2>4 DEF ServicesInv, ServicesState
<1>9. CASE Svc!HeadArrives(c)
  <2> DEFINE d == [c EXCEPT !.phase = "body"]
  <2>1. view' = view /\ calls' = (calls \ {c}) \cup {d} /\ c.phase = "head"
    BY <1>9 DEF Svc!HeadArrives
  <2>2. d \in DashCalls /\ d.n = c.n /\ d.doomed = c.doomed /\ d.of = c.of /\ d.stage = c.stage /\ (Live(d) <=> Live(c))
    BY <1>0 DEF DashCalls, Live
  <2>3. ~c.doomed
    BY <1>7, <2>1
  <2> HIDE DEF d
  <2>4. /\ ChainsInOrder(view, calls') /\ ChainIsCurrent(view, calls') /\ calls' \subseteq ListCalls \cup DashCalls
        /\ DashOf(calls') = (DashOf(calls) \ {c}) \cup {d}
    BY <1>3, <2>1, <2>2, <2>3
  <2>5. ASSUME NEW stages \in SUBSET {"metrics", "causes", "operations"}, LiveAt(calls, stages)
        PROVE  LiveAt(calls', stages)
    BY Zenon, <2>2, <2>4, <2>5 DEF LiveAt
  <2>6. DashComes(view, calls') /\ DashIsCurrent(view, calls')
    BY <1>0, <2>5 DEF DashComes, DashIsCurrent
  <2> QED
    BY <1>0, <1>1, <2>1, <2>4, <2>6 DEF ServicesInv, ServicesState
\* An answer to the chain that counts as the latest.
<1>10. ASSUME NEW end, Svc!MetricsEnd(c, end), end # "aborted", c.doomed => end # "ok" PROVE ServicesInv'
  <2>0. c.stage = "metrics"
    BY <1>10 DEF Svc!MetricsEnd
  <2>1. CASE c.n # view.dashSeq
    BY <1>8, <1>10, <2>1 DEF Svc!MetricsEnd
  <2>2. CASE c.n = view.dashSeq /\ end = "ok"
    <3> DEFINE d == [c EXCEPT !.stage = "causes", !.phase = "head", !.doomed = FALSE]
               w == [view EXCEPT !.kpis = c.of, !.dash = "ok"]
    <3>1. view' = w /\ calls' = (calls \ {c}) \cup {d} /\ ~c.doomed
      BY <1>10, <2>2 DEF Svc!MetricsEnd, Svc!NextStage
    <3>2. d \in DashCalls /\ d.n = c.n /\ ~d.doomed /\ d.of = c.of /\ d.stage = "causes"
      BY Zenon, <1>0 DEF DashCalls
    <3> HIDE DEF d
    <3>3. Live(c) /\ Live(d) /\ c.of = OnScreen(view) /\ c.of \in Asked
      BY <1>0, <1>6, <2>0, <3>1, <3>2 DEF Live, DashCalls, Asked
    <3>4. /\ w \in ServiceViews /\ w.kpis = c.of /\ w.dash = "ok" /\ w.selected = view.selected
          /\ w.win = view.win /\ w.dashSeq = view.dashSeq /\ w.seq = view.seq
          /\ w.fetching = view.fetching /\ w.status = view.status
      BY Zenon, <1>0, <3>3 DEF ServiceViews
    <3> HIDE DEF w
    <3>5. /\ ChainsInOrder(view, calls') /\ ChainIsCurrent(view, calls') /\ calls' \subseteq ListCalls \cup DashCalls
          /\ DashOf(calls') = (DashOf(calls) \ {c}) \cup {d}
      BY <1>3, <3>1, <3>2, <3>3
    <3>6. ChainsInOrder(w, calls') /\ ChainIsCurrent(w, calls') /\ OnScreen(w) = c.of
      BY Zenon, <3>3, <3>4, <3>5 DEF ChainsInOrder, ChainIsCurrent, OnScreen
    <3>7. DashIsCurrent(w, calls')
      BY <3>2, <3>4, <3>5, <3>6 DEF DashIsCurrent, LiveAt
    <3>8. DashComes(w, calls') /\ ListComes(w, calls')
      BY <1>1, <3>1, <3>4 DEF DashComes
    <3> QED
      BY <3>1, <3>4, <3>5, <3>6, <3>7, <3>8 DEF ServicesInv, ServicesState
  <2>3. CASE c.n = view.dashSeq /\ end # "ok"
    <3> DEFINE w == [view EXCEPT !.kpis = None, !.causes = None, !.ops = None, !.dash = "error"]
    <3>1. view' = w /\ calls' = calls \ {c}
      BY <1>10, <2>3 DEF Svc!MetricsEnd
    <3>2. /\ w \in ServiceViews /\ w.dash = "error" /\ w.selected = view.selected
          /\ w.win = view.win /\ w.dashSeq = view.dashSeq /\ w.seq = view.seq
          /\ w.fetching = view.fetching /\ w.status = view.status
      <4>1. None \in Asked
        BY DEF Asked
      <4> QED
        BY Zenon, <1>0, <4>1 DEF ServiceViews
    <3> HIDE DEF w
    <3>3. calls' \subseteq ListCalls \cup DashCalls /\ ChainsInOrder(view, calls') /\ ChainIsCurrent(view, calls')
      BY <1>2, <3>1
    <3>4. ChainsInOrder(w, calls') /\ ChainIsCurrent(w, calls')
      BY Zenon, <3>2, <3>3 DEF ChainsInOrder, ChainIsCurrent, OnScreen
    <3>5. DashComes(w, calls') /\ DashIsCurrent(w, calls') /\ ListComes(w, calls')
      BY <1>1, <3>1, <3>2 DEF DashComes, DashIsCurrent
    <3> QED
      BY <3>1, <3>2, <3>3, <3>4, <3>5 DEF ServicesInv, ServicesState
  <2> QED
    BY <2>1, <2>2, <2>3
\* The causes of an aborted chain come when nothing is selected.
<1>11. ASSUME NEW end, Svc!CausesEnd(c, end), end # "aborted" PROVE ServicesInv'
  <2>0. c.stage = "causes"
    BY <1>11 DEF Svc!CausesEnd
  <2>1. CASE c.n # view.dashSeq
    BY <1>8, <1>11, <2>1 DEF Svc!CausesEnd
  <2>2. CASE c.n = view.dashSeq
    <3> DEFINE stage == Svc!AfterCauses(c)
               d == [c EXCEPT !.stage = stage, !.phase = "head", !.doomed = FALSE]
               known == IF end = "ok" THEN c.of ELSE None
               w == [view EXCEPT !.causes = known]
    <3>1. view' = w /\ calls' = (calls \ {c}) \cup {d}
      BY <1>11, <2>2 DEF Svc!CausesEnd, Svc!NextStage
    <3>2. stage \in {"operations", "stray"} /\ (stage = "operations" <=> ~c.doomed)
      BY DEF Svc!AfterCauses
    <3> HIDE DEF stage
    <3>3. d \in DashCalls /\ d.n = c.n /\ ~d.doomed /\ d.of = c.of /\ d.stage = stage
      BY Zenon, <1>0, <3>2 DEF DashCalls
    <3> HIDE DEF d
    <3>4. Live(d) <=> Live(c)
      BY <2>0, <3>2, <3>3 DEF Live
    <3>5. known \in Asked /\ (Live(c) => known \in {OnScreen(view), None})
      BY <1>0, <1>6 DEF DashCalls, Asked
    <3> HIDE DEF known
    <3>6. /\ w \in ServiceViews /\ w.kpis = view.kpis /\ w.causes = known /\ w.ops = view.ops /\ w.dash = view.dash
          /\ w.selected = view.selected /\ w.win = view.win /\ w.dashSeq = view.dashSeq /\ w.seq = view.seq
          /\ w.fetching = view.fetching /\ w.status = view.status
      BY Zenon, <1>0, <3>5 DEF ServiceViews
    <3> HIDE DEF w
    <3>7. /\ ChainsInOrder(view, calls') /\ ChainIsCurrent(view, calls') /\ calls' \subseteq ListCalls \cup DashCalls
          /\ DashOf(calls') = (DashOf(calls) \ {c}) \cup {d}
      BY <1>3, <3>1, <3>3, <3>4
    <3>8. ChainsInOrder(w, calls') /\ ChainIsCurrent(w, calls') /\ OnScreen(w) = OnScreen(view)
      BY Zenon, <3>6, <3>7 DEF ChainsInOrder, ChainIsCurrent, OnScreen
    \* Numbers that wait for the metrics would have another live chain.
    <3>9. LiveAt(calls, {"metrics"}) => LiveAt(calls', {"metrics"})
      <4>1. SUFFICES ASSUME LiveAt(calls, {"metrics"}) PROVE LiveAt(calls', {"metrics"})
        OBVIOUS
      <4>2. PICK e \in DashOf(calls) : ~e.doomed /\ e.stage = "metrics"
        BY <4>1 DEF LiveAt
      <4>3. e # c
        BY <2>0, <4>2
      <4> QED
        BY <3>7, <4>2, <4>3 DEF LiveAt
    <3>10. DashIsCurrent(w, calls')
      <4>1. SUFFICES ASSUME view.dash # "error", view.selected # None PROVE DashIsCurrent(w, calls')
        BY <3>6 DEF DashIsCurrent
      <4>2. Live(c) /\ d.stage = "operations" /\ known \in {OnScreen(view), None}
        BY <1>5, <2>2, <3>2, <3>3, <3>5, <4>1 DEF Live
      <4>3. LiveAt(calls', {"metrics", "causes", "operations"})
        BY <3>3, <3>7, <4>2 DEF LiveAt
      <4> QED
        BY <1>0, <3>6, <3>8, <3>9, <4>1, <4>2, <4>3 DEF DashIsCurrent
    <3>11. DashComes(w, calls') /\ ListComes(w, calls')
      BY <1>0, <1>1, <3>1, <3>6, <3>9 DEF DashComes
    <3> QED
      BY <3>1, <3>6, <3>7, <3>8, <3>10, <3>11 DEF ServicesInv, ServicesState
  <2> QED
    BY <2>1, <2>2
<1>12. ASSUME NEW end, Svc!OperationsEnd(c, end), end # "aborted" PROVE ServicesInv'
  <2>0. c.stage \in {"operations", "stray"}
    BY <1>12 DEF Svc!OperationsEnd
  <2>1. CASE c.n # view.dashSeq
    BY <1>8, <1>12, <2>1 DEF Svc!OperationsEnd
  <2>2. CASE c.n = view.dashSeq
    <3> DEFINE known == IF end = "ok" THEN c.of ELSE None
               w == [view EXCEPT !.ops = known]
    <3>1. view' = w /\ calls' = calls \ {c}
      BY <1>12, <2>2 DEF Svc!OperationsEnd
    <3>2. known \in Asked /\ (Live(c) => known \in {OnScreen(view), None})
      BY <1>0, <1>6 DEF DashCalls, Asked
    <3> HIDE DEF known
    <3>3. /\ w \in ServiceViews /\ w.kpis = view.kpis /\ w.causes = view.causes /\ w.ops = known /\ w.dash = view.dash
          /\ w.selected = view.selected /\ w.win = view.win /\ w.dashSeq = view.dashSeq /\ w.seq = view.seq
          /\ w.fetching = view.fetching /\ w.status = view.status
      BY <1>0, <3>2 DEF ServiceViews
    <3> HIDE DEF w
    <3>4. /\ ChainsInOrder(view, calls') /\ ChainIsCurrent(view, calls') /\ calls' \subseteq ListCalls \cup DashCalls
          /\ DashOf(calls') = DashOf(calls) \ {c}
      BY <1>2, <3>1
    <3>5. ChainsInOrder(w, calls') /\ ChainIsCurrent(w, calls') /\ OnScreen(w) = OnScreen(view)
      BY Zenon, <3>3, <3>4 DEF ChainsInOrder, ChainIsCurrent, OnScreen
    <3>6. ASSUME NEW stages \in SUBSET {"metrics", "causes"}, LiveAt(calls, stages) PROVE LiveAt(calls', stages)
      <4>1. PICK e \in DashOf(calls) : ~e.doomed /\ e.stage \in stages
        BY <3>6 DEF LiveAt
      <4>2. e # c
        BY <2>0, <3>6, <4>1
      <4> QED
        BY <3>4, <4>1, <4>2 DEF LiveAt
    <3>7. DashIsCurrent(w, calls')
      <4>1. SUFFICES ASSUME view.dash # "error", view.selected # None PROVE DashIsCurrent(w, calls')
        BY <3>3 DEF DashIsCurrent
      <4>2. known \in {OnScreen(view), None}
        BY <1>5, <2>2, <3>2, <4>1
      <4> QED
        BY <1>0, <3>3, <3>5, <3>6, <4>1, <4>2 DEF DashIsCurrent
    <3>8. DashComes(w, calls') /\ ListComes(w, calls')
      BY <1>0, <1>1, <3>1, <3>3, <3>6 DEF DashComes
    <3> QED
      BY <3>1, <3>3, <3>4, <3>5, <3>7, <3>8 DEF ServicesInv, ServicesState
  <2> QED
    BY <2>1, <2>2
<1> QED
  BY <1>0, <1>9, <1>10, <1>11, <1>12, ChainEnds

LEMMA ServicesSteps == ServicesInv /\ Svc!Next => ServicesInv'
<1> SUFFICES ASSUME ServicesInv, Svc!Next PROVE ServicesInv'
  OBVIOUS
<1> QED
  BY ServicesUser, ServicesList, ServicesChain DEF Svc!Next

LEMMA ServicesSafe ==
  ServicesInv => Svc!ShowsTheSelection /\ Svc!NeverStuck
<1> SUFFICES ASSUME ServicesInv PROVE Svc!ShowsTheSelection /\ Svc!NeverStuck
  OBVIOUS
<1>1. ASSUME NEW stages \in SUBSET {"metrics", "causes", "operations"}, LiveAt(calls, stages)
      PROVE  Svc!Coming(stages) /\ \E c \in Svc!Chains : c.n = view.dashSeq /\ c.stage \in stages /\ ~c.doomed
  <2>1. PICK c \in DashOf(calls) : ~c.doomed /\ c.stage \in stages
    BY <1>1 DEF LiveAt
  <2>2. c.n = view.dashSeq /\ c.of = OnScreen(view)
    BY <2>1 DEF ServicesInv, ServicesState, ChainIsCurrent, Live
  <2> QED
    BY <2>1, <2>2 DEF Svc!Coming, Svc!Chains, Svc!Current, OnScreen, DashOf
<1>2. Svc!Dashboard => view.dash # "error" /\ view.selected # None
  BY DEF Svc!Dashboard, Svc!Work
<1>3. DashIsCurrent(view, calls) /\ DashComes(view, calls) /\ ListComes(view, calls)
  BY DEF ServicesInv, ServicesState
<1> QED
  BY <1>1, <1>2, <1>3 DEF Svc!ShowsTheSelection, Svc!NeverStuck, DashIsCurrent, DashComes, ListComes,
                          Svc!Current, OnScreen

-----------------------------------------------------------------------------
(* The trace page *)

SpanLogs == Traces \X Spans
Loaded == SpanLogs \cup {None}
TraceOrNone == Traces \cup {None}
TraceViews ==
  [page : {"trace"}, active : BOOLEAN, trace : TraceOrNone, loading : BOOLEAN, err : BOOLEAN, detail : TraceOrNone,
   span : Spans \cup {None}, tab : {"details", "events", "logs"}, logs : Loaded, logsErr : BOOLEAN,
   logsLoading : BOOLEAN, traceSeq : Nat, seq : Nat, status : {"idle", "searching", "ok", "error"},
   url : TraceOrNone, lost : Nat]
TraceCalls == [kind : {"open", "link"}, n : Nat, trace : Traces, phase : {"head", "body"}, doomed : BOOLEAN]
SearchCalls == [kind : {"search"}, n : Nat, phase : {"head", "body"}, doomed : BOOLEAN]
SpanLogCalls == [kind : {"logs"}, trace : Traces, span : Spans]
TracePageCalls == TraceCalls \cup SearchCalls \cup SpanLogCalls
OpenCalls(cs) == {c \in cs : c.kind \in {"open", "link"}}
LogsOf(cs) == {c \in cs : c.kind = "logs"}

\* A call for a trace is for the one opened last, unless that one is closed again.
OpenedIsAsked(v, cs) ==
  \A c \in OpenCalls(cs) : /\ c.n <= v.traceSeq
                           /\ c.n = v.traceSeq => v.trace \in {None, c.trace}
                           /\ c.doomed => c.phase = "body"

\* The trace and its span on screen.
OpenedIsShown(v) ==
  /\ v.trace # None /\ v.detail # None => v.detail = v.trace
  /\ v.span # None => v.trace # None /\ v.detail = v.trace
  /\ v.loading => v.trace # None /\ v.span = None

\* The logs of the span on screen, or their call.
LogsAreOfSpan(v, cs) ==
  /\ \A c \in LogsOf(cs) : v.span # None /\ c = Trace!LogsCall(v)
  /\ v.logsLoading => v.span # None /\ Trace!LogsCall(v) \in cs
  /\ v.span # None /\ ~v.logsLoading => v.logs \in {None, <<v.trace, v.span>>}

TraceComes(v, cs) == v.loading => v.lost = v.traceSeq \/ \E c \in OpenCalls(cs) : c.n = v.traceSeq

TraceState(v, cs) ==
  /\ v \in TraceViews /\ cs \subseteq TracePageCalls
  /\ OpenedIsAsked(v, cs) /\ OpenedIsShown(v) /\ LogsAreOfSpan(v, cs) /\ TraceComes(v, cs)

TracePageInv == TraceState(view, calls)

LEMMA TraceSafe == TracePageInv => Trace!ShowsTheSelection /\ Trace!NeverStuck
<1> SUFFICES ASSUME TracePageInv PROVE Trace!ShowsTheSelection /\ Trace!NeverStuck
  OBVIOUS
<1>1. view \in TraceViews /\ OpenedIsShown(view) /\ LogsAreOfSpan(view, calls) /\ TraceComes(view, calls)
  BY DEF TracePageInv, TraceState
<1>2. Trace!NeverStuck
  BY <1>1 DEF LogsAreOfSpan, TraceComes, OpenCalls, Trace!NeverStuck, Trace!Coming
<1>3. Trace!Shown(view) = "waterfall" => view.detail = view.trace
  BY <1>1 DEF OpenedIsShown, Trace!Shown
<1>4. ASSUME view.span # None, Trace!Inspector(view).word = ""
      PROVE  Trace!Inspector(view).of = <<view.trace, view.span>>
  <2>1. CASE view.tab # "logs"
    BY Zenon, <1>1, <1>4, <2>1 DEF OpenedIsShown, Trace!Inspector
  <2>2. CASE view.tab = "logs"
    <3>1. ~view.logsLoading /\ view.logs # None /\ Trace!Inspector(view).of = view.logs
      BY Zenon, <1>4, <2>2 DEF Trace!Inspector
    <3> QED
      BY Zenon, <1>1, <1>4, <3>1 DEF LogsAreOfSpan
  <2> QED
    BY <2>1, <2>2
<1> QED
  BY Zenon, <1>1, <1>2, <1>3, <1>4 DEF OpenedIsShown, Trace!ShowsTheSelection

\* The view when a trace is opened, and when it is closed.
LEMMA TraceOpens ==
  ASSUME NEW v \in TraceViews, NEW trace \in Traces
  PROVE  LET w == Trace!Opening(v, trace)
         IN  /\ w \in TraceViews /\ w.traceSeq = v.traceSeq + 1 /\ w.trace = trace /\ w.detail = None
             /\ w.span = None /\ ~w.logsLoading
<1>1. None \in Loaded /\ None \in TraceOrNone /\ trace \in TraceOrNone
  BY DEF Loaded, TraceOrNone
<1> DEFINE n == v.traceSeq + 1
<1>2. n \in Nat
  BY DEF TraceViews
<1> HIDE DEF n
<1>3. Trace!Opening(v, trace) =
        [v EXCEPT !.span = None, !.logs = None, !.logsErr = FALSE, !.logsLoading = FALSE, !.tab = "details",
                  !.traceSeq = n, !.trace = trace, !.loading = TRUE, !.err = FALSE, !.detail = None, !.url = trace]
  BY DEF Trace!Opening, Trace!NoInspector, TraceViews, n
<1> DEFINE w == [v EXCEPT !.span = None, !.logs = None, !.logsErr = FALSE, !.logsLoading = FALSE, !.tab = "details",
                  !.traceSeq = n, !.trace = trace, !.loading = TRUE, !.err = FALSE, !.detail = None, !.url = trace]
<1>4. w \in TraceViews /\ w.traceSeq = n /\ w.trace = trace /\ w.detail = None /\ w.span = None /\ ~w.logsLoading
  BY Zenon, <1>1, <1>2 DEF TraceViews
<1> HIDE DEF w
<1> QED
  BY <1>3, <1>4 DEF w, n

LEMMA TraceCloses ==
  ASSUME NEW v \in TraceViews
  PROVE  LET w == Trace!Closed(v)
         IN  /\ w \in TraceViews /\ w.traceSeq = v.traceSeq /\ w.trace = None /\ w.detail = None
             /\ w.span = None /\ ~w.logsLoading /\ ~w.loading
<1>1. None \in Loaded /\ None \in TraceOrNone
  BY DEF Loaded, TraceOrNone
<1>3. Trace!Closed(v) =
        [v EXCEPT !.span = None, !.logs = None, !.logsErr = FALSE, !.logsLoading = FALSE, !.tab = "details",
                  !.trace = None, !.detail = None, !.err = FALSE, !.loading = FALSE]
  BY DEF Trace!Closed, Trace!NoInspector, TraceViews
<1> DEFINE w == [v EXCEPT !.span = None, !.logs = None, !.logsErr = FALSE, !.logsLoading = FALSE, !.tab = "details",
                  !.trace = None, !.detail = None, !.err = FALSE, !.loading = FALSE]
<1>4. /\ w \in TraceViews /\ w.traceSeq = v.traceSeq /\ w.trace = None /\ w.detail = None /\ w.span = None
      /\ ~w.logsLoading /\ ~w.loading
  BY Zenon, <1>1 DEF TraceViews
<1> HIDE DEF w
<1> QED
  BY <1>3, <1>4 DEF w

\* Calls for a trace: the new one, after those that it outdates.
LEMMA TraceAsked ==
  ASSUME NEW v \in TraceViews, NEW cs \in SUBSET TracePageCalls, OpenedIsAsked(v, cs), LogsOf(cs) = {},
         NEW trace \in Traces, NEW kind \in {"open", "link"}
  PROVE  TraceState(Trace!Opening(v, trace), cs \cup {Trace!TraceCall(Trace!Opening(v, trace), kind)})
<1> DEFINE w == Trace!Opening(v, trace)
           call == Trace!TraceCall(w, kind)
<1>1. w \in TraceViews /\ w.traceSeq = v.traceSeq + 1 /\ w.trace = trace /\ w.detail = None /\ w.span = None
      /\ ~w.logsLoading
  BY TraceOpens
<1> HIDE DEF w
<1>2. w.traceSeq \in Nat /\ v.traceSeq \in Nat
  BY <1>1 DEF TraceViews
<1>3. call \in TraceCalls /\ call.n = w.traceSeq /\ call.trace = trace /\ ~call.doomed /\ call.kind = kind
  BY <1>1, <1>2 DEF Trace!TraceCall, TraceCalls
<1> HIDE DEF call
<1>4. \A c \in OpenCalls(cs) : c.n \in Nat /\ c.n <= v.traceSeq
  BY DEF OpenedIsAsked, OpenCalls, TracePageCalls, TraceCalls, SearchCalls, SpanLogCalls
<1>5. \A c \in OpenCalls(cs) : c.n <= w.traceSeq /\ c.n # w.traceSeq
  BY <1>1, <1>2, <1>4
<1>6. OpenCalls(cs \cup {call}) = OpenCalls(cs) \cup {call} /\ LogsOf(cs \cup {call}) = {}
  BY <1>3 DEF OpenCalls, LogsOf
<1>7. OpenedIsAsked(w, cs \cup {call})
  <2>1. w.traceSeq <= w.traceSeq
    BY <1>2
  <2> QED
    BY <1>1, <1>3, <1>5, <1>6, <2>1 DEF OpenedIsAsked
<1>8. OpenedIsShown(w) /\ LogsAreOfSpan(w, cs \cup {call}) /\ TraceComes(w, cs \cup {call})
  BY Zenon, <1>1, <1>3, <1>6, WebAssumption DEF OpenedIsShown, LogsAreOfSpan, TraceComes
<1>9. cs \cup {call} \subseteq TracePageCalls
  BY <1>3 DEF TracePageCalls
<1> QED
  BY <1>1, <1>7, <1>8, <1>9 DEF TraceState, w, call

LEMMA TraceStarts == Trace!Init => TracePageInv
<1> SUFFICES ASSUME NEW url \in TraceOrNone,
      LET v == [page |-> "trace", active |-> TRUE, trace |-> None, loading |-> FALSE, err |-> FALSE,
                detail |-> None, span |-> None, tab |-> "details", logs |-> None, logsErr |-> FALSE,
                logsLoading |-> FALSE, traceSeq |-> 0, seq |-> 0, status |-> "idle", url |-> url, lost |-> 0]
          w == IF url = None THEN [v EXCEPT !.seq = 1, !.status = "searching"] ELSE Trace!Opening(v, url)
      IN  view = w /\ calls = {IF url = None THEN Trace!SearchCall(w) ELSE Trace!TraceCall(w, "link")}
    PROVE TracePageInv
  BY Zenon DEF Trace!Init, TraceOrNone
<1> DEFINE v == [page |-> "trace", active |-> TRUE, trace |-> None, loading |-> FALSE, err |-> FALSE,
                 detail |-> None, span |-> None, tab |-> "details", logs |-> None, logsErr |-> FALSE,
                 logsLoading |-> FALSE, traceSeq |-> 0, seq |-> 0, status |-> "idle", url |-> url, lost |-> 0]
<1>1. v \in TraceViews
  <2>1. None \in Loaded /\ None \in TraceOrNone
    BY DEF Loaded, TraceOrNone
  <2> QED
    BY <2>1 DEF TraceViews
<1>2. CASE url # None
  <2>1. url \in Traces /\ LogsOf({}) = {} /\ OpenedIsAsked(v, {})
    BY <1>2 DEF TraceOrNone, LogsOf, OpenedIsAsked, OpenCalls
  <2>2. view = Trace!Opening(v, url) /\ calls = {} \cup {Trace!TraceCall(Trace!Opening(v, url), "link")}
    BY <1>2
  <2> HIDE DEF v
  <2>3. TraceState(Trace!Opening(v, url), {} \cup {Trace!TraceCall(Trace!Opening(v, url), "link")})
    BY Zenon, <1>1, <2>1, TraceAsked
  <2> QED
    BY Zenon, <2>2, <2>3 DEF TracePageInv
<1>3. CASE url = None
  <2> DEFINE w == [v EXCEPT !.seq = 1, !.status = "searching"]
             call == Trace!SearchCall(w)
  <2>1. view = w /\ calls = {call}
    BY <1>3
  <2>2. /\ w \in TraceViews /\ w.trace = None /\ w.span = None /\ ~w.loading /\ ~w.logsLoading
    BY Zenon, <1>1 DEF TraceViews
  <2> HIDE DEF w
  <2>3. call \in SearchCalls
    BY <2>2 DEF Trace!SearchCall, SearchCalls, TraceViews
  <2> HIDE DEF call
  <2>4. OpenCalls({call}) = {} /\ LogsOf({call}) = {}
    BY <2>3 DEF OpenCalls, LogsOf, SearchCalls
  <2>5. OpenedIsAsked(w, {call}) /\ OpenedIsShown(w) /\ LogsAreOfSpan(w, {call}) /\ TraceComes(w, {call})
    BY Zenon, <2>2, <2>4 DEF OpenedIsAsked, OpenedIsShown, LogsAreOfSpan, TraceComes
  <2> QED
    BY Zenon, <2>1, <2>2, <2>3, <2>5 DEF TracePageInv, TraceState, TracePageCalls
<1> QED
  BY <1>2, <1>3

\* The body of the effect loads the trace of the URL, or the table.
LEMMA TraceReloads ==
  ASSUME NEW v \in TraceViews, calls \subseteq TracePageCalls, OpenedIsAsked(v, calls), Trace!Reload(v)
  PROVE  TracePageInv'
<1> DEFINE cs == Trace!NotLogs
<1>1. cs \in SUBSET TracePageCalls /\ LogsOf(cs) = {} /\ OpenCalls(cs) = OpenCalls(calls)
  BY DEF Trace!NotLogs, LogsOf, OpenCalls
<1> HIDE DEF cs
<1>2. OpenedIsAsked(v, cs)
  BY <1>1 DEF OpenedIsAsked
<1>3. CASE v.url # None
  <2>1. v.url \in Traces
    BY <1>3 DEF TraceViews, TraceOrNone
  <2>2. view' = Trace!Opening(v, v.url) /\ calls' = cs \cup {Trace!TraceCall(Trace!Opening(v, v.url), "link")}
    BY <1>3 DEF Trace!Reload, cs
  <2>3. TraceState(Trace!Opening(v, v.url), cs \cup {Trace!TraceCall(Trace!Opening(v, v.url), "link")})
    BY Zenon, <1>1, <1>2, <2>1, TraceAsked
  <2> QED
    BY <2>2, <2>3 DEF TracePageInv
<1>4. CASE v.url = None
  <2> DEFINE u == Trace!Closed(v)
             n == u.seq + 1
             w == [u EXCEPT !.seq = n, !.status = "searching"]
             call == Trace!SearchCall(w)
  <2>1. /\ u \in TraceViews /\ u.traceSeq = v.traceSeq /\ u.trace = None /\ u.span = None
        /\ ~u.logsLoading /\ ~u.loading
    BY TraceCloses
  <2>2. view' = w /\ calls' = cs \cup {call}
    BY <1>4, <2>1 DEF Trace!Reload, cs, TraceViews
  <2> HIDE DEF u
  <2>3. n \in Nat
    BY <2>1 DEF TraceViews
  <2> HIDE DEF n
  <2>4. /\ w \in TraceViews /\ w.traceSeq = v.traceSeq /\ w.trace = None /\ w.span = None
        /\ ~w.logsLoading /\ ~w.loading /\ w.seq = n
    BY Zenon, <2>1, <2>3 DEF TraceViews
  <2> HIDE DEF w
  <2>5. call \in SearchCalls /\ call.kind = "search"
    BY <2>3, <2>4 DEF Trace!SearchCall, SearchCalls
  <2> HIDE DEF call
  <2>6. OpenCalls(cs \cup {call}) = OpenCalls(cs) /\ LogsOf(cs \cup {call}) = {}
    BY <1>1, <2>5 DEF OpenCalls, LogsOf
  <2>7. OpenedIsAsked(w, cs \cup {call}) /\ LogsAreOfSpan(w, cs \cup {call})
    BY Zenon, <1>2, <2>4, <2>6 DEF OpenedIsAsked, LogsAreOfSpan
  <2>8. OpenedIsShown(w) /\ TraceComes(w, cs \cup {call}) /\ cs \cup {call} \subseteq TracePageCalls
    BY <1>1, <2>4, <2>5 DEF OpenedIsShown, TraceComes, TracePageCalls
  <2> QED
    BY <2>2, <2>4, <2>7, <2>8 DEF TracePageInv, TraceState
<1> QED
  BY <1>3, <1>4

LEMMA TraceUser ==
  ASSUME TracePageInv,
         \/ Trace!Back \/ Trace!GoElsewhere \/ Trace!Return
         \/ \E t \in Traces : Trace!Open(t)
         \/ \E t \in Traces \cup {None} : Trace!FollowLink(t)
         \/ \E s \in Spans : Trace!SelectSpan(s)
         \/ \E tab \in {"details", "events", "logs"} : Trace!SetTab(tab)
  PROVE  TracePageInv'
<1>0. /\ view \in TraceViews /\ calls \in SUBSET TracePageCalls /\ OpenedIsAsked(view, calls) /\ OpenedIsShown(view)
      /\ LogsAreOfSpan(view, calls) /\ TraceComes(view, calls)
  BY DEF TracePageInv, TraceState
<1> DEFINE cs == Trace!NotLogs
<1>1. cs \in SUBSET TracePageCalls /\ LogsOf(cs) = {} /\ OpenCalls(cs) = OpenCalls(calls) /\ cs \subseteq calls
  BY <1>0 DEF Trace!NotLogs, LogsOf, OpenCalls
<1> HIDE DEF cs
<1>2. CASE Trace!Back
  <2> DEFINE u == Trace!Closed(view)
             n == u.traceSeq + 1
             w == [u EXCEPT !.traceSeq = n, !.url = None]
  <2>1. /\ u \in TraceViews /\ u.traceSeq = view.traceSeq /\ u.trace = None /\ u.span = None
        /\ ~u.logsLoading /\ ~u.loading
    BY <1>0, TraceCloses
  <2>2. view' = w /\ calls' = cs
    BY <1>2, <2>1 DEF Trace!Back, cs, TraceViews
  <2> HIDE DEF u
  <2>3. n \in Nat /\ view.traceSeq \in Nat /\ n = view.traceSeq + 1
    BY <1>0, <2>1 DEF TraceViews
  <2> HIDE DEF n
  <2>4. /\ w \in TraceViews /\ w.traceSeq = n /\ w.trace = None /\ w.span = None /\ ~w.logsLoading /\ ~w.loading
    <3>1. None \in TraceOrNone
      BY DEF TraceOrNone
    <3> QED
      BY Zenon, <2>1, <2>3, <3>1 DEF TraceViews
  <2> HIDE DEF w
  <2>5. \A c \in OpenCalls(cs) : c.n \in Nat /\ c.n <= view.traceSeq
    BY <1>0, <1>1 DEF OpenedIsAsked, OpenCalls, TracePageCalls, TraceCalls, SearchCalls, SpanLogCalls
  <2>6. \A c \in OpenCalls(cs) : c.n <= n
    BY <2>3, <2>5
  <2>7. OpenedIsAsked(w, cs)
    BY <1>0, <1>1, <2>4, <2>6 DEF OpenedIsAsked
  <2>8. OpenedIsShown(w) /\ LogsAreOfSpan(w, cs) /\ TraceComes(w, cs)
    BY <1>1, <2>4 DEF OpenedIsShown, LogsAreOfSpan, TraceComes
  <2> QED
    BY <1>1, <2>2, <2>4, <2>7, <2>8 DEF TracePageInv, TraceState
<1>3. ASSUME NEW url \in TraceOrNone, Trace!Leave(url) PROVE TracePageInv'
  <2> DEFINE silent == {c \in calls : c.kind \in {"search", "link"} /\ c.phase = "head"}
             Stopped(c) == IF c.kind \in {"search", "link"} THEN [c EXCEPT !.doomed = TRUE] ELSE c
             lost == IF \E c \in silent : c.kind = "link" THEN view.traceSeq ELSE view.lost
             w == [view EXCEPT !.active = FALSE, !.url = url, !.lost = lost]
  <2>1. view' = w /\ calls' = {Stopped(c) : c \in calls \ silent}
    BY <1>0, <1>3 DEF Trace!Leave, TraceViews
  <2>2. \A c \in calls \ silent : /\ Stopped(c) \in TracePageCalls /\ Stopped(c).kind = c.kind
                                  /\ c \in OpenCalls(calls) => /\ Stopped(c).n = c.n /\ Stopped(c).trace = c.trace
                                                               /\ Stopped(c).phase = c.phase
                                  /\ c \in OpenCalls(calls) /\ Stopped(c).doomed => c.phase = "body"
                                  /\ c \in LogsOf(calls) => Stopped(c) = c
    <3> SUFFICES ASSUME NEW c \in calls \ silent
        PROVE  /\ Stopped(c) \in TracePageCalls /\ Stopped(c).kind = c.kind
               /\ c \in OpenCalls(calls) => /\ Stopped(c).n = c.n /\ Stopped(c).trace = c.trace
                                            /\ Stopped(c).phase = c.phase
               /\ c \in OpenCalls(calls) /\ Stopped(c).doomed => c.phase = "body"
               /\ c \in LogsOf(calls) => Stopped(c) = c
      BY Zenon
    <3>1. CASE c.kind = "link"
      <4>1. c \in TraceCalls /\ c.phase # "head" /\ c \notin LogsOf(calls)
        BY <1>0, <3>1 DEF TracePageCalls, SearchCalls, SpanLogCalls, LogsOf
      <4> QED
        BY Zenon, <3>1, <4>1 DEF TracePageCalls, TraceCalls
    <3>2. CASE c.kind = "search"
      <4>1. c \in SearchCalls /\ c \notin LogsOf(calls) /\ c \notin OpenCalls(calls)
        BY <1>0, <3>2 DEF TracePageCalls, TraceCalls, SpanLogCalls, LogsOf, OpenCalls
      <4> QED
        BY Zenon, <3>2, <4>1 DEF TracePageCalls, SearchCalls
    <3>3. CASE c.kind \notin {"search", "link"}
      BY <1>0, <3>3 DEF OpenedIsAsked
    <3> QED
      BY <3>1, <3>2, <3>3
  <2>3. lost \in Nat
    BY <1>0 DEF TraceViews
  <2>4. view.loading => lost = view.traceSeq \/ \E c \in OpenCalls(calls) \ silent : c.n = view.traceSeq
    <3>1. \A c \in OpenCalls(calls) : c \in silent => c.kind = "link"
      BY DEF OpenCalls
    <3> QED
      BY <1>0, <3>1 DEF TraceComes
  <2> HIDE DEF lost
  <2>5. /\ w \in TraceViews /\ w.trace = view.trace /\ w.span = view.span /\ w.loading = view.loading
        /\ w.detail = view.detail /\ w.logs = view.logs /\ w.logsLoading = view.logsLoading
        /\ w.traceSeq = view.traceSeq /\ w.lost = lost
    BY Zenon, <1>0, <2>3 DEF TraceViews
  <2> HIDE DEF w
  <2>6. Trace!LogsCall(w) = Trace!LogsCall(view) /\ Trace!LogsCall(view).kind = "logs"
    BY <2>5 DEF Trace!LogsCall
  <2>7. Trace!LogsCall(view) \in calls => Trace!LogsCall(view) \in LogsOf(calls) /\ Trace!LogsCall(view) \notin silent
    BY <2>6 DEF LogsOf
  <2>8. LogsOf(calls') \subseteq LogsOf(calls) /\ (Trace!LogsCall(view) \in calls => Trace!LogsCall(view) \in calls')
    <3>1. \A d \in LogsOf(calls') : d \in LogsOf(calls)
      BY <2>1, <2>2, ZenonT(30) DEF LogsOf
    <3>2. Trace!LogsCall(view) \in calls => Stopped(Trace!LogsCall(view)) = Trace!LogsCall(view)
      BY Zenon, <2>2, <2>7
    <3> QED
      BY <2>1, <2>7, <3>1, <3>2
  <2> DEFINE From(d, c) == /\ d.n = c.n /\ d.trace = c.trace /\ d.phase = c.phase
                           /\ d.doomed => c.phase = "body"
  <2>9. \A d \in OpenCalls(calls') : \E c \in OpenCalls(calls) : From(d, c)
    <3> SUFFICES ASSUME NEW d \in OpenCalls(calls') PROVE \E c \in OpenCalls(calls) : From(d, c)
      OBVIOUS
    <3>1. PICK c \in calls \ silent : d = Stopped(c)
      BY <2>1 DEF OpenCalls
    <3> HIDE DEF Stopped, silent
    <3>2. d.kind = c.kind
      BY <2>2, <3>1
    <3>3. c \in OpenCalls(calls)
      BY <3>1, <3>2 DEF OpenCalls
    <3> QED
      BY <2>2, <3>1, <3>3
  <2>10. \A c \in OpenCalls(calls) \ silent : \E d \in OpenCalls(calls') : d.n = c.n
    <3> SUFFICES ASSUME NEW c \in OpenCalls(calls) \ silent PROVE \E d \in OpenCalls(calls') : d.n = c.n
      OBVIOUS
    <3>1. c \in calls \ silent /\ c \in OpenCalls(calls) /\ c.kind \in {"open", "link"}
      BY DEF OpenCalls
    <3>2. Stopped(c) \in calls' /\ Stopped(c).n = c.n /\ Stopped(c).kind = c.kind
      BY Zenon, <2>1, <2>2, <3>1
    <3> QED
      BY Zenon, <3>1, <3>2 DEF OpenCalls
  <2> HIDE DEF Stopped, silent
  <2>11. calls' \subseteq TracePageCalls
    BY <2>1, <2>2
  <2>12. OpenedIsAsked(w, calls') /\ OpenedIsShown(w)
    BY <1>0, <2>5, <2>9 DEF OpenedIsAsked, OpenedIsShown
  <2>13. LogsAreOfSpan(w, calls')
    BY <1>0, <2>5, <2>6, <2>8 DEF LogsAreOfSpan
  <2>14. TraceComes(w, calls')
    BY <2>4, <2>5, <2>10 DEF TraceComes
  <2> QED
    BY <2>1, <2>5, <2>11, <2>12, <2>13, <2>14 DEF TracePageInv, TraceState
<1>4. CASE Trace!GoElsewhere
  <2>1. None \in TraceOrNone /\ view.url \in TraceOrNone
    BY <1>0 DEF TraceOrNone, TraceViews
  <2> QED
    BY <1>3, <1>4, <2>1 DEF Trace!GoElsewhere
<1>5. ASSUME NEW v \in TraceViews, v.traceSeq = view.traceSeq, v.trace = view.trace, Trace!Reload(v) PROVE TracePageInv'
  <2>1. OpenedIsAsked(v, calls)
    BY <1>0, <1>5 DEF OpenedIsAsked
  <2> QED
    BY <1>0, <1>5, <2>1, TraceReloads
<1>6. CASE Trace!Return
  <2> DEFINE w == [view EXCEPT !.active = TRUE]
  <2>1. (view' = w /\ UNCHANGED calls) \/ Trace!Reload(w)
    BY <1>6 DEF Trace!Return
  <2>2. /\ w \in TraceViews /\ w.trace = view.trace /\ w.span = view.span /\ w.loading = view.loading
        /\ w.detail = view.detail /\ w.logs = view.logs /\ w.logsLoading = view.logsLoading
        /\ w.traceSeq = view.traceSeq /\ w.lost = view.lost
    BY Zenon, <1>0 DEF TraceViews
  <2> HIDE DEF w
  <2>3. OpenedIsAsked(w, calls) /\ OpenedIsShown(w) /\ LogsAreOfSpan(w, calls) /\ TraceComes(w, calls)
    BY <1>0, <2>2 DEF OpenedIsAsked, OpenedIsShown, LogsAreOfSpan, TraceComes, Trace!LogsCall
  <2> QED
    BY <1>0, <1>5, <2>1, <2>2, <2>3 DEF TracePageInv, TraceState
<1>7. ASSUME NEW t \in Traces \cup {None}, Trace!FollowLink(t) PROVE TracePageInv'
  <2> DEFINE w == [view EXCEPT !.active = TRUE, !.url = t]
  <2>1. Trace!Reload(w)
    BY Zenon, <1>7 DEF Trace!FollowLink
  <2>2. w \in TraceViews /\ w.trace = view.trace /\ w.traceSeq = view.traceSeq
    BY Zenon, <1>0 DEF TraceViews, TraceOrNone
  <2> HIDE DEF w
  <2> QED
    BY <1>5, <2>1, <2>2
<1>8. ASSUME NEW t \in Traces, Trace!Open(t) PROVE TracePageInv'
  <2>1. OpenedIsAsked(view, cs)
    BY <1>0, <1>1 DEF OpenedIsAsked
  <2>2. view' = Trace!Opening(view, t) /\ calls' = cs \cup {Trace!TraceCall(Trace!Opening(view, t), "open")}
    BY <1>8 DEF Trace!Open, cs
  <2>3. TraceState(Trace!Opening(view, t), cs \cup {Trace!TraceCall(Trace!Opening(view, t), "open")})
    BY Zenon, <1>0, <1>1, <2>1, TraceAsked
  <2> QED
    BY <2>2, <2>3 DEF TracePageInv
<1>9. ASSUME NEW s \in Spans, Trace!SelectSpan(s) PROVE TracePageInv'
  <2> DEFINE w == [view EXCEPT !.span = s, !.logsLoading = TRUE, !.logsErr = FALSE]
             call == Trace!LogsCall(w)
  <2>1. view' = w /\ calls' = cs \cup {call} /\ Trace!Shown(view) = "waterfall"
    BY Zenon, <1>9 DEF Trace!SelectSpan, cs
  <2>2. view.trace # None /\ ~view.loading /\ view.detail # None
    BY <2>1 DEF Trace!Shown
  <2>3. view.trace \in Traces /\ view.detail = view.trace
    BY <1>0, <2>2 DEF OpenedIsShown, TraceViews, TraceOrNone
  <2>4. /\ w \in TraceViews /\ w.trace = view.trace /\ w.span = s /\ ~w.loading
        /\ w.detail = view.detail /\ w.logsLoading /\ w.traceSeq = view.traceSeq
    BY Zenon, <1>0, <2>2 DEF TraceViews
  <2> HIDE DEF w
  <2>5. call \in SpanLogCalls /\ call.kind = "logs"
    BY <2>3, <2>4 DEF Trace!LogsCall, SpanLogCalls
  <2>6. OpenCalls(cs \cup {call}) = OpenCalls(calls) /\ LogsOf(cs \cup {call}) = {call}
    BY <1>1, <2>5 DEF OpenCalls, LogsOf
  <2>7. s # None
    BY WebAssumption
  <2>8. OpenedIsAsked(w, cs \cup {call}) /\ OpenedIsShown(w) /\ TraceComes(w, cs \cup {call})
    BY <1>0, <2>2, <2>3, <2>4, <2>6 DEF OpenedIsAsked, OpenedIsShown, TraceComes
  <2>9. LogsAreOfSpan(w, cs \cup {call})
    BY <2>4, <2>6, <2>7 DEF LogsAreOfSpan
  <2> QED
    BY <1>1, <2>1, <2>4, <2>5, <2>8, <2>9 DEF TracePageInv, TraceState, TracePageCalls
<1>10. ASSUME NEW tab \in {"details", "events", "logs"}, Trace!SetTab(tab) PROVE TracePageInv'
  <2> DEFINE w == [view EXCEPT !.tab = tab]
  <2>1. view' = w /\ UNCHANGED calls
    BY <1>10 DEF Trace!SetTab
  <2>2. /\ w \in TraceViews /\ w.trace = view.trace /\ w.span = view.span /\ w.loading = view.loading
        /\ w.detail = view.detail /\ w.logs = view.logs /\ w.logsLoading = view.logsLoading
        /\ w.traceSeq = view.traceSeq /\ w.lost = view.lost
    BY <1>0 DEF TraceViews
  <2> HIDE DEF w
  <2>3. OpenedIsAsked(w, calls) /\ OpenedIsShown(w) /\ LogsAreOfSpan(w, calls) /\ TraceComes(w, calls)
    BY <1>0, <2>2 DEF OpenedIsAsked, OpenedIsShown, LogsAreOfSpan, TraceComes, Trace!LogsCall
  <2> QED
    BY <1>0, <2>1, <2>2, <2>3 DEF TracePageInv, TraceState
<1> QED
  BY <1>2, <1>4, <1>6, <1>7, <1>8, <1>9, <1>10

LEMMA TraceAnswers ==
  ASSUME TracePageInv, NEW c \in calls,
         \/ Trace!HeadArrives(c)
         \/ \E end \in {"rows", "none", "error"} : Trace!LogsEnd(c, end)
         \/ /\ c.kind # "logs"
            /\ \E late \in BOOLEAN : \E end \in Trace!EndOf(c.phase, c.doomed, late) :
                 Trace!TraceEnds(c, end) \/ Trace!SearchEnds(c, end)
  PROVE  TracePageInv'
<1>0. /\ view \in TraceViews /\ calls \in SUBSET TracePageCalls /\ OpenedIsAsked(view, calls) /\ OpenedIsShown(view)
      /\ LogsAreOfSpan(view, calls) /\ TraceComes(view, calls) /\ c \in TracePageCalls
  BY DEF TracePageInv, TraceState
\* A call that answers nothing the view is waiting for.
<1>1. ASSUME view' = view, calls' = calls \ {c},
             view.loading => ~(c \in OpenCalls(calls) /\ c.n = view.traceSeq),
             view.logsLoading => c # Trace!LogsCall(view)
      PROVE  TracePageInv'
  <2>1. OpenCalls(calls') = OpenCalls(calls) \ {c} /\ LogsOf(calls') \subseteq LogsOf(calls)
    BY <1>1 DEF OpenCalls, LogsOf
  <2>2. OpenedIsAsked(view, calls') /\ LogsAreOfSpan(view, calls') /\ TraceComes(view, calls')
    BY Zenon, <1>0, <1>1, <2>1 DEF OpenedIsAsked, LogsAreOfSpan, TraceComes
  <2> QED
    BY <1>0, <1>1, <2>2 DEF TracePageInv, TraceState
<1>2. CASE Trace!HeadArrives(c)
  <2> DEFINE d == [c EXCEPT !.phase = "body"]
  <2>1. /\ view' = view /\ calls' = (calls \ {c}) \cup {d} /\ c.kind \in {"search", "link"}
        /\ c \in TraceCalls \cup SearchCalls
    BY <1>0, <1>2 DEF Trace!HeadArrives, TracePageCalls, SpanLogCalls
  <2>2. /\ d \in TraceCalls \cup SearchCalls /\ d.kind = c.kind /\ d.n = c.n /\ d.phase = "body"
        /\ c.kind = "link" => d.trace = c.trace
    <3>1. CASE c \in TraceCalls
      BY Zenon, <3>1 DEF TraceCalls
    <3>2. CASE c \in SearchCalls
      <4>1. c.kind = "search"
        BY <3>2 DEF SearchCalls
      <4> QED
        BY Zenon, <3>2, <4>1 DEF SearchCalls
    <3> QED
      BY <2>1, <3>1, <3>2
  <2> HIDE DEF d
  <2>3. /\ LogsOf(calls') = LogsOf(calls)
        /\ c.kind = "link" => OpenCalls(calls') = (OpenCalls(calls) \ {c}) \cup {d} /\ c \in OpenCalls(calls)
        /\ c.kind = "search" => OpenCalls(calls') = OpenCalls(calls)
    BY <2>1, <2>2 DEF OpenCalls, LogsOf
  <2>4. Trace!LogsCall(view) # c
    BY <2>1 DEF Trace!LogsCall
  <2>5. OpenedIsAsked(view, calls') /\ LogsAreOfSpan(view, calls')
    BY Zenon, <1>0, <2>1, <2>2, <2>3, <2>4 DEF OpenedIsAsked, LogsAreOfSpan
  <2>6. TraceComes(view, calls')
    BY <1>0, <2>1, <2>2, <2>3 DEF TraceComes
  <2> QED
    BY <1>0, <2>1, <2>2, <2>5, <2>6 DEF TracePageInv, TraceState, TracePageCalls
<1>3. ASSUME NEW end, Trace!SearchEnds(c, end) PROVE TracePageInv'
  <2> DEFINE status == IF end = "ok" THEN "ok" ELSE "error"
             w == [view EXCEPT !.status = status]
  <2>1. calls' = calls \ {c} /\ (view' = view \/ view' = w) /\ c.kind = "search"
    BY <1>3 DEF Trace!SearchEnds
  <2>2. /\ w \in TraceViews /\ w.trace = view.trace /\ w.span = view.span /\ w.loading = view.loading
        /\ w.detail = view.detail /\ w.logs = view.logs /\ w.logsLoading = view.logsLoading
        /\ w.traceSeq = view.traceSeq /\ w.lost = view.lost
    BY <1>0 DEF TraceViews
  <2>3. Trace!LogsCall(view) # c /\ c \notin OpenCalls(calls)
    BY <2>1 DEF Trace!LogsCall, OpenCalls
  <2> HIDE DEF w
  <2>4. OpenCalls(calls') = OpenCalls(calls) /\ LogsOf(calls') = LogsOf(calls)
    BY <2>1 DEF OpenCalls, LogsOf
  <2>5. Trace!LogsCall(w) = Trace!LogsCall(view)
    BY <2>2 DEF Trace!LogsCall
  <2>6. OpenedIsAsked(w, calls') /\ OpenedIsShown(w) /\ LogsAreOfSpan(w, calls') /\ TraceComes(w, calls')
    BY <1>0, <2>1, <2>2, <2>3, <2>4, <2>5 DEF OpenedIsAsked, OpenedIsShown, LogsAreOfSpan, TraceComes
  <2>7. calls' \subseteq TracePageCalls
    BY <1>0, <2>1
  <2> QED
    BY <1>1, <2>1, <2>2, <2>3, <2>6, <2>7 DEF TracePageInv, TraceState
<1>4. ASSUME NEW end \in {"rows", "none", "error"}, Trace!LogsEnd(c, end) PROVE TracePageInv'
  <2> DEFINE found == IF end = "rows" THEN <<c.trace, c.span>> ELSE None
             err == end = "error"
             w == [view EXCEPT !.logs = found, !.logsErr = err, !.logsLoading = FALSE]
  <2>1. calls' = calls \ {c} /\ view' = w /\ c.kind = "logs"
    BY <1>4 DEF Trace!LogsEnd
  <2>2. c \in SpanLogCalls /\ c \in LogsOf(calls)
    BY <1>0, <2>1 DEF TracePageCalls, SearchCalls, TraceCalls, LogsOf
  <2>3. found \in Loaded /\ found \in {None, <<view.trace, view.span>>}
    BY <1>0, <2>2 DEF LogsAreOfSpan, Trace!LogsCall, Loaded, SpanLogs, SpanLogCalls
  <2> HIDE DEF found
  <2>4. /\ w \in TraceViews /\ w.trace = view.trace /\ w.span = view.span /\ w.loading = view.loading
        /\ w.detail = view.detail /\ w.logs = found /\ ~w.logsLoading
        /\ w.traceSeq = view.traceSeq /\ w.lost = view.lost
    BY Zenon, <1>0, <2>3 DEF TraceViews
  <2> HIDE DEF w
  <2>5. OpenCalls(calls') = OpenCalls(calls) /\ LogsOf(calls') \subseteq LogsOf(calls)
    BY <2>1 DEF OpenCalls, LogsOf
  <2>6. Trace!LogsCall(w) = Trace!LogsCall(view)
    BY <2>4 DEF Trace!LogsCall
  <2>7. OpenedIsAsked(w, calls') /\ OpenedIsShown(w) /\ LogsAreOfSpan(w, calls') /\ TraceComes(w, calls')
    BY <1>0, <2>3, <2>4, <2>5, <2>6 DEF OpenedIsAsked, OpenedIsShown, LogsAreOfSpan, TraceComes
  <2>8. calls' \subseteq TracePageCalls
    BY <1>0, <2>1
  <2> QED
    BY <2>1, <2>4, <2>7, <2>8 DEF TracePageInv, TraceState
<1>5. ASSUME NEW late \in BOOLEAN, NEW end \in Trace!EndOf(c.phase, c.doomed, late), Trace!TraceEnds(c, end),
             c.kind \in {"open", "link"}
      PROVE  TracePageInv'
  <2>1. c \in OpenCalls(calls) /\ c \in TraceCalls /\ Trace!LogsCall(view) # c
    BY <1>0, <1>5 DEF OpenCalls, TracePageCalls, SearchCalls, SpanLogCalls, Trace!LogsCall
  <2>2. end # "aborted"
    <3>1. c.phase \in {"head", "body"} /\ c.doomed \in BOOLEAN /\ (c.doomed => c.phase = "body")
      BY <1>0, <2>1 DEF OpenedIsAsked, TraceCalls
    <3> QED
      BY <3>1 DEF Trace!EndOf
  <2>3. CASE c.n # view.traceSeq
    <3>1. view' = view /\ calls' = calls \ {c}
      BY <1>5, <2>3 DEF Trace!TraceEnds
    <3> QED
      BY <1>1, <2>1, <2>3, <3>1
  <2>4. CASE c.n = view.traceSeq
    <3> DEFINE cs == Trace!NotLogs \ {c}
               u == Trace!NoInspector(view)
               shown == IF end = "ok" THEN c.trace ELSE None
               err == IF end = "ok" THEN u.err ELSE TRUE
               w == [u EXCEPT !.detail = shown, !.err = err, !.loading = FALSE]
    <3>1. /\ cs \subseteq TracePageCalls /\ LogsOf(cs) = {} /\ OpenCalls(cs) \subseteq OpenCalls(calls)
      BY <1>0 DEF Trace!NotLogs, LogsOf, OpenCalls
    <3>2. /\ u \in TraceViews /\ u.trace = view.trace /\ u.span = None /\ ~u.logsLoading
          /\ u.traceSeq = view.traceSeq
      <4>1. None \in Loaded
        BY DEF Loaded
      <4> QED
        BY Zenon, <1>0, <4>1 DEF Trace!NoInspector, TraceViews
    <3>3. view' = w /\ calls' = cs
      <4>1. view' = IF end = "ok" THEN [u EXCEPT !.detail = c.trace, !.loading = FALSE]
                    ELSE [u EXCEPT !.detail = None, !.err = TRUE, !.loading = FALSE]
        BY <1>5, <2>2, <2>4 DEF Trace!TraceEnds
      <4>2. end = "ok" => [u EXCEPT !.detail = c.trace, !.loading = FALSE] = w
        BY Zenon, <3>2 DEF TraceViews
      <4>3. calls' = cs
        BY <1>5, <2>4 DEF Trace!TraceEnds
      <4> HIDE DEF u
      <4> QED
        BY Zenon, <4>1, <4>2, <4>3
    <3> HIDE DEF cs
    <3>4. shown \in TraceOrNone /\ (view.trace # None /\ shown # None => shown = view.trace) /\ err \in BOOLEAN
      BY Zenon, <1>0, <2>1, <2>4, <3>2 DEF OpenedIsAsked, TraceOrNone, TraceCalls, TraceViews
    <3> HIDE DEF u, shown, err
    <3>5. /\ w \in TraceViews /\ w.trace = view.trace /\ w.span = None /\ ~w.loading
          /\ w.detail = shown /\ ~w.logsLoading /\ w.traceSeq = view.traceSeq
      BY Zenon, <3>2, <3>4 DEF TraceViews
    <3> HIDE DEF w
    <3>6. OpenedIsAsked(w, cs) /\ OpenedIsShown(w) /\ LogsAreOfSpan(w, cs) /\ TraceComes(w, cs)
      BY <1>0, <3>1, <3>4, <3>5 DEF OpenedIsAsked, OpenedIsShown, LogsAreOfSpan, TraceComes
    <3> QED
      BY <3>1, <3>3, <3>5, <3>6 DEF TracePageInv, TraceState
  <2> QED
    BY <2>3, <2>4
<1> QED
  BY <1>2, <1>3, <1>4, <1>5 DEF Trace!TraceEnds

LEMMA TraceSteps == TracePageInv /\ Trace!Next => TracePageInv'
<1> SUFFICES ASSUME TracePageInv, Trace!Next PROVE TracePageInv'
  OBVIOUS
<1> QED
  BY TraceUser, TraceAnswers DEF Trace!Next

-----------------------------------------------------------------------------
(* Lists of the map *)

\* The elements of a list.
LEMMA MembersAre ==
  ASSUME NEW R, NEW seq \in Seq(R)
  PROVE  /\ \A x \in ToSet(seq) : x \in R /\ \E i \in 1..Len(seq) : x = seq[i]
         /\ \A i \in 1..Len(seq) : seq[i] \in ToSet(seq)
         /\ ToSet(seq) = {} <=> seq = <<>>
<1>1. DOMAIN seq = 1..Len(seq) /\ Len(seq) \in Nat /\ \A i \in 1..Len(seq) : seq[i] \in R
  OBVIOUS
<1>2. seq # <<>> => 1 \in 1..Len(seq)
  BY <1>1, EmptySeq
<1>3. seq = <<>> => ToSet(seq) = {}
  <2>1. SUFFICES ASSUME seq = <<>> PROVE ToSet(seq) = {}
    OBVIOUS
  <2>2. 1..Len(seq) = {}
    BY <2>1
  <2> QED
    BY <1>1, <2>2 DEF ToSet
<1>4. /\ \A x \in ToSet(seq) : x \in R /\ \E i \in 1..Len(seq) : x = seq[i]
      /\ \A i \in 1..Len(seq) : seq[i] \in ToSet(seq)
  BY <1>1 DEF ToSet
<1>5. ToSet(seq) = {} => seq = <<>>
  BY <1>2, <1>4
<1> QED
  BY <1>3, <1>4, <1>5

\* The elements of two lists, one after the other.
LEMMA MembersOfBoth ==
  ASSUME NEW R, NEW a \in Seq(R), NEW b \in Seq(R)
  PROVE  a \o b \in Seq(R) /\ ToSet(a \o b) = ToSet(a) \cup ToSet(b)
<1> DEFINE v == a \o b
<1>1. /\ v \in Seq(R) /\ Len(v) = Len(a) + Len(b) /\ Len(a) \in Nat /\ Len(b) \in Nat
      /\ \A i \in 1..(Len(a) + Len(b)) : v[i] = IF i <= Len(a) THEN a[i] ELSE b[i - Len(a)]
  BY ConcatProperties
<1> HIDE DEF v
<1>2. ASSUME NEW x \in ToSet(v) PROVE x \in ToSet(a) \cup ToSet(b)
  <2>1. PICK i \in 1..(Len(a) + Len(b)) : x = v[i]
    BY <1>1 DEF ToSet
  <2>2. CASE i <= Len(a)
    <3>1. i \in 1..Len(a) /\ x = a[i]
      BY <1>1, <2>1, <2>2
    <3> QED
      BY <3>1 DEF ToSet
  <2>3. CASE ~ (i <= Len(a))
    <3>1. i - Len(a) \in 1..Len(b) /\ x = b[i - Len(a)]
      BY <1>1, <2>1, <2>3
    <3> QED
      BY <3>1 DEF ToSet
  <2> QED
    BY <2>2, <2>3
<1>3. ASSUME NEW x \in ToSet(a) PROVE x \in ToSet(v)
  <2>1. PICK i \in 1..Len(a) : x = a[i]
    BY <1>3 DEF ToSet
  <2>2. i \in 1..(Len(a) + Len(b)) /\ i <= Len(a)
    BY <1>1
  <2>3. v[i] = x /\ i \in 1..Len(v)
    BY <1>1, <2>1, <2>2
  <2> QED
    BY <2>3 DEF ToSet
<1>4. ASSUME NEW x \in ToSet(b) PROVE x \in ToSet(v)
  <2>1. PICK i \in 1..Len(b) : x = b[i]
    BY <1>4 DEF ToSet
  <2>2. Len(a) + i \in 1..(Len(a) + Len(b)) /\ ~ (Len(a) + i <= Len(a)) /\ (Len(a) + i) - Len(a) = i
    BY <1>1
  <2>3. v[Len(a) + i] = x /\ Len(a) + i \in 1..Len(v)
    BY <1>1, <2>1, <2>2
  <2> QED
    BY <2>3 DEF ToSet
<1> QED
  BY <1>1, <1>2, <1>3, <1>4 DEF v

\* s calls t.
CallsOf(nodes, edges, s, t) ==
  \E e \in ToSet(edges) : e.from = s /\ e.to = t /\ s # t /\ t \in Names(nodes)

\* The callees of s.
LEMMA CalleesAre ==
  ASSUME NEW nodes, NEW edges \in Seq(MapEdge), NEW s
  PROVE  /\ Callees(nodes, edges, s) \in Seq(Names(nodes))
         /\ \A t : t \in ToSet(Callees(nodes, edges, s)) <=> CallsOf(nodes, edges, s, t)
<1> DEFINE T == {e \in ToSet(edges) : e.from = s /\ e.to # s /\ e.to \in Names(nodes)}
           sent == Only(edges, T)
           v == Callees(nodes, edges, s)
<1>1. sent \in Seq(MapEdge) /\ ToSet(sent) = ToSet(edges) \cap T
  BY OnlyIs
<1>2. v = [i \in DOMAIN sent |-> sent[i].to]
  BY DEF Callees
<1> HIDE DEF sent, v
<1>3. DOMAIN sent = 1..Len(sent) /\ Len(sent) \in Nat
  BY <1>1
<1>4. \A i \in 1..Len(sent) : sent[i] \in T
  BY <1>1, <1>3 DEF ToSet
<1>5. v \in [1..Len(sent) -> Names(nodes)] /\ DOMAIN v = 1..Len(sent) /\ \A i \in 1..Len(sent) : v[i] = sent[i].to
  BY <1>2, <1>3, <1>4
<1>6. v \in Seq(Names(nodes))
  BY <1>3, <1>5
<1>7. ASSUME NEW t, t \in ToSet(v) PROVE CallsOf(nodes, edges, s, t)
  <2>1. PICK i \in 1..Len(sent) : t = sent[i].to
    BY <1>5, <1>7 DEF ToSet
  <2> QED
    BY <1>4, <2>1 DEF CallsOf
<1>8. ASSUME NEW t, CallsOf(nodes, edges, s, t) PROVE t \in ToSet(v)
  <2>1. PICK e \in ToSet(edges) : e.from = s /\ e.to = t /\ s # t /\ t \in Names(nodes)
    BY <1>8 DEF CallsOf
  <2>2. e \in ToSet(sent)
    BY <1>1, <2>1
  <2>3. PICK i \in 1..Len(sent) : e = sent[i]
    BY <1>3, <2>2 DEF ToSet
  <2> QED
    BY <1>5, <2>1, <2>3 DEF ToSet
<1> QED
  BY <1>6, <1>7, <1>8 DEF v

\* The search starts from services that have a node.
LEMMA RootsAre ==
  ASSUME NEW nodes \in Seq(MapNode), NEW edges
  PROVE  Roots(nodes, edges) \in Seq(Names(nodes))
<1> DEFINE called == UNION {ToSet(Callees(nodes, edges, s)) : s \in Names(nodes)}
           roots == Only(nodes, {n \in ToSet(nodes) : n.service \notin called})
           first == IF roots = <<>> THEN nodes ELSE roots
           v == Roots(nodes, edges)
<1>1. v = [i \in DOMAIN first |-> first[i].service]
  BY DEF Roots
<1>2. roots \in Seq(MapNode) /\ ToSet(roots) \subseteq ToSet(nodes)
  BY OnlyIs
<1>3. first \in Seq(MapNode) /\ ToSet(first) \subseteq ToSet(nodes)
  BY <1>2
<1> HIDE DEF first, v
<1>4. DOMAIN first = 1..Len(first) /\ Len(first) \in Nat /\ \A i \in 1..Len(first) : first[i].service \in Names(nodes)
  <2>1. \A i \in 1..Len(first) : first[i] \in ToSet(nodes)
    BY <1>3, MembersAre
  <2> QED
    BY <1>3, <2>1 DEF Names
<1>5. v \in [1..Len(first) -> Names(nodes)]
  BY <1>1, <1>4
<1> QED
  BY <1>4, <1>5 DEF v

-----------------------------------------------------------------------------
(* Columns *)

\* The state of the search for columns, for the services V.
Columns(V) == UNION {[D -> Nat] : D \in SUBSET V}
MapState(V) == [layer : Columns(V), next : Seq(V), depth : Nat]

\* The functions among Columns.
LEMMA ColumnsAre ==
  ASSUME NEW V, NEW f
  PROVE  f \in Columns(V) <=> f \in [DOMAIN f -> Nat] /\ DOMAIN f \subseteq V
<1>1. ASSUME f \in Columns(V) PROVE f \in [DOMAIN f -> Nat] /\ DOMAIN f \subseteq V
  <2>1. PICK D \in SUBSET V : f \in [D -> Nat]
    BY <1>1 DEF Columns
  <2>2. DOMAIN f = D
    BY <2>1
  <2> QED
    BY <2>1, <2>2
<1>2. ASSUME f \in [DOMAIN f -> Nat], DOMAIN f \subseteq V PROVE f \in Columns(V)
  BY <1>2 DEF Columns
<1> QED
  BY <1>1, <1>2

\* A service off the frontier.
LEMMA PlacedIs ==
  ASSUME NEW V, NEW acc \in MapState(V), NEW s \in V, NEW outs \in Seq(V), NEW b, b = Placed(acc, s, outs)
  PROVE  /\ b \in MapState(V) /\ b.depth = acc.depth
         /\ DOMAIN b.layer = DOMAIN acc.layer \cup {s} /\ b.layer[s] = acc.depth
         /\ \A t \in DOMAIN acc.layer : t # s => b.layer[t] = acc.layer[t]
         /\ ToSet(b.next) = ToSet(acc.next) \cup {t \in ToSet(outs) : t \notin DOMAIN b.layer}
<1> DEFINE placed == DOMAIN acc.layer \cup {s}
           layer == [t \in placed |-> IF t = s THEN acc.depth ELSE acc.layer[t]]
           more == Only(outs, ToSet(outs) \ placed)
           next == acc.next \o more
<1>1. acc.layer \in Columns(V) /\ acc.next \in Seq(V) /\ acc.depth \in Nat
      /\ acc = [layer |-> acc.layer, next |-> acc.next, depth |-> acc.depth]
  BY DEF MapState
<1>2. acc.layer \in [DOMAIN acc.layer -> Nat] /\ DOMAIN acc.layer \subseteq V
  BY <1>1, ColumnsAre
<1>3. b = [layer |-> layer, next |-> next, depth |-> acc.depth]
  BY Zenon, <1>1 DEF Placed
<1>4. /\ DOMAIN layer = placed /\ layer \in [placed -> Nat] /\ layer[s] = acc.depth
      /\ \A t \in DOMAIN acc.layer : t # s => layer[t] = acc.layer[t]
  BY <1>1, <1>2
<1>5. placed \subseteq V
  BY <1>2
<1> HIDE DEF layer
<1>6. layer \in Columns(V)
  BY <1>4, <1>5, ColumnsAre
<1>7. more \in Seq(V) /\ ToSet(more) = {t \in ToSet(outs) : t \notin placed}
  BY OnlyIs
<1> HIDE DEF more
<1>8. next \in Seq(V) /\ ToSet(next) = ToSet(acc.next) \cup ToSet(more)
  BY <1>1, <1>7, MembersOfBoth
<1> HIDE DEF next
<1>9. b.layer = layer /\ b.next = next /\ b.depth = acc.depth
  BY <1>3
<1>10. b \in MapState(V)
  BY <1>1, <1>3, <1>6, <1>8 DEF MapState
<1> QED
  BY <1>4, <1>7, <1>8, <1>9, <1>10

\* A turn of the loop as a fold of its visits.
Frontier(nodes, edges, acc) ==
  FoldLeft(LAMBDA a, s : Visit(a, s, Callees(nodes, edges, s)), [acc EXCEPT !.next = <<>>], acc.next)

FrontierRounds(f, nodes, edges, acc) ==
  /\ f[0] = [layer |-> acc.layer, next |-> <<>>, depth |-> acc.depth]
  /\ \A i \in 1..Len(acc.next) : f[i] = Visit(f[i - 1], acc.next[i], Callees(nodes, edges, acc.next[i]))

\* A visit keeps the type of the state.
LEMMA VisitTypes ==
  ASSUME NEW nodes, NEW edges \in Seq(MapEdge), NEW acc \in MapState(Names(nodes)), NEW s \in Names(nodes)
  PROVE  Visit(acc, s, Callees(nodes, edges, s)) \in MapState(Names(nodes))
<1>1. CASE s \in DOMAIN acc.layer
  BY <1>1 DEF Visit
<1>2. CASE s \notin DOMAIN acc.layer
  <2>1. Visit(acc, s, Callees(nodes, edges, s)) = Placed(acc, s, Callees(nodes, edges, s))
    BY <1>2 DEF Visit
  <2> QED
    BY <2>1, CalleesAre, PlacedIs
<1> QED
  BY <1>1, <1>2

\* It is a loop over the services of the frontier.
LEMMA FrontierLoop ==
  ASSUME NEW nodes, NEW edges \in Seq(MapEdge), NEW acc \in MapState(Names(nodes))
  PROVE  \E f \in [0..Len(acc.next) -> MapState(Names(nodes))] :
           FrontierRounds(f, nodes, edges, acc) /\ Frontier(nodes, edges, acc) = f[Len(acc.next)]
<1> DEFINE seq == acc.next
           n == Len(seq)
           S == MapState(Names(nodes))
           start == [acc EXCEPT !.next = <<>>]
           Round == [i \in 1..n |-> [a \in S |-> Visit(a, seq[i], Callees(nodes, edges, seq[i]))]]
           Body(k) == [U \in SUBSET DOMAIN seq |->
                         IF U = {} THEN start
                         ELSE LET x == Max(U) IN Visit(k[U \ {x}], seq[x], Callees(nodes, edges, seq[x]))]
           iter == CHOOSE k : k = Body(k)
<1>1. /\ n \in Nat /\ DOMAIN seq = 1..n /\ \A i \in 1..n : seq[i] \in Names(nodes)
      /\ start = [layer |-> acc.layer, next |-> <<>>, depth |-> acc.depth] /\ start \in S
  <2>1. acc.next \in Seq(Names(nodes))
    BY DEF MapState
  <2>2. acc = [layer |-> acc.layer, next |-> acc.next, depth |-> acc.depth]
    BY DEF MapState
  <2>3. start = [layer |-> acc.layer, next |-> <<>>, depth |-> acc.depth]
    BY <2>2
  <2>4. <<>> \in Seq(Names(nodes))
    BY EmptySeq
  <2>5. start \in S
    BY Zenon, <2>3, <2>4 DEF MapState
  <2> QED
    BY <2>1, <2>3, <2>5
<1>2. Round \in [1..n -> [S -> S]]
  <2>1. \A i \in 1..n, a \in S : Visit(a, seq[i], Callees(nodes, edges, seq[i])) \in S
    BY <1>1, VisitTypes
  <2> QED
    BY <2>1
<1> HIDE DEF start
<1>3. PICK g \in [SUBSET (1..n) -> S] : Folds(g, n, start, Round)
  <2> HIDE DEF n, S, start, Round
  <2> QED
    BY Zenon, <1>1, <1>2, FoldIsDefined
<1>4. g = Body(g)
  <2>1. ASSUME NEW U \in SUBSET (1..n), U # {}
        PROVE  Max(U) \in 1..n /\ U \ {Max(U)} \in SUBSET (1..n)
    BY <1>1, <2>1, MaxOfNumbers
  <2>2. ASSUME NEW U \in SUBSET (1..n), U # {} PROVE g[U] = Body(g)[U]
    <3> DEFINE x == Max(U)
               W == U \ {x}
    <3>1. x \in 1..n /\ W \in SUBSET (1..n)
      BY <2>1, <2>2
    <3>2. g[U] = Round[x][g[W]]
      BY Zenon, <1>3, <2>2 DEF Folds
    <3>3. g[W] \in S
      BY <1>3, <3>1
    <3> HIDE DEF x, W
    <3>4. g[U] = Visit(g[W], seq[x], Callees(nodes, edges, seq[x]))
      BY <3>1, <3>2, <3>3
    <3> QED
      BY <1>1, <2>2, <3>4 DEF x, W
  <2>3. g[{}] = start
    BY <1>3 DEF Folds
  <2>4. \A U \in SUBSET (1..n) : g[U] = Body(g)[U]
    BY Zenon, <1>1, <2>2, <2>3
  <2> QED
    BY Zenon, <1>1, <1>3, <2>4
<1>5. iter = Body(iter)
  BY Zenon, <1>4
<1>6. Frontier(nodes, edges, acc) = iter[1..n]
  BY <1>1 DEF Frontier, FoldLeft, MapThenFoldSet, start
<1> HIDE DEF iter
<1>7. iter[{}] = start
  BY <1>5
<1>8. ASSUME NEW i \in 1..n, iter[1..(i - 1)] \in S PROVE iter[1..i] = Round[i][iter[1..(i - 1)]]
  <2>1. 1..i \in SUBSET DOMAIN seq /\ 1..i # {} /\ Max(1..i) = i /\ (1..i) \ {i} = 1..(i - 1)
    BY <1>1, MaxUpto
  <2>2. iter[1..i] = Body(iter)[1..i]
    BY <1>5, Zenon
  <2>3. Body(iter)[1..i] = Visit(iter[1..(i - 1)], seq[i], Callees(nodes, edges, seq[i]))
    BY Zenon, <2>1
  <2> QED
    BY <1>8, <2>2, <2>3
<1>9. PICK f : IsLoop(f, S, n, start, Round) /\ f[n] = iter[1..n]
  <2>1. Unfolds(iter, S, n, start, Round)
    BY Zenon, <1>7, <1>8 DEF Unfolds
  <2> HIDE DEF n, S, start, Round
  <2> QED
    BY <1>1, <1>2, <2>1, FoldLoop
<1>10. f \in [0..n -> S] /\ f[0] = start /\ \A i \in 1..n : f[i] = Round[i][f[i - 1]]
  BY Zenon, <1>9 DEF IsLoop
<1>11. \A i \in 1..n : f[i] = Visit(f[i - 1], seq[i], Callees(nodes, edges, seq[i]))
  <2> SUFFICES ASSUME NEW i \in 1..n PROVE f[i] = Visit(f[i - 1], seq[i], Callees(nodes, edges, seq[i]))
    OBVIOUS
  <2> DEFINE a == f[i - 1]
             c == Callees(nodes, edges, seq[i])
  <2>1. f[i] = Round[i][a] /\ a \in S
    <3> HIDE DEF S, Round
    <3>1. i - 1 \in 0..n
      BY <1>1
    <3> QED
      BY <1>10, <3>1
  <2>2. Round[i] = [b \in S |-> Visit(b, seq[i], c)]
    OBVIOUS
  <2> HIDE DEF a, c, S, Round
  <2>3. f[i] = Visit(a, seq[i], c)
    BY <2>1, <2>2
  <2> QED
    BY <2>3 DEF a, c
<1>12. FrontierRounds(f, nodes, edges, acc)
  BY <1>1, <1>10, <1>11 DEF FrontierRounds
<1> QED
  BY <1>6, <1>9, <1>10, <1>12

\* What b has of a frontier, after its first i services.
FrontierUpto(nodes, edges, acc, b, i) ==
  /\ b.depth = acc.depth
  /\ DOMAIN b.layer = DOMAIN acc.layer \cup {acc.next[j] : j \in 1..i}
  /\ \A s \in DOMAIN acc.layer : b.layer[s] = acc.layer[s]
  /\ \A s \in DOMAIN b.layer \ DOMAIN acc.layer :
       /\ b.layer[s] = acc.depth
       /\ \A t : CallsOf(nodes, edges, s, t) => t \in DOMAIN b.layer \cup ToSet(b.next)
  /\ \A t \in ToSet(b.next) : \E s \in DOMAIN b.layer \ DOMAIN acc.layer : CallsOf(nodes, edges, s, t)

\* One visit more.
LEMMA VisitKeeps ==
  ASSUME NEW nodes, NEW edges \in Seq(MapEdge), NEW acc \in MapState(Names(nodes)),
         NEW i \in 1..Len(acc.next), NEW b \in MapState(Names(nodes)), FrontierUpto(nodes, edges, acc, b, i - 1)
  PROVE  FrontierUpto(nodes, edges, acc, Visit(b, acc.next[i], Callees(nodes, edges, acc.next[i])), i)
<1> DEFINE s == acc.next[i]
           outs == Callees(nodes, edges, s)
           c == Visit(b, s, outs)
<1>1. s \in Names(nodes) /\ i \in Nat
  BY DEF MapState
<1>2. {acc.next[j] : j \in 1..i} = {acc.next[j] : j \in 1..(i - 1)} \cup {s}
  <2>1. \A j \in 1..i : j = i \/ j \in 1..(i - 1)
    BY <1>1
  <2>2. i \in 1..i /\ \A j \in 1..(i - 1) : j \in 1..i
    BY <1>1
  <2> QED
    BY <2>1, <2>2
<1>3. outs \in Seq(Names(nodes)) /\ \A t : t \in ToSet(outs) <=> CallsOf(nodes, edges, s, t)
  BY CalleesAre
<1> HIDE DEF s, outs
<1>4. CASE s \in DOMAIN b.layer
  <2>1. c = b
    BY <1>4 DEF Visit
  <2>2. DOMAIN b.layer = DOMAIN acc.layer \cup {acc.next[j] : j \in 1..i}
    BY Zenon, <1>2, <1>4 DEF FrontierUpto
  <2>3. FrontierUpto(nodes, edges, acc, b, i)
    BY <2>2 DEF FrontierUpto
  <2> QED
    BY <2>1, <2>3 DEF s, outs
<1>5. CASE s \notin DOMAIN b.layer
  <2>1. c = Placed(b, s, outs)
    BY <1>5 DEF Visit
  <2> HIDE DEF c
  <2>2. /\ c.depth = b.depth
        /\ DOMAIN c.layer = DOMAIN b.layer \cup {s} /\ c.layer[s] = b.depth
        /\ \A t \in DOMAIN b.layer : t # s => c.layer[t] = b.layer[t]
        /\ ToSet(c.next) = ToSet(b.next) \cup {t \in ToSet(outs) : t \notin DOMAIN c.layer}
    BY <1>1, <1>3, <2>1, PlacedIs
  <2>3. DOMAIN c.layer = DOMAIN acc.layer \cup {acc.next[j] : j \in 1..i}
    BY Zenon, <1>2, <2>2 DEF FrontierUpto
  <2>4. s \notin DOMAIN acc.layer /\ DOMAIN acc.layer \subseteq DOMAIN b.layer
    BY <1>5 DEF FrontierUpto
  <2>5. \A r \in DOMAIN acc.layer : c.layer[r] = acc.layer[r]
    BY <2>2, <2>4 DEF FrontierUpto
  <2>6. ASSUME NEW r \in DOMAIN c.layer \ DOMAIN acc.layer
        PROVE  /\ c.layer[r] = acc.depth
               /\ \A t : CallsOf(nodes, edges, r, t) => t \in DOMAIN c.layer \cup ToSet(c.next)
    <3>1. CASE r = s
      BY <1>3, <2>2, <3>1 DEF FrontierUpto
    <3>2. CASE r # s
      <4>1. r \in DOMAIN b.layer \ DOMAIN acc.layer
        BY <2>2, <3>2
      <4> QED
        BY <2>2, <3>2, <4>1 DEF FrontierUpto
    <3> QED
      BY <3>1, <3>2
  <2>7. ASSUME NEW t \in ToSet(c.next)
        PROVE  \E r \in DOMAIN c.layer \ DOMAIN acc.layer : CallsOf(nodes, edges, r, t)
    <3>1. CASE t \in ToSet(b.next)
      BY <2>2, <3>1 DEF FrontierUpto
    <3>2. CASE t \in ToSet(outs)
      BY <1>3, <2>2, <2>4, <3>2
    <3> QED
      BY <2>2, <3>1, <3>2
  <2>8. c.depth = acc.depth
    BY <2>2 DEF FrontierUpto
  <2>9. FrontierUpto(nodes, edges, acc, c, i)
    BY <2>3, <2>5, <2>6, <2>7, <2>8 DEF FrontierUpto
  <2> QED
    BY <2>9 DEF c, s, outs
<1> QED
  BY <1>4, <1>5

\* What a turn of the loop does.
LEMMA TurnIs ==
  ASSUME NEW nodes, NEW edges \in Seq(MapEdge), NEW acc \in MapState(Names(nodes)), acc.next # <<>>,
         NEW b, b = Turn(nodes, edges, acc)
  PROVE  /\ b \in MapState(Names(nodes)) /\ b.depth = acc.depth + 1
         /\ DOMAIN b.layer = DOMAIN acc.layer \cup ToSet(acc.next)
         /\ \A s \in DOMAIN acc.layer : b.layer[s] = acc.layer[s]
         /\ \A s \in DOMAIN b.layer \ DOMAIN acc.layer :
              /\ b.layer[s] = acc.depth
              /\ \A t : CallsOf(nodes, edges, s, t) => t \in DOMAIN b.layer \cup ToSet(b.next)
         /\ \A t \in ToSet(b.next) : \E s \in DOMAIN b.layer \ DOMAIN acc.layer : CallsOf(nodes, edges, s, t)
<1> DEFINE n == Len(acc.next)
           S == MapState(Names(nodes))
           c == Frontier(nodes, edges, acc)
<1>1. PICK f \in [0..n -> S] : FrontierRounds(f, nodes, edges, acc) /\ c = f[n]
  BY FrontierLoop
<1>2. acc.next \in Seq(Names(nodes)) /\ n \in Nat
  BY DEF MapState
<1>3. /\ f[0] = [layer |-> acc.layer, next |-> <<>>, depth |-> acc.depth]
      /\ \A i \in 1..n : f[i] = Visit(f[i - 1], acc.next[i], Callees(nodes, edges, acc.next[i]))
  BY <1>1 DEF FrontierRounds
<1> HIDE DEF n, S, c
<1>4. \A i \in 0..n : f[i] \in S
  BY <1>1
<1> DEFINE P == {i \in 0..n : FrontierUpto(nodes, edges, acc, f[i], i)}
<1>5. 0 \in P
  <2>1. f[0].layer = acc.layer /\ f[0].next = <<>> /\ f[0].depth = acc.depth
    BY <1>3
  <2>2. ToSet(<<>>) = {} /\ 1..0 = {}
    BY DEF ToSet
  <2>3. FrontierUpto(nodes, edges, acc, f[0], 0)
    BY <2>1, <2>2 DEF FrontierUpto
  <2> QED
    BY <1>2, <2>3
<1>6. ASSUME NEW i \in 1..n, i - 1 \in P PROVE i \in P
  <2>1. i - 1 \in 0..n /\ i \in 0..n
    BY <1>2
  <2>2. f[i - 1] \in MapState(Names(nodes)) /\ i \in 1..Len(acc.next) /\ FrontierUpto(nodes, edges, acc, f[i - 1], i - 1)
    BY <1>4, <1>6, <2>1 DEF S, n
  <2>3. FrontierUpto(nodes, edges, acc, f[i], i)
    BY <1>3, <2>2, VisitKeeps
  <2> QED
    BY <2>1, <2>3
<1>7. n \in P
  <2> HIDE DEF P
  <2>1. \A i \in 1..n : i - 1 \in P => i \in P
    BY <1>6
  <2>2. \A i \in 0..n : i \in P
    BY <1>2, <1>5, <2>1, Rounds, Zenon
  <2> QED
    BY <1>2, <2>2
<1>8. FrontierUpto(nodes, edges, acc, c, n) /\ c \in MapState(Names(nodes))
  BY <1>1, <1>2, <1>4, <1>7 DEF S
<1>9. b = [c EXCEPT !.depth = @ + 1]
  BY Zenon DEF Turn, Frontier, c
<1>10. /\ b.layer = c.layer /\ b.next = c.next /\ b.depth = acc.depth + 1 /\ b \in MapState(Names(nodes))
  <2>1. c = [layer |-> c.layer, next |-> c.next, depth |-> c.depth] /\ c.depth \in Nat
        /\ c.layer \in Columns(Names(nodes)) /\ c.next \in Seq(Names(nodes))
    BY <1>8 DEF MapState
  <2>2. c.depth = acc.depth
    BY <1>8 DEF FrontierUpto
  <2>3. b = [layer |-> c.layer, next |-> c.next, depth |-> c.depth + 1]
    BY <1>9, <2>1
  <2>4. b \in MapState(Names(nodes))
    BY <2>1, <2>3 DEF MapState
  <2> QED
    BY <2>2, <2>3, <2>4
<1>11. ToSet(acc.next) = {acc.next[j] : j \in 1..n}
  BY <1>2 DEF ToSet, n
<1> QED
  BY <1>8, <1>10, <1>11 DEF FrontierUpto

\* The search as a fold of its turns.
SearchStart(nodes, edges) == [layer |-> <<>>, next |-> Roots(nodes, edges), depth |-> 0]
Searched(nodes, edges) ==
  FoldLeft(LAMBDA a, i : Turn(nodes, edges, a), SearchStart(nodes, edges), [i \in 1..Len(nodes) + 2 |-> i])

\* A turn keeps the type of the state.
LEMMA TurnTypes ==
  ASSUME NEW nodes, NEW edges \in Seq(MapEdge), NEW acc \in MapState(Names(nodes))
  PROVE  Turn(nodes, edges, acc) \in MapState(Names(nodes))
<1>1. CASE acc.next = <<>>
  BY <1>1 DEF Turn
<1>2. CASE acc.next # <<>>
  BY <1>2, TurnIs
<1> QED
  BY <1>1, <1>2

\* So has the state the search starts in.
LEMMA StartTypes ==
  ASSUME NEW nodes \in Seq(MapNode), NEW edges
  PROVE  SearchStart(nodes, edges) \in MapState(Names(nodes)) /\ DOMAIN SearchStart(nodes, edges).layer = {}
<1> DEFINE none == <<>>
<1>1. none \in [{} -> Nat] /\ DOMAIN none = {}
  OBVIOUS
<1>2. none \in Columns(Names(nodes))
  BY Zenon, <1>1 DEF Columns
<1> QED
  BY <1>1, <1>2, RootsAre DEF SearchStart, MapState

\* It is a loop of as many turns as the code allows.
LEMMA SearchLoop ==
  ASSUME NEW nodes \in Seq(MapNode), NEW edges \in Seq(MapEdge), NEW m, m = Len(nodes) + 2
  PROVE  \E f \in [0..m -> MapState(Names(nodes))] :
           /\ f[0] = SearchStart(nodes, edges)
           /\ \A i \in 1..m : f[i] = Turn(nodes, edges, f[i - 1])
           /\ Searched(nodes, edges) = f[m]
<1> DEFINE seq == [i \in 1..m |-> i]
           S == MapState(Names(nodes))
           start == SearchStart(nodes, edges)
           Round == [i \in 1..m |-> [a \in S |-> Turn(nodes, edges, a)]]
           Body(k) == [U \in SUBSET DOMAIN seq |->
                         IF U = {} THEN start ELSE LET x == Max(U) IN Turn(nodes, edges, k[U \ {x}])]
           iter == CHOOSE k : k = Body(k)
<1>1. m \in Nat /\ DOMAIN seq = 1..m /\ start \in S
  BY StartTypes
<1>2. Round \in [1..m -> [S -> S]]
  <2>1. \A a \in S : Turn(nodes, edges, a) \in S
    BY TurnTypes
  <2> QED
    BY <2>1
<1> HIDE DEF start
<1>3. PICK g \in [SUBSET (1..m) -> S] : Folds(g, m, start, Round)
  <2> HIDE DEF S, start, Round
  <2> QED
    BY Zenon, <1>1, <1>2, FoldIsDefined
<1>4. g = Body(g)
  <2>1. ASSUME NEW U \in SUBSET (1..m), U # {}
        PROVE  Max(U) \in 1..m /\ U \ {Max(U)} \in SUBSET (1..m)
    BY Zenon, <1>1, <2>1, MaxOfNumbers
  <2>2. ASSUME NEW U \in SUBSET (1..m), U # {} PROVE g[U] = Body(g)[U]
    <3> DEFINE x == Max(U)
               W == U \ {x}
    <3>1. x \in 1..m /\ W \in SUBSET (1..m)
      BY <2>1, <2>2
    <3>2. g[U] = Round[x][g[W]]
      BY Zenon, <1>3, <2>2 DEF Folds
    <3>3. g[W] \in S
      BY <1>3, <3>1
    <3> HIDE DEF x, W
    <3>4. g[U] = Turn(nodes, edges, g[W])
      BY <3>1, <3>2, <3>3
    <3> QED
      BY Zenon, <1>1, <2>2, <3>4 DEF x, W
  <2>3. g[{}] = start
    BY <1>3 DEF Folds
  <2>4. \A U \in SUBSET (1..m) : g[U] = Body(g)[U]
    BY Zenon, <1>1, <2>2, <2>3
  <2> QED
    BY Zenon, <1>1, <1>3, <2>4
<1>5. iter = Body(iter)
  BY Zenon, <1>4
<1>6. Searched(nodes, edges) = iter[1..m]
  BY <1>1 DEF Searched, FoldLeft, MapThenFoldSet, start
<1> HIDE DEF iter
<1>7. iter[{}] = start
  BY <1>5
<1>8. ASSUME NEW i \in 1..m, iter[1..(i - 1)] \in S PROVE iter[1..i] = Round[i][iter[1..(i - 1)]]
  <2>1. 1..i \in SUBSET DOMAIN seq /\ 1..i # {} /\ Max(1..i) = i /\ (1..i) \ {i} = 1..(i - 1)
    BY <1>1, MaxUpto
  <2>2. iter[1..i] = Body(iter)[1..i]
    BY <1>5, Zenon
  <2>3. Body(iter)[1..i] = Turn(nodes, edges, iter[1..(i - 1)])
    BY Zenon, <2>1
  <2> QED
    BY Zenon, <1>8, <2>2, <2>3
<1>9. PICK f : IsLoop(f, S, m, start, Round) /\ f[m] = iter[1..m]
  <2>1. Unfolds(iter, S, m, start, Round)
    BY <1>7, <1>8 DEF Unfolds
  <2> HIDE DEF S, start, Round
  <2> QED
    BY <1>1, <1>2, <2>1, FoldLoop, SMTT(20)
<1>10. f \in [0..m -> S] /\ f[0] = start /\ \A i \in 1..m : f[i] = Round[i][f[i - 1]]
  BY <1>9 DEF IsLoop
<1>11. ASSUME NEW i \in 1..m PROVE f[i] = Turn(nodes, edges, f[i - 1])
  <2> DEFINE a == f[i - 1]
  <2>1. f[i] = Round[i][a] /\ a \in S
    <3> HIDE DEF S, Round
    <3>1. i - 1 \in 0..m
      BY <1>1
    <3> QED
      BY <1>10, <3>1
  <2>2. Round[i] = [b \in S |-> Turn(nodes, edges, b)]
    OBVIOUS
  <2> HIDE DEF a, S, Round
  <2>3. f[i] = Turn(nodes, edges, a)
    BY <2>1, <2>2
  <2> QED
    BY <2>3 DEF a
<1> QED
  BY Zenon, <1>6, <1>9, <1>10, <1>11 DEF start
-----------------------------------------------------------------------------
(* What the search has found *)

\* The columns given so far are distances from a root, as far as depth.
LayersAreLow(a) == \A s \in DOMAIN a.layer : a.layer[s] < a.depth

Follows(nodes, edges, a) ==
  \A s \in DOMAIN a.layer : \A t :
    CallsOf(nodes, edges, s, t) =>
      \/ t \in DOMAIN a.layer /\ a.layer[t] <= a.layer[s] + 1
      \/ t \in ToSet(a.next) /\ a.layer[s] + 1 = a.depth

\* A service of the layer or the frontier with this distance.
Reaches(nodes, edges, a, s, far) ==
  \/ far = 0 /\ s \in ToSet(Roots(nodes, edges))
  \/ \E p \in DOMAIN a.layer : CallsOf(nodes, edges, p, s) /\ a.layer[p] + 1 = far

Descends(nodes, edges, a) ==
  /\ \A s \in DOMAIN a.layer : Reaches(nodes, edges, a, s, a.layer[s])
  /\ \A s \in ToSet(a.next) : Reaches(nodes, edges, a, s, a.depth)

RootsFirst(nodes, edges, a) ==
  \A s \in ToSet(Roots(nodes, edges)) :
    \/ s \in DOMAIN a.layer /\ a.layer[s] = 0
    \/ a.depth = 0 /\ s \in ToSet(a.next)

\* After i turns: a turn that leaves a frontier has placed a service.
Grows(a, i) == a.depth <= i /\ (a.next = <<>> \/ (a.depth = i /\ i <= Cardinality(DOMAIN a.layer)))

Search(nodes, edges, a, i) ==
  LayersAreLow(a) /\ Follows(nodes, edges, a) /\ Descends(nodes, edges, a) /\ RootsFirst(nodes, edges, a) /\ Grows(a, i)

\* As many services as nodes, at most.
LEMMA NamesAreFew ==
  ASSUME NEW nodes \in Seq(MapNode)
  PROVE  /\ IsFiniteSet(Names(nodes)) /\ Cardinality(Names(nodes)) \in Nat /\ Cardinality(Names(nodes)) <= Len(nodes)
         /\ \A i \in 1..Len(nodes) : nodes[i].service \in Names(nodes)
<1> DEFINE n == Len(nodes)
           f == [i \in 1..n |-> nodes[i].service]
<1>1. n \in Nat /\ DOMAIN nodes = 1..n
  OBVIOUS
<1>2. f \in Surjection(1..n, Names(nodes))
  <2>1. \A i \in 1..n : nodes[i].service \in Names(nodes)
    BY <1>1 DEF Names, ToSet
  <2>2. \A s \in Names(nodes) : \E i \in 1..n : f[i] = s
    BY <1>1 DEF Names, ToSet
  <2> QED
    BY <2>1, <2>2 DEF Surjection
<1>3. IsFiniteSet(1..n) /\ Cardinality(1..n) = n
  BY <1>1, UptoIsFinite
<1>4. IsFiniteSet(Names(nodes)) /\ Cardinality(Names(nodes)) <= n
  BY <1>2, <1>3, FS_Surjection
<1>5. \A i \in 1..n : nodes[i].service \in Names(nodes)
  BY <1>1 DEF Names, ToSet
<1> QED
  BY <1>4, <1>5, FS_CardinalityType

\* At the start the roots are the frontier.
LEMMA SearchStarts ==
  ASSUME NEW nodes \in Seq(MapNode), NEW edges \in Seq(MapEdge)
  PROVE  Search(nodes, edges, SearchStart(nodes, edges), 0)
<1> DEFINE a == SearchStart(nodes, edges)
<1>1. DOMAIN a.layer = {} /\ a.next = Roots(nodes, edges) /\ a.depth = 0
  BY StartTypes DEF SearchStart
<1> HIDE DEF a
<1>2. LayersAreLow(a) /\ Follows(nodes, edges, a) /\ Descends(nodes, edges, a) /\ RootsFirst(nodes, edges, a)
  BY <1>1 DEF LayersAreLow, Follows, Descends, Reaches, RootsFirst
<1>3. Cardinality(DOMAIN a.layer) = 0
  BY <1>1, FS_EmptySet
<1>4. Grows(a, 0)
  BY <1>1, <1>3 DEF Grows
<1> QED
  BY <1>2, <1>4 DEF Search, a

\* One turn more.
LEMMA TurnKeeps ==
  ASSUME NEW nodes \in Seq(MapNode), NEW edges \in Seq(MapEdge), NEW i \in Nat,
         NEW a \in MapState(Names(nodes)), Search(nodes, edges, a, i)
  PROVE  Search(nodes, edges, Turn(nodes, edges, a), i + 1)
<1> DEFINE b == Turn(nodes, edges, a)
<1>1. CASE a.next = <<>>
  <2>1. b = a
    BY <1>1 DEF Turn
  <2>2. Grows(a, i + 1)
    <3>1. a.depth \in Nat /\ a.depth <= i
      BY DEF MapState, Search, Grows
    <3> QED
      BY <1>1, <3>1 DEF Grows
  <2> QED
    BY <2>1, <2>2 DEF Search
<1>2. CASE a.next # <<>>
  <2>1. /\ b \in MapState(Names(nodes)) /\ b.depth = a.depth + 1
        /\ DOMAIN b.layer = DOMAIN a.layer \cup ToSet(a.next)
        /\ \A s \in DOMAIN a.layer : b.layer[s] = a.layer[s]
        /\ \A s \in DOMAIN b.layer \ DOMAIN a.layer :
             /\ b.layer[s] = a.depth
             /\ \A t : CallsOf(nodes, edges, s, t) => t \in DOMAIN b.layer \cup ToSet(b.next)
        /\ \A t \in ToSet(b.next) : \E s \in DOMAIN b.layer \ DOMAIN a.layer : CallsOf(nodes, edges, s, t)
    BY ZenonT(40), <1>2, TurnIs
  <2>2. a.depth \in Nat /\ a.layer \in Columns(Names(nodes)) /\ b.layer \in Columns(Names(nodes)) /\ b.depth \in Nat
    BY <2>1 DEF MapState
  <2>3. /\ \A s \in DOMAIN a.layer : a.layer[s] \in Nat
        /\ \A s \in DOMAIN b.layer : b.layer[s] \in Nat
        /\ DOMAIN b.layer \subseteq Names(nodes)
    BY <2>2, ColumnsAre
  <2>4. LayersAreLow(a) /\ Follows(nodes, edges, a) /\ Descends(nodes, edges, a) /\ RootsFirst(nodes, edges, a) /\ Grows(a, i)
    BY DEF Search
  <2> HIDE DEF b
  <2>5. LayersAreLow(b)
    <3> SUFFICES ASSUME NEW s \in DOMAIN b.layer PROVE b.layer[s] < b.depth
      BY DEF LayersAreLow
    <3>1. CASE s \in DOMAIN a.layer
      <4>1. a.layer[s] < a.depth /\ b.layer[s] = a.layer[s] /\ a.layer[s] \in Nat
        BY <2>1, <2>3, <2>4, <3>1 DEF LayersAreLow
      <4> QED
        BY <2>1, <2>2, <4>1
    <3>2. CASE s \notin DOMAIN a.layer
      BY <2>1, <2>2, <3>2
    <3> QED
      BY <3>1, <3>2
  <2>6. Follows(nodes, edges, b)
    <3> SUFFICES ASSUME NEW s \in DOMAIN b.layer, NEW t, CallsOf(nodes, edges, s, t)
                 PROVE  \/ t \in DOMAIN b.layer /\ b.layer[t] <= b.layer[s] + 1
                        \/ t \in ToSet(b.next) /\ b.layer[s] + 1 = b.depth
      BY DEF Follows
    <3>1. \A r \in DOMAIN b.layer : b.layer[r] <= a.depth
      BY <2>1, <2>2, <2>3, <2>5 DEF LayersAreLow
    <3>2. CASE s \in DOMAIN a.layer
      <4>1. /\ b.layer[s] = a.layer[s] /\ a.layer[s] \in Nat
            /\ \/ t \in DOMAIN a.layer /\ a.layer[t] <= a.layer[s] + 1
               \/ t \in ToSet(a.next) /\ a.layer[s] + 1 = a.depth
        BY <2>1, <2>3, <2>4, <3>2 DEF Follows
      <4>2. CASE t \in DOMAIN a.layer /\ a.layer[t] <= a.layer[s] + 1
        BY <2>1, <4>1, <4>2
      <4>3. CASE t \in ToSet(a.next) /\ a.layer[s] + 1 = a.depth
        <5>1. t \in DOMAIN b.layer
          BY <2>1, <4>3
        <5> QED
          BY <3>1, <4>1, <4>3, <5>1
      <4> QED
        BY <4>1, <4>2, <4>3
    <3>3. CASE s \notin DOMAIN a.layer
      <4>1. b.layer[s] = a.depth /\ (t \in DOMAIN b.layer \/ t \in ToSet(b.next))
        BY <2>1, <3>3
      <4>2. CASE t \in DOMAIN b.layer
        <5>1. b.layer[t] <= a.depth /\ b.layer[t] \in Nat
          BY <2>3, <3>1, <4>2
        <5> QED
          BY <2>2, <4>1, <4>2, <5>1
      <4>3. CASE t \in ToSet(b.next)
        BY <2>1, <4>1, <4>3
      <4> QED
        BY <4>1, <4>2, <4>3
    <3> QED
      BY <3>2, <3>3
  <2>7. Descends(nodes, edges, b)
    <3>1. ASSUME NEW s, NEW far, Reaches(nodes, edges, a, s, far) PROVE Reaches(nodes, edges, b, s, far)
      <4>1. CASE far = 0 /\ s \in ToSet(Roots(nodes, edges))
        BY <4>1 DEF Reaches
      <4>2. CASE \E p \in DOMAIN a.layer : CallsOf(nodes, edges, p, s) /\ a.layer[p] + 1 = far
        BY <2>1, <4>2 DEF Reaches
      <4> QED
        BY <3>1, <4>1, <4>2 DEF Reaches
    <3>2. ASSUME NEW s \in DOMAIN b.layer PROVE Reaches(nodes, edges, b, s, b.layer[s])
      <4>1. CASE s \in DOMAIN a.layer
        <5>1. Reaches(nodes, edges, a, s, a.layer[s]) /\ b.layer[s] = a.layer[s]
          BY <2>1, <2>4, <4>1 DEF Descends
        <5> QED
          BY <3>1, <5>1
      <4>2. CASE s \notin DOMAIN a.layer
        <5>1. s \in ToSet(a.next) /\ b.layer[s] = a.depth
          BY <2>1, <4>2
        <5>2. Reaches(nodes, edges, a, s, a.depth)
          BY <2>4, <5>1 DEF Descends
        <5> QED
          BY <3>1, <5>1, <5>2
      <4> QED
        BY <4>1, <4>2
    <3>3. ASSUME NEW s \in ToSet(b.next) PROVE Reaches(nodes, edges, b, s, b.depth)
      <4>1. PICK p \in DOMAIN b.layer \ DOMAIN a.layer : CallsOf(nodes, edges, p, s)
        BY <2>1
      <4>2. b.layer[p] + 1 = b.depth
        BY <2>1, <4>1
      <4> QED
        BY <4>1, <4>2 DEF Reaches
    <3> QED
      BY <3>2, <3>3 DEF Descends
  <2>8. RootsFirst(nodes, edges, b)
    <3> SUFFICES ASSUME NEW s \in ToSet(Roots(nodes, edges)) PROVE s \in DOMAIN b.layer /\ b.layer[s] = 0
      BY DEF RootsFirst
    <3>1. CASE s \in DOMAIN a.layer /\ a.layer[s] = 0
      BY <2>1, <3>1
    <3>2. CASE ~ (s \in DOMAIN a.layer /\ a.layer[s] = 0)
      <4>1. a.depth = 0 /\ s \in ToSet(a.next)
        BY <2>4, <3>2 DEF RootsFirst
      <4>2. s \notin DOMAIN a.layer
        <5>1. \A r \in DOMAIN a.layer : a.layer[r] < 0 /\ a.layer[r] \in Nat
          BY <2>3, <2>4, <4>1 DEF LayersAreLow
        <5> QED
          BY <5>1
      <4> QED
        BY <2>1, <4>1, <4>2
    <3> QED
      BY <3>1, <3>2
  <2>9. Grows(b, i + 1)
    <3>1. a.depth = i /\ i <= Cardinality(DOMAIN a.layer) /\ b.depth = i + 1
      BY <1>2, <2>1, <2>4 DEF Grows
    <3>2. CASE b.next = <<>>
      BY <3>1, <3>2 DEF Grows
    <3>3. CASE b.next # <<>>
      <4>1. b.next \in Seq(Names(nodes))
        BY <2>1 DEF MapState
      <4>2. PICK t : t \in ToSet(b.next)
        <5> DEFINE q == b.next
        <5>1. q \in Seq(Names(nodes)) /\ q # <<>>
          BY <3>3, <4>1
        <5> HIDE DEF q
        <5>2. (ToSet(q) = {}) <=> (q = <<>>)
          BY <5>1, MembersAre
        <5>3. ToSet(q) # {}
          BY <5>1, <5>2
        <5> QED
          BY <5>3 DEF q
      <4>3. PICK s \in DOMAIN b.layer \ DOMAIN a.layer : TRUE
        BY <2>1, <4>2
      <4> DEFINE D == DOMAIN a.layer
                 E == DOMAIN b.layer
      <4>4. IsFiniteSet(E) /\ D \subseteq E /\ D # E
        <5>1. IsFiniteSet(Names(nodes))
          BY NamesAreFew
        <5>2. E \in SUBSET Names(nodes)
          BY <2>3
        <5>3. IsFiniteSet(E)
          BY <5>1, <5>2, FS_Subset
        <5> QED
          BY <2>1, <4>3, <5>3
      <4> HIDE DEF D, E
      <4>5. IsFiniteSet(D) /\ Cardinality(D) <= Cardinality(E) /\ Cardinality(D) # Cardinality(E)
        BY <4>4, FS_Subset
      <4>6. Cardinality(D) \in Nat /\ Cardinality(E) \in Nat
        BY <4>4, <4>5, FS_CardinalityType
      <4>7. i + 1 <= Cardinality(E)
        BY <3>1, <4>5, <4>6 DEF D
      <4> QED
        BY <3>1, <4>7 DEF Grows, E
    <3> QED
      BY <3>2, <3>3
  <2> QED
    BY <2>5, <2>6, <2>7, <2>8, <2>9 DEF Search, b
<1> QED
  BY <1>1, <1>2

\* The search ends within its turns.
LEMMA SearchEnds ==
  ASSUME NEW nodes \in Seq(MapNode), NEW edges \in Seq(MapEdge), NEW end, end = Searched(nodes, edges)
  PROVE  /\ end \in MapState(Names(nodes)) /\ end.next = <<>> /\ end.depth <= Len(nodes) + 2
         /\ LayersAreLow(end) /\ Follows(nodes, edges, end) /\ Descends(nodes, edges, end) /\ RootsFirst(nodes, edges, end)
<1> DEFINE m == Len(nodes) + 2
<1>1. m \in Nat
  OBVIOUS
<1>2. PICK f \in [0..m -> MapState(Names(nodes))] :
        /\ f[0] = SearchStart(nodes, edges)
        /\ \A i \in 1..m : f[i] = Turn(nodes, edges, f[i - 1])
        /\ Searched(nodes, edges) = f[m]
  BY SearchLoop
<1> HIDE DEF m
<1> DEFINE P == {i \in 0..m : Search(nodes, edges, f[i], i)}
<1>3. 0 \in P
  BY <1>1, <1>2, SearchStarts
<1>4. ASSUME NEW i \in 1..m, i - 1 \in P PROVE i \in P
  <2>1. i - 1 \in 0..m /\ i \in 0..m /\ i - 1 \in Nat /\ (i - 1) + 1 = i
    BY <1>1
  <2>2. f[i - 1] \in MapState(Names(nodes)) /\ Search(nodes, edges, f[i - 1], i - 1)
    BY <1>2, <1>4, <2>1
  <2>3. Search(nodes, edges, Turn(nodes, edges, f[i - 1]), (i - 1) + 1)
    BY <2>1, <2>2, TurnKeeps
  <2>4. Search(nodes, edges, f[i], i)
    BY <1>2, <2>1, <2>3
  <2> QED
    BY <2>1, <2>4
<1>5. m \in P
  <2> HIDE DEF P
  <2>1. \A i \in 1..m : i - 1 \in P => i \in P
    BY <1>4
  <2>2. \A i \in 0..m : i \in P
    BY <1>1, <1>3, <2>1, Rounds, Zenon
  <2> QED
    BY <1>1, <2>2
<1>6. end \in MapState(Names(nodes)) /\ Search(nodes, edges, end, m)
  BY <1>1, <1>2, <1>5
<1>7. end.next = <<>>
  <2>1. SUFFICES ASSUME end.next # <<>> PROVE FALSE
    OBVIOUS
  <2>2. m <= Cardinality(DOMAIN end.layer)
    BY <1>6, <2>1 DEF Search, Grows
  <2>3. DOMAIN end.layer \in SUBSET Names(nodes)
    BY <1>6, ColumnsAre DEF MapState
  <2>4. IsFiniteSet(Names(nodes)) /\ Cardinality(Names(nodes)) <= Len(nodes) /\ Cardinality(Names(nodes)) \in Nat
    BY NamesAreFew
  <2>5. Cardinality(DOMAIN end.layer) <= Cardinality(Names(nodes)) /\ Cardinality(DOMAIN end.layer) \in Nat
    BY <2>3, <2>4, FS_Subset, FS_CardinalityType
  <2>6. m = Len(nodes) + 2 /\ Len(nodes) \in Nat
    BY DEF m
  <2> QED
    BY <2>2, <2>4, <2>5, <2>6
<1> QED
  BY <1>6, <1>7 DEF Search, Grows, m

\* The columns of the map.
LEMMA LayersAre ==
  ASSUME NEW nodes \in Seq(MapNode), NEW edges \in Seq(MapEdge)
  PROVE  Layers(nodes, edges) \in [Names(nodes) -> 0..(Len(nodes) + 2)]
<1> DEFINE end == Searched(nodes, edges)
           v == Layers(nodes, edges)
<1>1. v = [s \in Names(nodes) |-> IF s \in DOMAIN end.layer THEN end.layer[s] ELSE end.depth]
  BY DEF Layers, Searched, SearchStart
<1>2. end \in MapState(Names(nodes)) /\ end.depth <= Len(nodes) + 2 /\ LayersAreLow(end)
  BY SearchEnds
<1> HIDE DEF end, v
<1>3. end.depth \in Nat /\ \A s \in DOMAIN end.layer : end.layer[s] \in Nat
  BY <1>2, ColumnsAre DEF MapState
<1>4. end.depth \in 0..(Len(nodes) + 2)
  BY <1>2, <1>3
<1>5. \A s \in DOMAIN end.layer : end.layer[s] \in 0..(Len(nodes) + 2)
  BY <1>2, <1>3 DEF LayersAreLow
<1> QED
  BY <1>1, <1>4, <1>5 DEF v

\* What the search has found, of the columns: CallersComeFirst.
LEMMA CallersFirst ==
  ASSUME NEW nodes \in Seq(MapNode), NEW edges \in Seq(MapEdge), NEW laid, laid.layer = Layers(nodes, edges)
  PROVE  CallersComeFirst(nodes, edges, laid)
<1> DEFINE end == Searched(nodes, edges)
           layer == laid.layer
           roots == ToSet(Roots(nodes, edges))
           sent == {e \in ToSet(edges) : e.from # e.to /\ {e.from, e.to} \subseteq Names(nodes)}
           reached == {s \in Names(nodes) : s \in roots \/ \E e \in sent : e.to = s /\ layer[e.from] < layer[s]}
           D == DOMAIN end.layer
<1>1. layer = [s \in Names(nodes) |-> IF s \in D THEN end.layer[s] ELSE end.depth]
  BY Zenon DEF Layers, Searched, SearchStart
<1>2. /\ end \in MapState(Names(nodes)) /\ end.next = <<>>
      /\ LayersAreLow(end) /\ Follows(nodes, edges, end) /\ Descends(nodes, edges, end) /\ RootsFirst(nodes, edges, end)
  BY SearchEnds
<1> HIDE DEF end
<1>3. end.depth \in Nat /\ D \subseteq Names(nodes) /\ \A s \in D : end.layer[s] \in Nat
  BY <1>2, ColumnsAre DEF MapState
<1>4. \A s \in Names(nodes) : layer[s] = IF s \in D THEN end.layer[s] ELSE end.depth
  BY <1>1
<1>5. ToSet(end.next) = {}
  BY <1>2 DEF ToSet
<1>6. roots \subseteq Names(nodes)
  BY RootsAre, MembersAre
<1>7. \A e \in sent : CallsOf(nodes, edges, e.from, e.to)
  BY DEF CallsOf
<1>8. ASSUME NEW s \in D, NEW t, CallsOf(nodes, edges, s, t) PROVE t \in D /\ layer[t] <= layer[s] + 1
  <2>1. t \in D /\ end.layer[t] <= end.layer[s] + 1
    BY <1>2, <1>5, <1>8 DEF Follows
  <2> QED
    BY <1>3, <1>4, <2>1
<1>9. ASSUME NEW s \in D
      PROVE  (s \in roots /\ layer[s] = 0) \/ \E e \in sent : e.to = s /\ layer[e.from] + 1 = layer[s]
  <2>1. Reaches(nodes, edges, end, s, end.layer[s]) /\ layer[s] = end.layer[s]
    BY <1>2, <1>3, <1>4 DEF Descends
  <2>2. CASE \E p \in D : CallsOf(nodes, edges, p, s) /\ end.layer[p] + 1 = end.layer[s]
    <3>1. PICK p \in D : CallsOf(nodes, edges, p, s) /\ end.layer[p] + 1 = end.layer[s]
      BY <2>2
    <3>2. PICK e \in ToSet(edges) : e.from = p /\ e.to = s /\ p # s
      BY <3>1 DEF CallsOf
    <3>3. e \in sent
      BY <1>3, <3>2
    <3>4. layer[p] = end.layer[p]
      BY <1>3, <1>4
    <3> QED
      BY <2>1, <3>1, <3>2, <3>3, <3>4
  <2>3. CASE end.layer[s] = 0 /\ s \in roots
    BY <2>1, <2>3
  <2> QED
    BY <2>1, <2>2, <2>3 DEF Reaches
<1>10. roots \subseteq D /\ \A s \in roots : layer[s] = 0
  <2>1. \A s \in roots : s \in D /\ end.layer[s] = 0
    BY <1>2, <1>5 DEF RootsFirst
  <2> QED
    BY <1>4, <1>6, <2>1
<1>11. ASSUME NEW s \in Names(nodes) PROVE layer[s] \in Nat /\ layer[s] <= end.depth
  <2>1. \A r \in D : end.layer[r] < end.depth
    BY <1>2 DEF LayersAreLow
  <2> QED
    BY <1>3, <1>4, <2>1
<1>12. ASSUME NEW s \in reached PROVE s \in D
  <2>1. SUFFICES ASSUME s \notin D PROVE FALSE
    OBVIOUS
  <2>2. PICK e \in sent : e.to = s /\ layer[e.from] < layer[s]
    BY <1>10, <1>12, <2>1
  <2>3. e.from \in Names(nodes) /\ layer[s] = end.depth
    BY <1>4, <2>1, <2>2
  <2>4. e.from \in D
    <3>1. e.from \notin D => layer[e.from] = end.depth
      BY <1>4, <2>3
    <3> QED
      BY <1>3, <2>2, <2>3, <3>1
  <2>5. CallsOf(nodes, edges, e.from, s)
    BY <1>7, <2>2
  <2> QED
    BY <1>8, <2>1, <2>4, <2>5
<1>13. ASSUME NEW s \in D PROVE s \in reached
  <2>1. s \in Names(nodes)
    BY <1>3
  <2>2. CASE s \in roots
    BY <2>1, <2>2
  <2>3. CASE s \notin roots
    <3>1. PICK e \in sent : e.to = s /\ layer[e.from] + 1 = layer[s]
      BY <1>9, <2>3
    <3>2. layer[e.from] \in Nat
      BY <1>11, <3>1
    <3>3. layer[e.from] < layer[s]
      BY <1>11, <2>1, <3>1, <3>2
    <3> QED
      BY <2>1, <3>1, <3>3
  <2> QED
    BY <2>2, <2>3
<1> HIDE DEF D, layer
<1>14. \A e \in sent : e.from \in reached => layer[e.to] <= layer[e.from] + 1
  <2> SUFFICES ASSUME NEW e \in sent, e.from \in reached PROVE layer[e.to] <= layer[e.from] + 1
    OBVIOUS
  <2>1. e.from \in D /\ CallsOf(nodes, edges, e.from, e.to)
    BY <1>7, <1>12
  <2> QED
    BY <1>8, <2>1
<1>15. \A s \in reached \ roots : \E e \in sent : e.to = s /\ layer[e.from] = layer[s] - 1
  <2> SUFFICES ASSUME NEW s \in reached \ roots PROVE \E e \in sent : e.to = s /\ layer[e.from] = layer[s] - 1
    OBVIOUS
  <2>1. PICK e \in sent : e.to = s /\ layer[e.from] + 1 = layer[s]
    BY <1>9, <1>12
  <2>2. e.from \in Names(nodes) /\ s \in Names(nodes)
    OBVIOUS
  <2>3. layer[e.from] \in Nat /\ layer[s] \in Nat
    BY <1>11, <2>2
  <2>4. layer[e.from] = layer[s] - 1
    BY <2>1, <2>3
  <2> QED
    BY <2>1, <2>4
<1>16. \A s \in Names(nodes) \ reached, t \in reached : layer[t] < layer[s]
  <2> SUFFICES ASSUME NEW s \in Names(nodes) \ reached, NEW t \in reached PROVE layer[t] < layer[s]
    OBVIOUS
  <2>1. s \notin D /\ t \in D /\ t \in Names(nodes)
    BY <1>12, <1>13
  <2>2. layer[s] = end.depth /\ layer[t] = end.layer[t]
    BY <1>4, <2>1
  <2> QED
    BY <1>2, <2>1, <2>2 DEF LayersAreLow, D
<1> QED
  BY <1>10, <1>14, <1>15, <1>16 DEF CallersComeFirst, layer
-----------------------------------------------------------------------------
(* Coordinates *)

\* A larger number of equal steps is no shorter, and one more is a step longer.
LEMMA MoreSteps ==
  ASSUME NEW a \in Int, NEW b \in Int, NEW k \in Nat, a <= b
  PROVE  a * k <= b * k /\ a * k \in Int /\ b * k \in Int
<1>1. (b - a) * k >= 0 /\ (b - a) * k = b * k - a * k
  BY SMT
<1> QED
  BY <1>1

\* A step further is at least a step longer.
LEMMA StepsApart ==
  ASSUME NEW a \in Int, NEW b \in Int, NEW k \in Nat, a < b
  PROVE  a * k + k <= b * k /\ a * k \in Int /\ b * k \in Int
<1>1. (a + 1) * k <= b * k
  BY MoreSteps
<1>2. (a + 1) * k = a * k + k
  BY SMT
<1> QED
  BY <1>1, <1>2

\* A half and a share of what there is.
LEMMA HalfOf ==
  ASSUME NEW a \in Nat
  PROVE  a \div 2 \in Nat /\ a \div 2 <= a
OBVIOUS

\* As many shares as there are slots are no more than there is.
LEMMA ShareOf ==
  ASSUME NEW a \in Nat, NEW b \in Nat \ {0}
  PROVE  a \div b \in Nat /\ (a \div b) * b <= a
OBVIOUS

\* spread: the gap is no less than the least, and slots gaps, the items between
\* and around them and two pads fill the length.
LEMMA SpreadFits ==
  ASSUME NEW least \in Nat, NEW most \in Nat, least <= most, NEW extra \in Nat, NEW slots \in Nat, NEW size \in Nat,
         NEW gap, gap = Gap(least, most, extra, slots), NEW pad, pad = Pad(least, gap, extra, slots)
  PROVE  /\ gap \in Nat /\ gap >= least /\ pad \in Nat /\ pad >= PAD_MIN
         /\ pad + slots * (size + gap) + size + PAD_MIN <= 2 * PAD_MIN + Stack(slots + 1, size, least) + extra
<1> DEFINE more == gap - least
           rest == extra - more * slots
<1>1. PAD_MIN \in Nat
  BY DEF PAD_MIN, Px
<1>2. more \in Nat /\ more * slots \in Nat /\ more * slots <= extra
  <2>1. CASE slots = 0
    <3>1. more = 0
      BY <2>1 DEF Gap
    <3> QED
      BY <3>1
  <2>2. CASE slots # 0
    <3> DEFINE share == extra \div slots
    <3>1. share \in Nat /\ share * slots <= extra
      BY <2>2, ShareOf
    <3> HIDE DEF share
    <3>2. gap = least + Smaller(most - least, share)
      BY <2>2 DEF Gap, share
    <3>3. more \in Nat /\ more <= share
      BY <3>1, <3>2 DEF Smaller
    <3> HIDE DEF more
    <3>4. more * slots <= share * slots /\ more * slots \in Int /\ share * slots \in Int
      BY <3>1, <3>3, MoreSteps
    <3>5. more * slots >= 0
      BY <3>3, SMT
    <3> QED
      BY <3>1, <3>3, <3>4, <3>5
  <2> QED
    BY <2>1, <2>2
<1>3. gap \in Int /\ gap = least + more
  BY DEF Gap, Smaller
<1>4. rest \in Nat /\ rest \div 2 \in Nat /\ rest \div 2 <= rest
  <2>1. rest \in Nat
    BY <1>2
  <2> HIDE DEF rest
  <2> QED
    BY <2>1, HalfOf
<1>5. pad = PAD_MIN + rest \div 2
  BY DEF Pad
<1>6. Stack(slots + 1, size, least) = slots * size + size + slots * least
  <2>1. Larger(0, (slots + 1) - 1) = slots
    BY DEF Larger
  <2>2. (slots + 1) * size = slots * size + size
    BY SMT
  <2> QED
    BY <2>1, <2>2 DEF Stack
<1>7. slots * (size + gap) = slots * size + slots * least + more * slots
  <2> HIDE DEF more, rest
  <2>1. slots * (size + (least + more)) = slots * size + slots * least + more * slots
    BY <1>2, SMT
  <2> QED
    BY <1>3, <2>1
<1>8. rest = extra - more * slots
  OBVIOUS
<1>9. slots * size \in Int /\ slots * least \in Int
  OBVIOUS
<1> DEFINE a == slots * size
           b == slots * least
           c == more * slots
           d == slots * (size + gap)
           h == rest \div 2
<1> HIDE DEF more, rest, a, b, c, d, h
<1>10. /\ a \in Int /\ b \in Int /\ c \in Nat /\ c <= extra /\ rest = extra - c /\ d = a + b + c
       /\ h \in Nat /\ h <= rest /\ rest \in Nat
       /\ pad = PAD_MIN + h /\ Stack(slots + 1, size, least) = a + size + b
  BY <1>2, <1>4, <1>5, <1>6, <1>7, <1>8, <1>9 DEF a, b, c, d, h
<1>11. pad + d + size + PAD_MIN <= 2 * PAD_MIN + Stack(slots + 1, size, least) + extra
  BY <1>1, <1>10
<1>12. gap \in Nat /\ gap >= least /\ pad \in Nat /\ pad >= PAD_MIN
  BY <1>1, <1>2, <1>3, <1>10
<1> QED
  BY <1>11, <1>12 DEF d

\* A service has one node.
LEMMA ServiceOf ==
  ASSUME NEW nodes \in Seq(MapNode), OnePerService(nodes)
  PROVE  /\ \A n \in ToSet(nodes) : n \in MapNode /\ n.service \in Names(nodes)
         /\ \A n, k \in ToSet(nodes) : n.service = k.service => n = k
         /\ \A s \in Names(nodes) : \E n \in ToSet(nodes) : n.service = s
<1>1. \A n \in ToSet(nodes) : n \in MapNode /\ \E i \in 1..Len(nodes) : n = nodes[i]
  BY MembersAre
<1>2. \A n, k \in ToSet(nodes) : n.service = k.service => n = k
  <2> SUFFICES ASSUME NEW n \in ToSet(nodes), NEW k \in ToSet(nodes), n.service = k.service PROVE n = k
    OBVIOUS
  <2>1. PICK i \in 1..Len(nodes) : n = nodes[i]
    BY <1>1
  <2>2. PICK j \in 1..Len(nodes) : k = nodes[j]
    BY <1>1
  <2> QED
    BY <2>1, <2>2 DEF OnePerService
<1> QED
  BY <1>1, <1>2 DEF Names

\* Where a box stands in its column.
InColumn(layer, l) == {s \in DOMAIN layer : layer[s] = l}
Over(m, n) == m.spans > n.spans \/ (m.spans = n.spans /\ m.service < n.service)

\* A column has as many boxes as there are nodes, at most.
LEMMA ColumnIsFinite ==
  ASSUME NEW nodes \in Seq(MapNode), NEW layer, DOMAIN layer = Names(nodes), NEW l
  PROVE  /\ IsFiniteSet(InColumn(layer, l)) /\ Cardinality(InColumn(layer, l)) \in Nat
         /\ Cardinality(InColumn(layer, l)) <= Len(nodes)
<1>1. InColumn(layer, l) \in SUBSET Names(nodes)
  BY DEF InColumn
<1>2. IsFiniteSet(Names(nodes)) /\ Cardinality(Names(nodes)) <= Len(nodes) /\ Cardinality(Names(nodes)) \in Nat
  BY NamesAreFew
<1>3. IsFiniteSet(InColumn(layer, l)) /\ Cardinality(InColumn(layer, l)) <= Cardinality(Names(nodes))
  BY <1>1, <1>2, FS_Subset
<1>4. Cardinality(InColumn(layer, l)) \in Nat
  BY <1>3, FS_CardinalityType
<1> QED
  BY <1>2, <1>3, <1>4

\* A box has fewer boxes over it than its column has, and more than those over it.
LEMMA RowsAre ==
  ASSUME NEW nodes \in Seq(MapNode), OnePerService(nodes), NEW layer, DOMAIN layer = Names(nodes),
         NEW n \in ToSet(nodes)
  PROVE  /\ RowOf(nodes, layer, n) \in Nat
         /\ RowOf(nodes, layer, n) < Cardinality(InColumn(layer, layer[n.service]))
         /\ \A k \in ToSet(nodes) : layer[k.service] = layer[n.service] /\ Over(n, k)
                                      => RowOf(nodes, layer, n) < RowOf(nodes, layer, k)
<1> DEFINE Upper(k) == {m \in ToSet(nodes) : layer[m.service] = layer[k.service] /\ Over(m, k)}
           l == layer[n.service]
           C == InColumn(layer, l)
<1>1. /\ \A k \in ToSet(nodes) : k \in MapNode /\ k.service \in Names(nodes)
      /\ \A m, k \in ToSet(nodes) : m.service = k.service => m = k
  BY ServiceOf
<1>2. \A k : RowOf(nodes, layer, k) = Cardinality(Upper(k))
  BY DEF RowOf, Over
<1>3. ASSUME NEW k \in ToSet(nodes)
      PROVE  /\ IsFiniteSet(Upper(k)) /\ Cardinality(Upper(k)) \in Nat
             /\ Cardinality(Upper(k)) < Cardinality(InColumn(layer, layer[k.service]))
  <2> DEFINE D == InColumn(layer, layer[k.service])
             E == D \ {k.service}
             U == Upper(k)
             f == [m \in U |-> m.service]
  <2>1. IsFiniteSet(D) /\ Cardinality(D) \in Nat
    BY ColumnIsFinite
  <2>2. k.service \in D
    BY <1>1 DEF InColumn
  <2>3. f \in Injection(U, E)
    <3>1. ~ Over(k, k)
      <4>1. k.spans \in Int /\ k.service \in Int
        BY <1>1 DEF MapNode
      <4> QED
        BY <4>1 DEF Over
    <3>2. \A m \in U : m.service \in E
      <4> SUFFICES ASSUME NEW m \in U PROVE m.service \in E
        OBVIOUS
      <4>1. m \in ToSet(nodes) /\ layer[m.service] = layer[k.service] /\ m # k
        BY <3>1
      <4> QED
        BY <1>1, <4>1 DEF InColumn
    <3>3. \A m, j \in U : m.service = j.service => m = j
      BY <1>1
    <3> HIDE DEF U, E
    <3> QED
      BY <3>2, <3>3 DEF Injection, IsInjective
  <2> HIDE DEF D, U, f
  <2>4. IsFiniteSet(E) /\ Cardinality(E) = Cardinality(D) - 1
    BY Zenon, <2>1, <2>2, FS_RemoveElement
  <2> HIDE DEF E
  <2>5. IsFiniteSet(U) /\ Cardinality(U) <= Cardinality(E)
    BY <2>3, <2>4, FS_Injection
  <2>6. Cardinality(U) \in Nat
    BY <2>5, FS_CardinalityType
  <2>7. Cardinality(U) < Cardinality(D)
    BY <2>1, <2>4, <2>5, <2>6
  <2> QED
    BY <2>5, <2>6, <2>7 DEF U, D
<1>4. ASSUME NEW k \in ToSet(nodes), layer[k.service] = layer[n.service], Over(n, k)
      PROVE  Cardinality(Upper(n)) < Cardinality(Upper(k))
  <2>1. n \in Upper(k)
    BY <1>4
  <2>2. n \notin Upper(n)
    <3>1. n.spans \in Int /\ n.service \in Int
      BY <1>1 DEF MapNode
    <3> QED
      BY <3>1 DEF Over
  <2>3. Upper(n) \subseteq Upper(k)
    <3> SUFFICES ASSUME NEW m \in Upper(n) PROVE m \in Upper(k)
      OBVIOUS
    <3>1. /\ n.spans \in Int /\ n.service \in Int /\ k.spans \in Int /\ k.service \in Int
          /\ m.spans \in Int /\ m.service \in Int
      BY <1>1 DEF MapNode
    <3>2. Over(m, n) /\ m \in ToSet(nodes) /\ layer[m.service] = layer[k.service]
      BY <1>4
    <3>3. Over(m, k)
      BY <1>4, <3>1, <3>2 DEF Over
    <3> QED
      BY <3>2, <3>3
  <2> DEFINE U == Upper(n)
             W == Upper(k)
  <2>4. IsFiniteSet(W) /\ Cardinality(W) \in Nat /\ Cardinality(U) \in Nat
    BY Zenon, <1>3
  <2>5. U \in SUBSET W /\ U # W
    BY <2>1, <2>2, <2>3
  <2> HIDE DEF U, W
  <2>6. Cardinality(U) <= Cardinality(W) /\ Cardinality(U) # Cardinality(W)
    BY <2>4, <2>5, FS_Subset
  <2>7. Cardinality(U) < Cardinality(W)
    BY <2>4, <2>6
  <2> QED
    BY <2>7 DEF U, W
<1> HIDE DEF Upper
<1> QED
  BY <1>2, <1>3, <1>4

\* The boxes are on the canvas.
Boxed(boxes, s) ==
  /\ boxes.at[s].x \in Int /\ boxes.at[s].y \in Int
  /\ boxes.at[s].x >= PAD_MIN /\ boxes.at[s].x + NODE_W + PAD_MIN <= boxes.width
  /\ boxes.at[s].y >= PAD_MIN /\ boxes.at[s].y + NODE_H + PAD_MIN <= boxes.height

\* They are apart.
Apart(boxes, s, t) ==
  \/ boxes.at[s].x + NODE_W + GAP_X_MIN <= boxes.at[t].x
  \/ boxes.at[t].x + NODE_W + GAP_X_MIN <= boxes.at[s].x
  \/ boxes.at[s].y + NODE_H + GAP_Y_MIN <= boxes.at[t].y
  \/ boxes.at[t].y + NODE_H + GAP_Y_MIN <= boxes.at[s].y

\* The last column, and the rows of the fullest one.
LastColumn(layer, last) ==
  (\E s \in DOMAIN layer : layer[s] = last) /\ \A s \in DOMAIN layer : layer[s] <= last
MostRows(layer, last, k) ==
  (\E l \in 0..last : Cardinality(InColumn(layer, l)) = k) /\ \A l \in 0..last : Cardinality(InColumn(layer, l)) <= k

\* There is a last column.
LEMMA LastColumnIs ==
  ASSUME NEW nodes \in Seq(MapNode), nodes # <<>>, NEW layer \in [Names(nodes) -> 0..(Len(nodes) + 2)]
  PROVE  \E last \in 0..(Len(nodes) + 2) : LastColumn(layer, last)
<1> DEFINE n == Len(nodes)
           f == [i \in 1..n |-> layer[nodes[i].service]]
<1>1. n \in Nat \ {0} /\ DOMAIN nodes = 1..n /\ DOMAIN layer = Names(nodes)
  BY EmptySeq
<1>2. \A i \in 1..n : nodes[i].service \in Names(nodes)
  BY NamesAreFew
<1>3. f \in [1..n -> Int] /\ \A i \in 1..n : f[i] = layer[nodes[i].service] /\ f[i] \in 0..(n + 2)
  BY <1>1, <1>2
<1>4. \A s \in Names(nodes) : \E i \in 1..n : nodes[i].service = s
  BY <1>1 DEF Names, ToSet
<1> HIDE DEF n, f
<1>5. PICK i \in 1..n : \A j \in 1..n : f[j] <= f[i]
  BY Zenon, <1>1, <1>3, HasGreatest
<1>6. LastColumn(layer, f[i])
  <2>1. layer[nodes[i].service] = f[i] /\ nodes[i].service \in DOMAIN layer
    BY <1>1, <1>2, <1>3
  <2>2. ASSUME NEW s \in DOMAIN layer PROVE layer[s] <= f[i]
    <3>1. PICK j \in 1..n : nodes[j].service = s
      BY <1>1, <1>4
    <3>2. f[j] = layer[s]
      BY <1>3, <3>1
    <3> QED
      BY <1>5, <3>2
  <2> QED
    BY <2>1, <2>2 DEF LastColumn
<1> QED
  BY <1>3, <1>6 DEF n

\* There is a fullest column, with a box at least.
LEMMA MostRowsIs ==
  ASSUME NEW nodes \in Seq(MapNode), NEW layer \in [Names(nodes) -> 0..(Len(nodes) + 2)],
         NEW last \in 0..(Len(nodes) + 2), LastColumn(layer, last)
  PROVE  \E k \in 1..Len(nodes) : MostRows(layer, last, k)
<1> DEFINE n == last + 1
           f == [i \in 1..n |-> Cardinality(InColumn(layer, i - 1))]
<1>1. n \in Nat \ {0} /\ DOMAIN layer = Names(nodes) /\ last \in Nat
  OBVIOUS
<1>2. \A l : /\ IsFiniteSet(InColumn(layer, l)) /\ Cardinality(InColumn(layer, l)) \in Nat
             /\ Cardinality(InColumn(layer, l)) <= Len(nodes)
  BY <1>1, ColumnIsFinite
<1>3. f \in [1..n -> Int] /\ \A i \in 1..n : f[i] = Cardinality(InColumn(layer, i - 1))
  BY <1>2
<1>4. \A l \in 0..last : l + 1 \in 1..n /\ f[l + 1] = Cardinality(InColumn(layer, l))
  <2> SUFFICES ASSUME NEW l \in 0..last PROVE l + 1 \in 1..n /\ f[l + 1] = Cardinality(InColumn(layer, l))
    OBVIOUS
  <2>1. l + 1 \in 1..n /\ (l + 1) - 1 = l
    BY <1>1
  <2> HIDE DEF f, n
  <2>2. f[l + 1] = Cardinality(InColumn(layer, (l + 1) - 1))
    BY <1>3, <2>1
  <2> QED
    BY <2>1, <2>2
<1>5. \A i \in 1..n : i - 1 \in 0..last
  BY <1>1
<1> HIDE DEF n, f
<1>6. PICK i \in 1..n : \A j \in 1..n : f[j] <= f[i]
  BY Zenon, <1>1, <1>3, HasGreatest
<1>7. f[i] >= 1
  <2>1. PICK s \in DOMAIN layer : layer[s] = last
    BY DEF LastColumn
  <2> DEFINE C == InColumn(layer, last)
  <2>2. s \in C
    BY <2>1 DEF InColumn
  <2>3. IsFiniteSet(C) /\ Cardinality(C) \in Nat
    BY <1>2
  <2> HIDE DEF C
  <2>4. Cardinality(C) # 0
    BY <2>2, <2>3, FS_EmptySet
  <2>5. f[last + 1] = Cardinality(C) /\ last + 1 \in 1..n
    BY <1>1, <1>4 DEF C
  <2>6. f[last + 1] <= f[i] /\ f[i] \in Int
    BY <1>3, <1>6, <2>5
  <2> QED
    BY <2>3, <2>4, <2>5, <2>6
<1>8. MostRows(layer, last, f[i])
  <2>1. i - 1 \in 0..last /\ Cardinality(InColumn(layer, i - 1)) = f[i]
    BY <1>3, <1>5
  <2>2. \A l \in 0..last : Cardinality(InColumn(layer, l)) <= f[i]
    BY Zenon, <1>4, <1>6
  <2> QED
    BY <2>1, <2>2 DEF MostRows
<1>9. f[i] \in 1..Len(nodes)
  <2>1. f[i] \in Nat /\ f[i] <= Len(nodes)
    BY <1>2, <1>3
  <2> QED
    BY <1>7, <2>1
<1> QED
  BY <1>8, <1>9

\* Half of what a column leaves free: its rows, centred, stay within the fullest.
LEMMA ColumnIsCentred ==
  ASSUME NEW size \in Nat, NEW gap \in Nat, NEW most \in Nat \ {0}, NEW rows \in Nat \ {0}, rows <= most,
         NEW row \in Nat, row < rows, NEW above, above = (Stack(most, size, gap) - Stack(rows, size, gap)) \div 2
  PROVE  above \in Nat /\ above + row * (size + gap) <= (most - 1) * (size + gap)
<1> DEFINE k == size + gap
<1>1. k \in Nat
  OBVIOUS
<1>2. \A c \in Nat \ {0} : Stack(c, size, gap) = (c - 1) * k + size
  <2> SUFFICES ASSUME NEW c \in Nat \ {0} PROVE Stack(c, size, gap) = (c - 1) * k + size
    OBVIOUS
  <2>1. Larger(0, c - 1) = c - 1
    BY DEF Larger
  <2>2. c * size + (c - 1) * gap = (c - 1) * (size + gap) + size
    BY SMT
  <2> QED
    BY <2>1, <2>2 DEF Stack
<1> DEFINE a == (most - 1) * k
           b == (rows - 1) * k
           c == row * k
<1>3. c <= b /\ b <= a /\ a \in Int /\ b \in Int /\ c \in Int
  <2>1. row \in Int /\ rows - 1 \in Int /\ most - 1 \in Int /\ row <= rows - 1 /\ rows - 1 <= most - 1
    OBVIOUS
  <2> HIDE DEF k
  <2> QED
    BY <1>1, <2>1, MoreSteps
<1>4. above = (a - b) \div 2
  <2>1. Stack(most, size, gap) = a + size /\ Stack(rows, size, gap) = b + size
    BY <1>2
  <2> HIDE DEF a, b
  <2>2. (a + size) - (b + size) = a - b
    BY <1>3
  <2> QED
    BY <2>1, <2>2
<1> HIDE DEF a, b, c
<1>5. a - b \in Nat
  BY <1>3
<1>6. above \in Nat /\ above <= a - b
  BY <1>4, <1>5, HalfOf
<1>7. above + c <= a
  BY <1>3, <1>5, <1>6
<1> QED
  BY <1>6, <1>7 DEF a, c, k

\* Every box is on the canvas, and any two are apart.
LEMMA BoxesAre ==
  ASSUME NEW nodes \in Seq(MapNode), nodes # <<>>, OnePerService(nodes),
         NEW layer \in [Names(nodes) -> 0..(Len(nodes) + 2)], NEW pane \in MapCanvas,
         NEW boxes, boxes = Boxes(nodes, layer, pane)
  PROVE  /\ boxes.width \in Int /\ boxes.height \in Int /\ DOMAIN boxes.at = Names(nodes)
         /\ \A s \in Names(nodes) : Boxed(boxes, s)
         /\ \A s, t \in Names(nodes) : s # t => Apart(boxes, s, t)
<1> DEFINE Rows(l) == Cardinality({s \in DOMAIN layer : layer[s] = l})
           lastCol == CHOOSE l \in 0..Len(nodes) + 2 :
                        (\E s \in DOMAIN layer : layer[s] = l) /\ \A s \in DOMAIN layer : layer[s] <= l
           maxRows == CHOOSE k \in 1..Len(nodes) :
                        (\E l \in 0..lastCol : Rows(l) = k) /\ \A l \in 0..lastCol : Rows(l) <= k
           minW == 2 * PAD_MIN + Stack(lastCol + 1, NODE_W, GAP_X_MIN)
           minH == 2 * PAD_MIN + Stack(maxRows, NODE_H, GAP_Y_MIN)
           width == Larger(pane.w, minW)
           height == Larger(pane.h, minH)
           gapX == Gap(GAP_X_MIN, GAP_X_MAX, width - minW, lastCol)
           gapY == Gap(GAP_Y_MIN, GAP_Y_MAX, height - minH, maxRows - 1)
           padX == Pad(GAP_X_MIN, gapX, width - minW, lastCol)
           padY == Pad(GAP_Y_MIN, gapY, height - minH, maxRows - 1)
           FreeOver(l) == (Stack(maxRows, NODE_H, gapY) - Stack(Rows(l), NODE_H, gapY)) \div 2
           Place(n) == [x |-> padX + layer[n.service] * (NODE_W + gapX),
                        y |-> padY + FreeOver(layer[n.service]) + RowOf(nodes, layer, n) * (NODE_H + gapY)]
           Of(s) == CHOOSE n \in ToSet(nodes) : n.service = s
<1>1. boxes = [at |-> [s \in DOMAIN layer |-> Place(Of(s))], width |-> width, height |-> height]
  BY DEF Boxes
<1>2. boxes.width = width /\ boxes.height = height /\ boxes.at = [s \in Names(nodes) |-> Place(Of(s))]
  <2> HIDE DEF Place, Of, width, height
  <2> QED
    BY <1>1
<1>3. DOMAIN layer = Names(nodes) /\ Len(nodes) \in Nat
  OBVIOUS
<1>4. \A l : Rows(l) = Cardinality(InColumn(layer, l))
  BY DEF InColumn
<1>5. lastCol \in 0..(Len(nodes) + 2) /\ LastColumn(layer, lastCol)
  <2>1. \E l \in 0..(Len(nodes) + 2) : LastColumn(layer, l)
    BY LastColumnIs
  <2>2. lastCol = CHOOSE l \in 0..(Len(nodes) + 2) : LastColumn(layer, l)
    BY DEF LastColumn
  <2> HIDE DEF lastCol
  <2> QED
    BY <2>1, <2>2
<1>6. maxRows \in 1..Len(nodes) /\ MostRows(layer, lastCol, maxRows)
  <2>1. \E k \in 1..Len(nodes) : MostRows(layer, lastCol, k)
    <3> HIDE DEF lastCol
    <3> QED
      BY <1>5, MostRowsIs
  <2>2. maxRows = CHOOSE k \in 1..Len(nodes) : MostRows(layer, lastCol, k)
    <3> HIDE DEF lastCol
    <3> QED
      BY DEF MostRows, InColumn
  <2> HIDE DEF lastCol, maxRows
  <2> QED
    BY <2>1, <2>2
<1> HIDE DEF lastCol, maxRows, Rows
<1>7. /\ NODE_W \in Nat /\ NODE_H \in Nat /\ GAP_X_MIN \in Nat /\ GAP_X_MAX \in Nat /\ GAP_X_MIN <= GAP_X_MAX
      /\ GAP_Y_MIN \in Nat /\ GAP_Y_MAX \in Nat /\ GAP_Y_MIN <= GAP_Y_MAX /\ PAD_MIN \in Nat
  BY DEF NODE_W, NODE_H, GAP_X_MIN, GAP_X_MAX, GAP_Y_MIN, GAP_Y_MAX, PAD_MIN, Px
<1>8. \A c \in Nat, size \in Nat, gap \in Nat : Stack(c, size, gap) \in Int
  BY DEF Stack, Larger
<1>9. lastCol \in Nat /\ lastCol + 1 \in Nat /\ maxRows \in Nat \ {0} /\ maxRows - 1 \in Nat
  BY <1>3, <1>5, <1>6
<1>10. minW \in Int /\ minH \in Int /\ pane.w \in Int /\ pane.h \in Int
  <2>1. Stack(lastCol + 1, NODE_W, GAP_X_MIN) \in Int /\ Stack(maxRows, NODE_H, GAP_Y_MIN) \in Int
    BY Zenon, <1>7, <1>8, <1>9
  <2> QED
    BY <1>7, <2>1 DEF MapCanvas
<1> HIDE DEF minW, minH
<1>11. width \in Int /\ width - minW \in Nat /\ height \in Int /\ height - minH \in Nat
  BY <1>10 DEF Larger
<1> HIDE DEF width, height
<1>12. /\ gapX \in Nat /\ gapX >= GAP_X_MIN /\ padX \in Nat /\ padX >= PAD_MIN
       /\ padX + lastCol * (NODE_W + gapX) + NODE_W + PAD_MIN <= width
  <2>1. /\ gapX \in Nat /\ gapX >= GAP_X_MIN /\ padX \in Nat /\ padX >= PAD_MIN
        /\ padX + lastCol * (NODE_W + gapX) + NODE_W + PAD_MIN
             <= 2 * PAD_MIN + Stack(lastCol + 1, NODE_W, GAP_X_MIN) + (width - minW)
    BY Zenon, <1>7, <1>9, <1>11, SpreadFits
  <2>2. minW + (width - minW) = width
    BY <1>10, <1>11
  <2> HIDE DEF gapX, padX
  <2> QED
    BY <2>1, <2>2 DEF minW
<1>13. /\ gapY \in Nat /\ gapY >= GAP_Y_MIN /\ padY \in Nat /\ padY >= PAD_MIN
       /\ padY + (maxRows - 1) * (NODE_H + gapY) + NODE_H + PAD_MIN <= height
  <2>1. /\ gapY \in Nat /\ gapY >= GAP_Y_MIN /\ padY \in Nat /\ padY >= PAD_MIN
        /\ padY + (maxRows - 1) * (NODE_H + gapY) + NODE_H + PAD_MIN
             <= 2 * PAD_MIN + Stack((maxRows - 1) + 1, NODE_H, GAP_Y_MIN) + (height - minH)
    BY Zenon, <1>7, <1>9, <1>11, SpreadFits
  <2>2. minH + (height - minH) = height /\ (maxRows - 1) + 1 = maxRows
    BY <1>9, <1>10, <1>11
  <2> HIDE DEF gapY, padY
  <2> QED
    BY <2>1, <2>2 DEF minH
<1> HIDE DEF gapX, gapY, padX, padY
<1> DEFINE RowAt(s) == RowOf(nodes, layer, Of(s))
           kX == NODE_W + gapX
           kY == NODE_H + gapY
<1>14. ASSUME NEW s \in Names(nodes) PROVE Of(s) \in ToSet(nodes) /\ Of(s).service = s
  BY ServiceOf
<1>15. ASSUME NEW s \in Names(nodes)
       PROVE  /\ layer[s] \in Nat /\ layer[s] <= lastCol /\ layer[s] \in 0..lastCol
              /\ Rows(layer[s]) \in Nat /\ Rows(layer[s]) <= maxRows
              /\ RowAt(s) \in Nat /\ RowAt(s) < Rows(layer[s])
  <2>1. layer[s] \in Nat /\ layer[s] <= lastCol
    BY <1>3, <1>5 DEF LastColumn
  <2>2. layer[s] \in 0..lastCol
    BY <1>9, <2>1
  <2>3. Rows(layer[s]) \in Nat
    BY <1>3, <1>4, ColumnIsFinite
  <2>4. Rows(layer[s]) <= maxRows
    BY <1>4, <1>6, <2>2 DEF MostRows
  <2> DEFINE n == Of(s)
  <2>5. n \in ToSet(nodes) /\ n.service = s
    BY <1>14
  <2> HIDE DEF n
  <2>6. RowOf(nodes, layer, n) \in Nat /\ RowOf(nodes, layer, n) < Cardinality(InColumn(layer, layer[n.service]))
    BY <1>3, <2>5, RowsAre
  <2> QED
    BY <1>4, <2>1, <2>2, <2>3, <2>4, <2>5, <2>6 DEF n
<1>16. ASSUME NEW s \in Names(nodes), NEW t \in Names(nodes), s # t, layer[s] = layer[t]
       PROVE  RowAt(s) < RowAt(t) \/ RowAt(t) < RowAt(s)
  <2> DEFINE n == Of(s)
             k == Of(t)
  <2>1. n \in ToSet(nodes) /\ n.service = s /\ k \in ToSet(nodes) /\ k.service = t
    BY <1>14
  <2> HIDE DEF n, k
  <2>2. n \in MapNode /\ k \in MapNode
    BY <2>1, ServiceOf
  <2>3. Over(n, k) \/ Over(k, n)
    <3>1. n.spans \in Int /\ k.spans \in Int /\ n.service \in Int /\ k.service \in Int /\ n.service # k.service
      BY <1>16, <2>1, <2>2 DEF MapNode
    <3> QED
      BY <3>1 DEF Over
  <2>4. Over(n, k) => RowOf(nodes, layer, n) < RowOf(nodes, layer, k)
    BY <1>3, <1>16, <2>1, RowsAre
  <2>5. Over(k, n) => RowOf(nodes, layer, k) < RowOf(nodes, layer, n)
    BY <1>3, <1>16, <2>1, RowsAre
  <2> QED
    BY <2>3, <2>4, <2>5 DEF n, k
<1>17. ASSUME NEW s \in Names(nodes)
       PROVE  /\ boxes.at[s].x = padX + layer[s] * kX
              /\ boxes.at[s].y = padY + FreeOver(layer[s]) + RowAt(s) * kY
  <2>1. Of(s).service = s
    BY <1>14
  <2>2. boxes.at[s] = Place(Of(s))
    <3> HIDE DEF Place, Of
    <3> QED
      BY <1>2
  <2> HIDE DEF Of, FreeOver
  <2>3. Place(Of(s)).x = padX + layer[s] * kX /\ Place(Of(s)).y = padY + FreeOver(layer[s]) + RowAt(s) * kY
    BY <2>1
  <2> QED
    BY <2>2, <2>3
<1> HIDE DEF RowAt, Of, Place
<1>18. kX \in Nat /\ kY \in Nat /\ kX >= NODE_W + GAP_X_MIN /\ kY >= NODE_H + GAP_Y_MIN
  BY <1>7, <1>12, <1>13
<1>19. ASSUME NEW s \in Names(nodes)
       PROVE  FreeOver(layer[s]) \in Nat /\ FreeOver(layer[s]) + RowAt(s) * kY <= (maxRows - 1) * kY
  <2> DEFINE rows == Rows(layer[s])
             row == RowAt(s)
  <2>1. rows \in Nat /\ rows <= maxRows /\ row \in Nat /\ row < rows
    BY <1>15
  <2> HIDE DEF rows, row
  <2>2. rows \in Nat \ {0}
    BY <2>1
  <2>3. /\ (Stack(maxRows, NODE_H, gapY) - Stack(rows, NODE_H, gapY)) \div 2 \in Nat
        /\ (Stack(maxRows, NODE_H, gapY) - Stack(rows, NODE_H, gapY)) \div 2 + row * (NODE_H + gapY)
             <= (maxRows - 1) * (NODE_H + gapY)
    BY Zenon, <1>7, <1>9, <1>13, <2>1, <2>2, ColumnIsCentred
  <2> QED
    BY <2>3 DEF rows, row
<1> HIDE DEF kX, kY, FreeOver
<1>20. ASSUME NEW s \in Names(nodes) PROVE Boxed(boxes, s)
  <2> DEFINE a == layer[s] * kX
             b == lastCol * kX
             c == RowAt(s) * kY
             d == (maxRows - 1) * kY
  <2>1. a \in Nat /\ a <= b /\ b \in Int
    <3>1. layer[s] \in Nat /\ layer[s] <= lastCol
      BY <1>15
    <3>2. a <= b /\ a \in Int /\ b \in Int
      BY <1>9, <1>18, <3>1, MoreSteps
    <3>3. 0 * kX <= a /\ 0 * kX = 0
      BY <1>18, <3>1, MoreSteps
    <3> QED
      BY <3>2, <3>3
  <2>2. c \in Nat /\ d \in Int
    <3>1. RowAt(s) \in Nat
      BY <1>15
    <3>2. 0 * kY <= c /\ 0 * kY = 0 /\ c \in Int
      BY <1>18, <3>1, MoreSteps
    <3>3. d \in Int
      BY <1>9, <1>18
    <3> QED
      BY <3>2, <3>3
  <2>3. FreeOver(layer[s]) \in Nat /\ FreeOver(layer[s]) + c <= d
    BY <1>19
  <2>4. boxes.at[s].x = padX + a /\ boxes.at[s].y = padY + FreeOver(layer[s]) + c
    BY <1>17
  <2>5. padX + b + NODE_W + PAD_MIN <= width /\ padY + d + NODE_H + PAD_MIN <= height
    BY <1>12, <1>13 DEF kX, kY
  <2> DEFINE e == FreeOver(layer[s])
             x == boxes.at[s].x
             y == boxes.at[s].y
  <2> HIDE DEF a, b, c, d, e, x, y
  <2>6. x \in Int /\ x >= PAD_MIN /\ x + NODE_W + PAD_MIN <= width
    BY <1>7, <1>11, <1>12, <2>1, <2>4, <2>5 DEF x
  <2>7. y \in Int /\ y >= PAD_MIN /\ y + NODE_H + PAD_MIN <= height
    <3>1. e \in Nat /\ e + c <= d /\ y = padY + e + c
      BY <2>3, <2>4 DEF e, y
    <3> QED
      BY <1>7, <1>11, <1>13, <2>2, <2>5, <3>1
  <2> QED
    BY <1>2, <2>6, <2>7 DEF Boxed, x, y
<1>21. ASSUME NEW s \in Names(nodes), NEW t \in Names(nodes), layer[s] < layer[t]
       PROVE  boxes.at[s].x + NODE_W + GAP_X_MIN <= boxes.at[t].x
  <2> DEFINE a == layer[s] * kX
             b == layer[t] * kX
  <2>1. a + kX <= b /\ a \in Int /\ b \in Int
    <3>1. layer[s] \in Int /\ layer[t] \in Int
      BY <1>15
    <3> QED
      BY Zenon, <1>18, <1>21, <3>1, StepsApart
  <2>2. boxes.at[s].x = padX + a /\ boxes.at[t].x = padX + b
    BY <1>17
  <2> DEFINE x == boxes.at[s].x
             y == boxes.at[t].x
  <2>3. x = padX + a /\ y = padX + b
    BY <2>2
  <2> HIDE DEF a, b, x, y
  <2>4. x + NODE_W + GAP_X_MIN <= y
    BY <1>7, <1>12, <1>18, <2>1, <2>3
  <2> QED
    BY <2>4 DEF x, y
<1>22. ASSUME NEW s \in Names(nodes), NEW t \in Names(nodes), layer[s] = layer[t], RowAt(s) < RowAt(t)
       PROVE  boxes.at[s].y + NODE_H + GAP_Y_MIN <= boxes.at[t].y
  <2> DEFINE a == RowAt(s) * kY
             b == RowAt(t) * kY
             e == FreeOver(layer[s])
  <2>1. a + kY <= b /\ a \in Int /\ b \in Int
    <3>1. RowAt(s) \in Int /\ RowAt(t) \in Int
      BY <1>15
    <3> QED
      BY Zenon, <1>18, <1>22, <3>1, StepsApart
  <2>2. boxes.at[s].y = padY + e + a /\ boxes.at[t].y = padY + e + b /\ e \in Nat
    BY <1>17, <1>19, <1>22
  <2> DEFINE x == boxes.at[s].y
             y == boxes.at[t].y
  <2>3. x = padY + e + a /\ y = padY + e + b /\ e \in Nat
    BY <2>2
  <2> HIDE DEF a, b, e, x, y
  <2>4. x + NODE_H + GAP_Y_MIN <= y
    BY <1>7, <1>13, <1>18, <2>1, <2>3
  <2> QED
    BY <2>4 DEF x, y
<1>23. ASSUME NEW s \in Names(nodes), NEW t \in Names(nodes), s # t PROVE Apart(boxes, s, t)
  <2>1. layer[s] \in Nat /\ layer[t] \in Nat
    BY <1>15
  <2>2. CASE layer[s] < layer[t]
    BY <1>21, <2>2 DEF Apart
  <2>3. CASE layer[t] < layer[s]
    BY <1>21, <2>3 DEF Apart
  <2>4. CASE layer[s] = layer[t]
    <3>1. CASE RowAt(s) < RowAt(t)
      BY <1>22, <2>4, <3>1 DEF Apart
    <3>2. CASE RowAt(t) < RowAt(s)
      <4>1. boxes.at[t].y + NODE_H + GAP_Y_MIN <= boxes.at[s].y
        BY <1>22, <2>4, <3>2
      <4> QED
        BY <4>1 DEF Apart
    <3> QED
      BY <1>16, <1>23, <2>4, <3>1, <3>2
  <2> QED
    BY <2>1, <2>2, <2>3, <2>4
<1> QED
  BY <1>2, <1>11, <1>20, <1>23

\* The first few of the numbers up to n.
LEMMA SomeUpto ==
  ASSUME NEW n \in Nat, NEW i \in 1..n
  PROVE  i \in Nat \ {0} /\ 1..i \in SUBSET (1..n) /\ 1..i # {}
<1>1. 1 \in 1..i /\ \A j \in 1..i : j \in 1..n
  OBVIOUS
<1> QED
  BY <1>1

\* The canvas grows to hold the labels.
LEMMA CanvasIs ==
  ASSUME NEW R, NEW lines \in Seq(R), \A l \in R : l.label.y \in Int, NEW boxes, boxes.height \in Int
  PROVE  /\ Canvas(boxes, lines) \in Int /\ boxes.height <= Canvas(boxes, lines)
         /\ \A l \in ToSet(lines) : l.label.y + 18 * Px <= Canvas(boxes, lines)
<1> DEFINE n == Len(lines)
           S == Int
           start == boxes.height
           low(i) == lines[i].label.y + 18 * Px
           Round == [i \in 1..n |-> [h \in S |-> Larger(h, low(i))]]
           Body(k) == [U \in SUBSET DOMAIN lines |->
                         IF U = {} THEN start
                         ELSE LET x == Max(U) IN Larger(k[U \ {x}], lines[x].label.y + 18 * Px)]
           iter == CHOOSE k : k = Body(k)
<1>1. n \in Nat /\ DOMAIN lines = 1..n /\ start \in S /\ \A i \in 1..n : low(i) \in Int
  <2>1. \A i \in 1..n : lines[i] \in R
    OBVIOUS
  <2> QED
    BY <2>1 DEF Px
<1>2. Round \in [1..n -> [S -> S]]
  <2>1. \A i \in 1..n, h \in S : Larger(h, low(i)) \in S
    BY <1>1 DEF Larger
  <2> HIDE DEF low
  <2> QED
    BY <2>1
<1> HIDE DEF start
<1>3. PICK g \in [SUBSET (1..n) -> S] : Folds(g, n, start, Round)
  <2> HIDE DEF n, S, Round
  <2> QED
    BY Zenon, <1>1, <1>2, FoldIsDefined
<1>4. g = Body(g)
  <2>1. ASSUME NEW U \in SUBSET (1..n), U # {}
        PROVE  Max(U) \in 1..n /\ U \ {Max(U)} \in SUBSET (1..n)
    BY Zenon, <1>1, <2>1, MaxOfNumbers
  <2>2. ASSUME NEW U \in SUBSET (1..n), U # {} PROVE g[U] = Body(g)[U]
    <3> DEFINE x == Max(U)
               W == U \ {x}
    <3>1. x \in 1..n /\ W \in SUBSET (1..n)
      BY <2>1, <2>2
    <3>2. g[U] = Round[x][g[W]]
      BY Zenon, <1>3, <2>2 DEF Folds
    <3>3. g[W] \in S
      BY <1>3, <3>1
    <3> HIDE DEF x, W
    <3>4. g[U] = Larger(g[W], low(x))
      BY <3>1, <3>2, <3>3
    <3> QED
      BY <1>1, <2>2, <3>4 DEF x, W
  <2>3. g[{}] = start
    BY <1>3 DEF Folds
  <2>4. \A U \in SUBSET (1..n) : g[U] = Body(g)[U]
    BY Zenon, <1>1, <2>2, <2>3
  <2> QED
    BY Zenon, <1>1, <1>3, <2>4
<1>5. iter = Body(iter)
  BY Zenon, <1>4
<1>6. Canvas(boxes, lines) = iter[1..n]
  BY <1>1 DEF Canvas, FoldLeft, MapThenFoldSet, start
<1> HIDE DEF iter
<1>7. iter[{}] = start
  BY <1>5
<1>8. ASSUME NEW i \in 1..n, iter[1..(i - 1)] \in S PROVE iter[1..i] = Round[i][iter[1..(i - 1)]]
  <2>1. 1..i \in SUBSET DOMAIN lines /\ 1..i # {} /\ Max(1..i) = i /\ (1..i) \ {i} = 1..(i - 1)
    <3>1. i \in Nat \ {0} /\ 1..i \in SUBSET (1..n) /\ 1..i # {}
      <4>1. n \in Nat
        BY <1>1
      <4> HIDE DEF n
      <4> QED
        BY Zenon, <4>1, SomeUpto
    <3>2. Max(1..i) = i /\ (1..i) \ {i} = 1..(i - 1)
      BY <3>1, MaxUpto
    <3> QED
      BY <1>1, <3>1, <3>2
  <2>2. iter[1..i] = Body(iter)[1..i]
    BY <1>5, Zenon
  <2>3. Body(iter)[1..i] = Larger(iter[1..(i - 1)], low(i))
    BY Zenon, <2>1
  <2> HIDE DEF low
  <2> QED
    BY <1>8, <2>2, <2>3
<1>9. PICK f : IsLoop(f, S, n, start, Round) /\ f[n] = iter[1..n]
  <2>1. Unfolds(iter, S, n, start, Round)
    BY <1>7, <1>8 DEF Unfolds
  <2>2. n \in Nat /\ start \in S
    BY <1>1
  <2> HIDE DEF n, S, Round, low
  <2> QED
    BY <1>2, <2>1, <2>2, FoldLoop
<1>10. f \in [0..n -> S] /\ f[0] = start /\ \A i \in 1..n : f[i] = Round[i][f[i - 1]]
  BY <1>9 DEF IsLoop
<1>11. \A i \in 1..n : f[i - 1] \in Int /\ f[i] = Larger(f[i - 1], low(i))
  <2> SUFFICES ASSUME NEW i \in 1..n PROVE f[i - 1] \in Int /\ f[i] = Larger(f[i - 1], low(i))
    OBVIOUS
  <2>1. i - 1 \in 0..n
    BY <1>1
  <2>2. f[i - 1] \in Int /\ f[i] = Round[i][f[i - 1]]
    <3> HIDE DEF Round
    <3> QED
      BY <1>10, <2>1
  <2> HIDE DEF low
  <2> QED
    BY <2>2
<1> HIDE DEF low, n, Round
<1> DEFINE P == {i \in 0..n : start <= f[i] /\ \A j \in 1..i : low(j) <= f[i]}
<1>12. 0 \in P
  BY <1>1, <1>10
<1>13. ASSUME NEW i \in 1..n, i - 1 \in P PROVE i \in P
  <2>1. f[i - 1] \in Int /\ low(i) \in Int /\ f[i] = Larger(f[i - 1], low(i)) /\ i \in 0..n
    BY <1>1, <1>11
  <2>2. f[i - 1] <= f[i] /\ low(i) <= f[i] /\ f[i] \in Int
    BY <2>1 DEF Larger
  <2>3. start <= f[i - 1] /\ \A j \in 1..(i - 1) : low(j) <= f[i - 1]
    BY <1>13
  <2>4. \A j \in 1..i : low(j) <= f[i]
    <3> SUFFICES ASSUME NEW j \in 1..i PROVE low(j) <= f[i]
      OBVIOUS
    <3>1. low(j) \in Int /\ (j = i \/ j \in 1..(i - 1))
      BY <1>1
    <3> QED
      BY <2>1, <2>2, <2>3, <3>1
  <2>5. start <= f[i]
    BY <1>1, <2>1, <2>2, <2>3
  <2> QED
    BY <2>1, <2>4, <2>5
<1>14. n \in P
  <2> HIDE DEF P
  <2>1. \A i \in 1..n : i - 1 \in P => i \in P
    BY <1>13
  <2>2. \A i \in 0..n : i \in P
    BY <1>1, <1>12, <2>1, Rounds, Zenon
  <2> QED
    BY <1>1, <2>2
<1>15. f[n] \in Int /\ start <= f[n] /\ \A j \in 1..n : low(j) <= f[n]
  BY <1>1, <1>10, <1>14
<1>16. \A l \in ToSet(lines) : \E j \in 1..n : l = lines[j]
  BY <1>1 DEF ToSet
<1>17. ASSUME NEW l \in ToSet(lines) PROVE l.label.y + 18 * Px <= f[n]
  <2>1. PICK j \in 1..n : l = lines[j]
    BY <1>16
  <2>2. low(j) <= f[n]
    BY <1>15
  <2> QED
    BY <2>1, <2>2 DEF low
<1>18. Canvas(boxes, lines) = f[n]
  BY <1>6, <1>9
<1> QED
  BY <1>15, <1>17, <1>18 DEF start

\* A label lies between the boxes of its line.
LEMMA LabelIs ==
  ASSUME NEW boxes, boxes.width \in Int, boxes.height \in Int, NEW s, NEW t, Boxed(boxes, s), Boxed(boxes, t),
         NEW label, label = Label(boxes.at[s], boxes.at[t])
  PROVE  label.x \in 0..boxes.width /\ label.y \in Int
<1> DEFINE ax == boxes.at[s].x
           ay == boxes.at[s].y
           bx == boxes.at[t].x
           by == boxes.at[t].y
           W == boxes.width
<1>1. NODE_W \in Nat /\ NODE_H \in Nat /\ PAD_MIN \in Nat /\ 18 * Px \in Int /\ 8 * Px \in Int
  BY DEF NODE_W, NODE_H, PAD_MIN, Px
<1>2. /\ ax \in Int /\ ay \in Int /\ bx \in Int /\ by \in Int /\ W \in Int
      /\ ax >= PAD_MIN /\ ax + NODE_W + PAD_MIN <= W /\ bx >= PAD_MIN /\ bx + NODE_W + PAD_MIN <= W
  BY DEF Boxed
<1>3. /\ label.x = (ax + NODE_W + bx) \div 2
      /\ label.y = IF bx > ax + NODE_W + 8 * Px THEN (ay + by + NODE_H) \div 2 ELSE Larger(ay, by) + NODE_H + 18 * Px
  <2>1. label = [x |-> (ax + NODE_W + bx) \div 2,
                 y |-> IF bx > ax + NODE_W + 8 * Px THEN (ay + by + NODE_H) \div 2
                       ELSE Larger(ay, by) + NODE_H + 18 * Px]
    BY DEF Label
  <2> HIDE DEF ax, ay, bx, by
  <2> QED
    BY <2>1
<1> HIDE DEF ax, ay, bx, by, W
<1>4. (ax + NODE_W + bx) \div 2 \in 0..W
  BY <1>1, <1>2
<1>5. (ay + by + NODE_H) \div 2 \in Int /\ Larger(ay, by) \in Int
  BY <1>1, <1>2 DEF Larger
<1>6. label.y \in Int
  BY <1>1, <1>3, <1>5
<1> QED
  BY <1>3, <1>4, <1>6 DEF W

\* Only edges between services with a node are drawn.
LEMMA DrawnIs ==
  ASSUME NEW nodes, NEW edges \in Seq(MapEdge)
  PROVE  /\ Drawn(nodes, edges) \in Seq(MapEdge) /\ ToSet(Drawn(nodes, edges)) \subseteq ToSet(edges)
         /\ DOMAIN Drawn(nodes, edges) = 1..Len(Drawn(nodes, edges)) /\ Len(Drawn(nodes, edges)) \in Nat
         /\ \A i \in DOMAIN Drawn(nodes, edges) :
              LET e == Drawn(nodes, edges)[i] IN e \in ToSet(edges) /\ e.from \in Names(nodes) /\ e.to \in Names(nodes)
<1> DEFINE T == {e \in ToSet(edges) : {e.from, e.to} \subseteq Names(nodes)}
           d == Drawn(nodes, edges)
<1>1. d \in Seq(MapEdge) /\ ToSet(d) = ToSet(edges) \cap T
  BY OnlyIs DEF Drawn
<1> HIDE DEF d
<1>2. DOMAIN d = 1..Len(d) /\ Len(d) \in Nat
  BY <1>1
<1>3. \A i \in DOMAIN d : d[i] \in T
  BY <1>1 DEF ToSet
<1> QED
  BY <1>1, <1>2, <1>3 DEF d

\* The boxes and the lines of the map.
MapBoxes(nodes, edges, pane) == Boxes(nodes, Layers(nodes, edges), pane)
MapLines(nodes, edges, pane) ==
  [i \in DOMAIN Drawn(nodes, edges) |-> Line(edges, MapBoxes(nodes, edges, pane), Drawn(nodes, edges)[i])]

\* The layout by its parts.
LEMMA LayoutIs ==
  ASSUME NEW nodes, nodes # <<>>, NEW edges, NEW pane
  PROVE  /\ Layout(nodes, edges, pane).at = MapBoxes(nodes, edges, pane).at
         /\ Layout(nodes, edges, pane).layer = Layers(nodes, edges)
         /\ Layout(nodes, edges, pane).lines = MapLines(nodes, edges, pane)
         /\ Layout(nodes, edges, pane).width = MapBoxes(nodes, edges, pane).width
         /\ Layout(nodes, edges, pane).height = Canvas(MapBoxes(nodes, edges, pane), MapLines(nodes, edges, pane))
<1> DEFINE boxes == MapBoxes(nodes, edges, pane)
           lines == MapLines(nodes, edges, pane)
<1>1. Layout(nodes, edges, pane) =
        [at |-> boxes.at, layer |-> Layers(nodes, edges), lines |-> lines,
         width |-> boxes.width, height |-> Canvas(boxes, lines)]
  BY DEF Layout, Laid, MapBoxes, MapLines
<1> HIDE DEF boxes, lines
<1> QED
  BY <1>1 DEF boxes, lines

\* The layout is readable at every size of the pane and for every graph.
LEMMA LayoutIsReadable ==
  ASSUME NEW nodes \in Seq(MapNode), OnePerService(nodes), NEW edges \in Seq(MapEdge), NEW pane \in MapCanvas
  PROVE  Readable(Layout(nodes, edges, pane))
<1> DEFINE laid == Layout(nodes, edges, pane)
           boxes == MapBoxes(nodes, edges, pane)
           drawn == Drawn(nodes, edges)
           lines == MapLines(nodes, edges, pane)
<1>1. CASE nodes = <<>>
  <2>1. laid = [at |-> <<>>, layer |-> <<>>, lines |-> <<>>, width |-> 360 * Px, height |-> 180 * Px]
    BY <1>1 DEF Layout
  <2>2. laid.at = <<>> /\ laid.lines = <<>>
    BY <2>1
  <2> HIDE DEF laid
  <2>3. DOMAIN laid.at = {} /\ ToSet(laid.lines) = {}
    BY <2>2 DEF ToSet
  <2>4. Readable(laid)
    BY <2>3 DEF Readable
  <2> QED
    BY <2>4 DEF laid
<1>2. CASE nodes # <<>>
  <2>1. Layers(nodes, edges) \in [Names(nodes) -> 0..(Len(nodes) + 2)]
    BY LayersAre
  <2>2. /\ boxes.width \in Int /\ boxes.height \in Int /\ DOMAIN boxes.at = Names(nodes)
        /\ \A s \in Names(nodes) : Boxed(boxes, s)
        /\ \A s, t \in Names(nodes) : s # t => Apart(boxes, s, t)
    BY <1>2, <2>1, BoxesAre DEF MapBoxes
  <2>3. /\ laid.at = boxes.at /\ laid.lines = lines
        /\ laid.width = boxes.width /\ laid.height = Canvas(boxes, lines)
    BY <1>2, LayoutIs
  <2> HIDE DEF laid
  <2>4. /\ DOMAIN drawn = 1..Len(drawn) /\ Len(drawn) \in Nat
        /\ \A i \in DOMAIN drawn : drawn[i].from \in Names(nodes) /\ drawn[i].to \in Names(nodes)
    BY DrawnIs
  <2>13. lines = [i \in DOMAIN drawn |-> Line(edges, boxes, drawn[i])]
    BY DEF MapLines
  <2> HIDE DEF drawn, boxes, lines
  <2>5. ASSUME NEW i \in DOMAIN drawn
        PROVE  lines[i].label.x \in 0..boxes.width /\ lines[i].label.y \in Int
    <3>1. lines[i].label = Label(boxes.at[drawn[i].from], boxes.at[drawn[i].to])
      BY <2>13 DEF Line
    <3>2. Boxed(boxes, drawn[i].from) /\ Boxed(boxes, drawn[i].to)
      BY <2>2, <2>4
    <3> QED
      BY <2>2, <3>1, <3>2, LabelIs
  <2>6. DOMAIN lines = DOMAIN drawn
    BY <2>13
  <2>7. lines \in Seq(ToSet(lines)) /\ \A l \in ToSet(lines) : l.label.x \in 0..boxes.width /\ l.label.y \in Int
    <3>1. \A i \in 1..Len(drawn) : lines[i] \in ToSet(lines)
      BY <2>4, <2>6 DEF ToSet
    <3>2. lines = [i \in 1..Len(drawn) |-> lines[i]]
      BY <2>4, <2>6, <2>13
    <3>3. lines \in [1..Len(drawn) -> ToSet(lines)]
      BY <3>1, <3>2
    <3>4. lines \in Seq(ToSet(lines))
      BY <2>4, <3>3
    <3>5. \A l \in ToSet(lines) : \E i \in DOMAIN drawn : l = lines[i]
      BY <2>6 DEF ToSet
    <3> QED
      BY <2>5, <3>4, <3>5
  <2>8. /\ laid.height \in Int /\ boxes.height <= laid.height
        /\ \A l \in ToSet(lines) : l.label.y + 18 * Px <= laid.height
    BY Zenon, <2>2, <2>3, <2>7, CanvasIs
  <2>9. ASSUME NEW s \in DOMAIN laid.at
        PROVE  /\ laid.at[s].x >= PAD_MIN /\ laid.at[s].x + NODE_W + PAD_MIN <= laid.width
               /\ laid.at[s].y >= PAD_MIN /\ laid.at[s].y + NODE_H + PAD_MIN <= laid.height
    <3> DEFINE y == boxes.at[s].y
               h == boxes.height
               k == laid.height
    <3>1. Boxed(boxes, s)
      BY <2>2, <2>3
    <3>2. y + NODE_H + PAD_MIN <= h /\ y \in Int /\ h \in Int /\ k \in Int /\ h <= k
      BY <2>2, <2>8, <3>1 DEF Boxed
    <3>3. NODE_H \in Int /\ PAD_MIN \in Int
      BY DEF NODE_H, PAD_MIN, Px
    <3> HIDE DEF y, h, k
    <3>4. y + NODE_H + PAD_MIN <= k
      BY <3>2, <3>3
    <3> QED
      BY <2>3, <3>1, <3>4 DEF Boxed, y, k
  <2>10. ASSUME NEW s \in DOMAIN laid.at, NEW t \in DOMAIN laid.at \ {s}
         PROVE  \/ laid.at[s].x + NODE_W + GAP_X_MIN <= laid.at[t].x
                \/ laid.at[t].x + NODE_W + GAP_X_MIN <= laid.at[s].x
                \/ laid.at[s].y + NODE_H + GAP_Y_MIN <= laid.at[t].y
                \/ laid.at[t].y + NODE_H + GAP_Y_MIN <= laid.at[s].y
    <3>1. Apart(boxes, s, t)
      BY <2>2, <2>3
    <3> QED
      BY <2>3, <3>1 DEF Apart
  <2>11. \A l \in ToSet(laid.lines) : l.label.x \in 0..laid.width /\ l.label.y + 18 * Px <= laid.height
    BY <2>3, <2>7, <2>8
  <2>12. Readable(laid)
    BY <2>9, <2>10, <2>11 DEF Readable
  <2> QED
    BY <2>12 DEF laid
<1> QED
  BY <1>1, <1>2

\* A line that is drawn, for an edge.
LEMMA LinesAreEdges ==
  ASSUME NEW nodes, nodes # <<>>, NEW edges \in Seq(MapEdge), NEW pane, NEW l \in ToSet(Layout(nodes, edges, pane).lines)
  PROVE  l.edge \in ToSet(edges) /\ l.edge.errors \in Int
<1> DEFINE boxes == MapBoxes(nodes, edges, pane)
           drawn == Drawn(nodes, edges)
<1>1. Layout(nodes, edges, pane).lines = [i \in DOMAIN drawn |-> Line(edges, boxes, drawn[i])]
  <2>1. Layout(nodes, edges, pane).lines = MapLines(nodes, edges, pane)
    BY LayoutIs
  <2> QED
    BY <2>1 DEF MapLines
<1>2. \A i \in DOMAIN drawn : drawn[i] \in ToSet(edges)
  BY DrawnIs
<1> HIDE DEF drawn, boxes
<1>3. PICK i \in DOMAIN drawn : l = Line(edges, boxes, drawn[i])
  BY <1>1 DEF ToSet
<1>4. l.edge = drawn[i]
  BY <1>3 DEF Line
<1>5. l.edge \in MapEdge
  BY <1>2, <1>4, MembersAre
<1> QED
  BY <1>2, <1>4, <1>5 DEF MapEdge

\* A bright line joins boxes that are not dim.
LEMMA LinesMeet ==
  ASSUME NEW nodes \in Seq(MapNode), NEW edges \in Seq(MapEdge), NEW pane
  PROVE  LinesMeetBoxes(nodes, edges, Layout(nodes, edges, pane))
<1> DEFINE laid == Layout(nodes, edges, pane)
<1> SUFFICES ASSUME NEW selected \in Names(nodes) \cup {0}, NEW mode \in {"calls", "errors"},
                    NEW l \in Bright(laid, edges, selected, mode), NEW s \in {l.edge.from, l.edge.to}
             PROVE  ~ Dim(nodes, edges, selected, mode, s)
  BY DEF LinesMeetBoxes
<1>1. l \in ToSet(laid.lines) /\ (mode = "errors" => l.edge.errors > 0)
      /\ (selected # 0 => {l.edge.from, l.edge.to} \subseteq Related(selected, edges))
  BY DEF Bright
<1>2. nodes # <<>>
  <2>1. SUFFICES ASSUME nodes = <<>> PROVE FALSE
    OBVIOUS
  <2>2. laid = [at |-> <<>>, layer |-> <<>>, lines |-> <<>>, width |-> 360 * Px, height |-> 180 * Px]
    BY <2>1 DEF Layout
  <2>3. laid.lines = <<>>
    BY <2>2
  <2> HIDE DEF laid
  <2> QED
    BY <1>1, <2>3 DEF ToSet
<1>3. l.edge \in ToSet(edges)
  BY <1>1, <1>2, LinesAreEdges
<1> HIDE DEF laid
<1>4. mode = "errors" => s \in ErrorNames(nodes, edges)
  BY <1>1, <1>3 DEF ErrorNames
<1>5. selected # 0 => s \in Related(selected, edges)
  BY <1>1
<1> QED
  BY <1>4, <1>5 DEF Dim

-----------------------------------------------------------------------------
(* The pages together *)

AllPages == {"services", "overview", "activity", "logs", "map", "trace", "dock", "chart", "form", "shell"}

\* What every step keeps: the invariant of the page on screen, or the input.
PagesInv ==
  /\ view.page \in AllPages \/ view \in Inputs
  /\ Svc!Here => ServicesInv
  /\ Ovw!Here => OverviewInv
  /\ Feed!Here => FeedInv
  /\ Logs!Here => LogsInv
  /\ Map!Here => MapInv
  /\ Trace!Here => TracePageInv
  /\ Dock!Here => DockInv
  /\ Chart!Here => ChartInv
  /\ Form!Here => FormInv
  /\ Shell!Here => ShellInv

\* The invariant of a page says which page it is.
LEMMA OnePage ==
  /\ ServicesInv => view.page = "services"
  /\ OverviewInv => view.page = "overview"
  /\ FeedInv => view.page = "activity"
  /\ LogsInv => view.page = "logs"
  /\ MapInv => view.page = "map"
  /\ TracePageInv => view.page = "trace"
  /\ DockInv => view.page = "dock"
  /\ ChartInv => view.page = "chart"
  /\ FormInv => view.page = "form"
  /\ ShellInv => view.page = "shell"
<1>1. ServicesInv => view.page = "services"
  BY DEF ServicesInv, ServicesState, ServiceViews
<1>2. OverviewInv => view.page = "overview"
  BY DEF OverviewInv, OverviewViews
<1>3. FeedInv => view.page = "activity"
  BY DEF FeedInv, FeedState, FeedViews
<1>4. LogsInv => view.page = "logs"
  BY DEF LogsInv, LogsState, LogViews
<1>5. MapInv => view.page = "map"
  BY DEF MapInv, MapViews
<1>6. TracePageInv => view.page = "trace"
  BY DEF TracePageInv, TraceState, TraceViews
<1>7. DockInv => view.page = "dock"
  BY DEF DockInv, DockViews
<1>8. ChartInv => view.page = "chart"
  BY DEF ChartInv, ChartViews
<1>9. FormInv => view.page = "form"
  BY DEF FormInv, FormViews
<1>10. ShellInv => view.page = "shell"
  BY DEF ShellInv, ShellViews
<1> QED
  BY <1>1, <1>2, <1>3, <1>4, <1>5, <1>6, <1>7, <1>8, <1>9, <1>10

\* A page that keeps its invariant keeps that of the pages.
LEMMA PageKeepsAll ==
  ASSUME ServicesInv \/ OverviewInv \/ FeedInv \/ LogsInv \/ MapInv \/ TracePageInv \/ DockInv \/ ChartInv
         \/ FormInv \/ ShellInv
  PROVE  PagesInv
BY OnePage DEF PagesInv, AllPages, Svc!Here, Ovw!Here, Feed!Here, Logs!Here, Map!Here, Trace!Here, Dock!Here,
               Chart!Here, Form!Here, Shell!Here

LEMMA PagesStart == Init => PagesInv
<1> SUFFICES ASSUME Init PROVE PagesInv
  OBVIOUS
<1>1. CASE view \in Inputs
  <2>1. view.page \in PureFunctions
    BY <1>1, InputsAssumption
  <2> QED
    BY <1>1, <2>1 DEF PagesInv, PureFunctions, Svc!Here, Ovw!Here, Feed!Here, Logs!Here, Map!Here, Trace!Here,
                      Dock!Here, Chart!Here, Form!Here, Shell!Here
<1>2. CASE \/ Svc!Init \/ Ovw!Init \/ Feed!Init \/ Logs!Init \/ Map!Init \/ Trace!Init
           \/ Dock!Init \/ Chart!Init \/ Form!Init \/ Shell!Init
  BY <1>2, PageKeepsAll, ServicesStarts, OverviewStarts, FeedStarts, LogsStarts, MapStarts, TraceStarts, DockStarts,
     ChartStarts, FormStarts, ShellStarts
<1> QED
  BY <1>1, <1>2 DEF Init

\* A step is of the page on screen.
LEMMA StepsOfThePage ==
  /\ Svc!Next => Svc!Here
  /\ Ovw!Next => Ovw!Here
  /\ Feed!Next => Feed!Here
  /\ Logs!Next => Logs!Here
  /\ Map!Next => Map!Here
  /\ Trace!Next => Trace!Here
  /\ Dock!Next => Dock!Here
  /\ Chart!Next => Chart!Here
  /\ Form!Next => Form!Here
  /\ Shell!Next => Shell!Here
<1>1. Svc!Next => Svc!Here
  BY Zenon DEF Svc!Next, Svc!Poll, Svc!ApplyRange, Svc!GoElsewhere, Svc!Enter, Svc!OpenTraces, Svc!OpenCause, Svc!OpenOp,
         Svc!Focus, Svc!Select, Svc!OpenNeighbor
<1>2. Ovw!Next => Ovw!Here
  BY Zenon DEF Ovw!Next, Ovw!Poll, Ovw!Enter, Ovw!Leave, Ovw!ApplyRange, Ovw!Succeeds, Ovw!Fails
<1>3. Feed!Next => Feed!Here
  BY Zenon DEF Feed!Next, Feed!SetRange, Feed!SlideWindow, Feed!SetActive, Feed!Remount, Feed!Pull, Feed!Scroll,
         Feed!PointerEnter, Feed!PointerLeave, Feed!ShowPending, Feed!Publish, Feed!Hydrated, Feed!HydrateFails,
         Feed!PullEnds
<1>4. Logs!Next => Logs!Here
  BY Zenon DEF Logs!Next, Logs!Leave, Logs!Submit, Logs!Reset, Logs!Receive, Logs!Select, Logs!Scroll, Logs!PointerEnter,
         Logs!PointerLeave, Logs!ShowPending, Logs!Enter, Logs!Edit, Logs!Write, Logs!Fails, Logs!Succeeds
<1>5. Map!Next => Map!Here
  BY Zenon DEF Map!Next, Map!Enter, Map!Leave, Map!Poll, Map!Select, Map!SetMode, Map!GraphFails, Map!MetricsArrive,
         Map!GraphArrives
<1>6. Trace!Next => Trace!Here
  BY Zenon DEF Trace!Next, Trace!Back, Trace!GoElsewhere, Trace!Return, Trace!Open, Trace!FollowLink, Trace!SelectSpan,
         Trace!SetTab, Trace!HeadArrives, Trace!SearchEnds, Trace!LogsEnd, Trace!Leave
<1>7. Dock!Next => Dock!Here
  BY Zenon DEF Dock!Next, Dock!Toggle, Dock!HeadUp, Dock!DblClick, Dock!HeadDown, Dock!HeadMove, Dock!ResizePane
<1>8. Chart!Next => Chart!Here
  BY Zenon DEF Chart!Next, Chart!Resize, Chart!Unhover, Chart!NewData, Chart!NewTheme, Chart!Hover
<1>9. Form!Next => Form!Here
  BY Zenon DEF Form!Next, Form!SetWindow, Form!SetDisabled, Form!Focus, Form!Close, Form!Type, Form!Highlight, Form!Pick,
         Form!NamesArrive, Form!Enabled
<1>10. Shell!Next => Shell!Here
  BY Zenon DEF Shell!Next, Shell!OpenLogs, Shell!Reload, Shell!OnView, Shell!OpenService, Shell!OpenTracesForService,
         Shell!OpenTracesForm, Shell!OpenTrace, Shell!TracesPage, Shell!OnTheme, Shell!WatchSystemTheme, Shell!MayJump
<1> QED
  BY <1>1, <1>2, <1>3, <1>4, <1>5, <1>6, <1>7, <1>8, <1>9, <1>10

LEMMA PagesStep == PagesInv /\ Next => PagesInv'
<1> SUFFICES ASSUME PagesInv, Next PROVE PagesInv'
  OBVIOUS
<1>1. \/ ServicesInv' \/ OverviewInv' \/ FeedInv' \/ LogsInv' \/ MapInv' \/ TracePageInv' \/ DockInv' \/ ChartInv'
      \/ FormInv' \/ ShellInv'
  BY StepsOfThePage, ServicesSteps, OverviewSteps, FeedSteps, LogsSteps, MapSteps, TraceSteps, DockSteps, ChartSteps,
     FormSteps, ShellSteps DEF PagesInv, Next
<1>2. (\/ ServicesInv \/ OverviewInv \/ FeedInv \/ LogsInv \/ MapInv \/ TracePageInv \/ DockInv \/ ChartInv
       \/ FormInv \/ ShellInv)'
  BY <1>1
<1> QED
  BY <1>2, PageKeepsAll, PTL

LEMMA PagesStutter == PagesInv /\ UNCHANGED vars => PagesInv'
<1> SUFFICES ASSUME PagesInv, view' = view, calls' = calls PROVE PagesInv'
  BY DEF vars
<1>1. ServicesInv => ServicesInv'
  BY DEF ServicesInv
<1>2. OverviewInv => OverviewInv'
  BY DEF OverviewInv, LatestLoad, NumbersOfRange, Ovw!NeverStuck, Ovw!Window
<1>3. FeedInv => FeedInv'
  BY DEF FeedInv
<1>4. LogsInv => LogsInv'
  BY DEF LogsInv
<1>5. MapInv => MapInv'
  BY DEF MapInv, GraphComesFirst, Map!ShowsTheSelection, Map!NeverStuck
<1>6. TracePageInv => TracePageInv'
  BY DEF TracePageInv
<1>7. DockInv => DockInv'
  BY DEF DockInv, HeightIsKept
<1>8. ChartInv => ChartInv'
  BY DEF ChartInv
<1>9. FormInv => FormInv'
  BY DEF FormInv, CallsAreWanted, Form!ShowsTheSelection
<1>10. ShellInv => ShellInv'
  BY DEF ShellInv, Shell!ShellKeepsTrack
<1> QED
  BY <1>1, <1>2, <1>3, <1>4, <1>5, <1>6, <1>7, <1>8, <1>9, <1>10
     DEF PagesInv, Svc!Here, Ovw!Here, Feed!Here, Logs!Here, Map!Here, Trace!Here, Dock!Here, Chart!Here, Form!Here,
         Shell!Here

\* PagesInv holds in every state.
THEOREM PagesAreSound == Spec => []PagesInv
<1>1. Init => PagesInv
  BY PagesStart
<1>2. PagesInv /\ [Next]_vars => PagesInv'
  BY PagesStep, PagesStutter
<1> QED
  BY <1>1, <1>2, PTL DEF Spec

\* What a page shows is what was last asked for, or else the call that will
\* replace it is under way: no late answer brings back an earlier one, on every
\* page and for every number of services, traces and searches.  A chart that had
\* no size when its data came is the exception (missed).
THEOREM SelectionIsShown == Spec => []PagesShowTheSelection
<1>1. PagesInv => PagesShowTheSelection
  BY ServicesSafe, OverviewShows, LogsSafe, TraceSafe, ChartSafe
     DEF PagesInv, PagesShowTheSelection, MapInv, FormInv
<1> QED
  BY <1>1, PagesAreSound, PTL

\* A page that waits has the call under way that will end its wait, whatever
\* fails, is aborted or is late.  The traces page is left out where it does break
\* this: a trace left before the head of its answer (LinkOpensTrace).
THEOREM NoPageIsStuck == Spec => []PagesNeverStuck
<1>1. PagesInv => PagesNeverStuck
  BY ServicesSafe, LogsSafe, TraceSafe DEF PagesInv, PagesNeverStuck, OverviewInv, MapInv
<1> QED
  BY <1>1, PagesAreSound, PTL

\* No row that came over the stream is lost before as many newer ones have come
\* as the list holds, however the reader scrolls, points and searches.
THEOREM NoRowIsLost == Spec => []LiveListsLoseNothing
<1>1. PagesInv => LiveListsLoseNothing
  BY FeedSafe, LogsSafe DEF PagesInv, LiveListsLoseNothing
<1> QED
  BY <1>1, PagesAreSound, PTL

\* The dock opens at the height it was left with; where the browser stores the
\* theme, it is the chosen one; and the URL names a trace on the page it was
\* opened on and on its logs only.
THEOREM ChoicesStay == Spec => []ChoicesAreKept
<1>1. PagesInv => ChoicesAreKept
  BY DockSafe DEF PagesInv, ChoicesAreKept, ShellInv
<1> QED
  BY <1>1, PagesAreSound, PTL

\* The window of a trace is one the server takes and holds its row, if that is no
\* older than the largest window; halves of a window are halves, and a search
\* survives its URL: for every form in whole seconds, every row and every clock.
THEOREM WindowsAreKept == Spec => []SearchesKeepTheirWindow
<1>1. PagesInv => SearchesKeepTheirWindow
  <2> SUFFICES ASSUME PagesInv PROVE SearchesKeepTheirWindow
    OBVIOUS
  <2>0. view.page \in {"window", "url"} => view \in Inputs
    BY DEF PagesInv, AllPages
  <2>1. ASSUME view.page = "window"
        PROVE  WindowIsLegal(view.form, view.rows, view.now) /\ HalvesAreEqual(view.form)
    <3> DEFINE form == view.form
               rows == view.rows
               now == view.now
    <3>1. /\ form \in [start : Int, end : Int] /\ form.start % 2 = 0 /\ form.end % 2 = 0
          /\ rows \subseteq [at : Int, length : Int] /\ (\A r, q \in rows : r = q) /\ now \in Int
      BY <2>0, <2>1, InputsAssumption
    <3> HIDE DEF form, rows, now
    <3>2. form.start \in Int /\ form.end \in Int /\ form = Window(form.start, form.end)
      BY <3>1 DEF Window
    <3>3. HalvesAreEqual(form)
      <4>1. HalvesAreEqual(Window(form.start, form.end))
        BY <3>1, <3>2, HalvesOfAWindow
      <4> QED
        BY <3>2, <4>1
    <3>4. CASE rows = {}
      <4>1. WindowIsLegal(form, {}, now)
        BY <3>1, <3>2, FormWindowIsLegal
      <4> QED
        BY <3>3, <3>4, <4>1 DEF form, rows, now
    <3>5. CASE rows # {}
      <4>1. PICK row \in rows : TRUE
        BY <3>5
      <4>2. rows = {row} /\ row.at \in Int /\ row.length \in Int
        BY <3>1, <4>1
      <4>3. WindowIsLegal(form, {row}, now)
        BY <3>1, <3>2, <4>2, RowWindowIsLegal
      <4> QED
        BY <3>3, <4>2, <4>3 DEF form, rows, now
    <3> QED
      BY <3>4, <3>5
  <2>2. ASSUME view.page = "url" PROVE URLKeepsTheSearch(view.form, view.trace)
    <3>1. DOMAIN view.form = Fields
      BY <2>0, <2>2, InputsAssumption
    <3> QED
      BY <3>1, SearchSurvivesURL
  <2> QED
    BY <2>1, <2>2 DEF SearchesKeepTheirWindow
<1> QED
  BY <1>1, PagesAreSound, PTL

\* The service map is readable, whatever services call each other, in cycles or
\* not, however many they are, and at every size of the pane: boxes lie apart on the
\* canvas and labels lie on it, a service's column is its distance from one nobody
\* calls, and a line that stands out joins boxes that do.
THEOREM MapStaysReadable == Spec => []MapIsReadable
<1>1. PagesInv => MapIsReadable
  <2> SUFFICES ASSUME PagesInv, view.page = "layout"
               PROVE  ReadsWell(view.nodes, view.edges, Layout(view.nodes, view.edges, view.canvas))
    BY DEF MapIsReadable
  <2> DEFINE nodes == view.nodes
             edges == view.edges
             canvas == view.canvas
  <2>1. view \in Inputs
    BY DEF PagesInv, AllPages
  <2>2. nodes \in Seq(MapNode) /\ OnePerService(nodes) /\ edges \in Seq(MapEdge) /\ canvas \in MapCanvas
    BY <2>1, InputsAssumption
  <2> HIDE DEF nodes, edges, canvas
  <2>3. Readable(Layout(nodes, edges, canvas))
    BY <2>2, LayoutIsReadable
  <2>4. ASSUME nodes # <<>> PROVE CallersComeFirst(nodes, edges, Layout(nodes, edges, canvas))
    <3> DEFINE laid == Layout(nodes, edges, canvas)
    <3>1. laid.layer = Layers(nodes, edges)
      BY <2>4, LayoutIs
    <3> HIDE DEF laid
    <3>2. CallersComeFirst(nodes, edges, laid)
      BY <2>2, <3>1, CallersFirst
    <3> QED
      BY <3>2 DEF laid
  <2>5. LinesMeetBoxes(nodes, edges, Layout(nodes, edges, canvas))
    BY <2>2, LinesMeet
  <2> QED
    BY <2>3, <2>4, <2>5 DEF nodes, edges, canvas, ReadsWell
<1> QED
  BY <1>1, PagesAreSound, PTL
==============================================================================
