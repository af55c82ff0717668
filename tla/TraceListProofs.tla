--------------------------- MODULE TraceListProofs ---------------------------
(***************************************************************************)
(* Theorems about TraceList, for every set of traces and forms, every      *)
(* limit and any number of searches and live rows.                         *)
(*                                                                         *)
(* The argument for follow mode: its flag is kept in a ref apart from the  *)
(* scroll position and the pointer, and a table that is covered or hidden  *)
(* keeps all three.  It is never set under a pointer or a scrolled table   *)
(* (FollowIsHonest), which needs that a pointer over the table is one that *)
(* entered it while it could be seen (OverIsSeen).                         *)
(*                                                                         *)
(* The argument for the lists (ListInv): what they may lose and how they   *)
(* are ordered is about two lists and the wire at once.  A row on the wire *)
(* came after those in the lists (StreamOrder), so it may go on top; a     *)
(* table that follows has none waiting (FollowHasNone), so it may go on    *)
(* top of the table at once; and an answer is a list of search rows, each  *)
(* trace once (AnswersAreLists), from a set of stored traces that is       *)
(* finite.  A full list stays full, which is why a lost row is one that    *)
(* there was no room for; that needs that no list shows a trace twice.     *)
(***************************************************************************)
EXTENDS TraceList, LiveRowsProofs, FiniteSetTheorems

FollowIsHonest == follow => atTop /\ ~hover

OverIsSeen == over => TableShown /\ hover

WireTypes == wire \in Seq(Rows) /\ writes \in Nat

StillInv == FollowIsHonest /\ OverIsSeen /\ WireTypes

-----------------------------------------------------------------------------
(* Searches *)

\* Every action on a search, and the two that let one start or be dropped.
LEMMA SearchStep ==
  ASSUME TableIsLatestAnswer, [Next]_vars
  PROVE  TableIsLatestAnswer'
<1> USE DEF TableIsLatestAnswer
<1>1. ASSUME NEW s \in searches, ServerAnswers(s) \/ Outdated(s)
      PROVE  TableIsLatestAnswer'
  BY <1>1 DEF ServerAnswers, Outdated, tableVars
<1>2. ASSUME NEW s \in searches, Succeeds(s)
      PROVE  TableIsLatestAnswer'
  BY <1>2 DEF Succeeds
<1>3. ASSUME NEW s \in searches, Fails(s)
      PROVE  TableIsLatestAnswer'
  BY <1>3 DEF Fails
<1>4. ASSUME NEW f \in Forms, Edit(f)
      PROVE  TableIsLatestAnswer'
  BY <1>4 DEF Edit, tableVars
<1>5. ASSUME NEW f \in Forms, Submit(f)
      PROVE  TableIsLatestAnswer'
  BY <1>5 DEF Submit, StartSearch
<1>6. ASSUME NEW f \in Forms, NEW trace \in BOOLEAN, FollowLink(f, trace)
      PROVE  TableIsLatestAnswer'
  BY <1>6 DEF FollowLink, Reload, StartSearch
<1>7. ASSUME ReturnToTab
      PROVE  TableIsLatestAnswer'
  BY <1>7 DEF ReturnToTab, Reload, StartSearch
<1>8. ASSUME LeaveTab \/ OpenTrace \/ CloseTrace
      PROVE  TableIsLatestAnswer'
  BY <1>8 DEF LeaveTab, OpenTrace, CloseTrace, tableVars, searchVars
<1>9. ASSUME (\E t \in Traces : Publish(t)) \/ Disconnect \/ Reconnect \/ LiveRow
      PROVE  TableIsLatestAnswer'
  BY <1>9 DEF Publish, Disconnect, Reconnect, LiveRow, tableVars, searchVars
<1>10. ASSUME PointerEnter \/ PointerLeave \/ Scroll \/ ShowPending
       PROVE  TableIsLatestAnswer'
  BY <1>10 DEF PointerEnter, PointerLeave, Scroll, ShowPending, tableVars, searchVars
<1>11. CASE UNCHANGED vars
  BY <1>11 DEF vars, tableVars, searchVars
<1> QED
  BY <1>1, <1>2, <1>3, <1>4, <1>5, <1>6, <1>7, <1>8, <1>9, <1>10, <1>11 DEF Next

\* In whatever order the server answers, the table shows the last search.
THEOREM TableShowsLastSearch == Spec => []TableIsLatestAnswer
<1>1. Init => TableIsLatestAnswer
  BY DEF Init, TableIsLatestAnswer
<1> QED
  BY <1>1, SearchStep, PTL DEF Spec

-----------------------------------------------------------------------------
(* Follow mode *)

\* Steps that leave the pointer, the scroll position and the stream alone.
LEMMA StillFrame ==
  ASSUME StillInv, UNCHANGED <<pointerVars, wire, writes>>, over => UNCHANGED <<active, page>>
  PROVE  StillInv'
BY DEF StillInv, FollowIsHonest, OverIsSeen, WireTypes, pointerVars, TableShown

\* Steps that move the page: the pointer is not over a table that goes or comes.
LEMMA StillPage ==
  ASSUME StillInv, ReturnToTab \/ LeaveTab \/ OpenTrace \/ CloseTrace
                   \/ \E f \in Forms, trace \in BOOLEAN : FollowLink(f, trace)
  PROVE  StillInv'
<1>1. UNCHANGED <<wire, writes, follow, hover>> /\ (atTop => atTop')
  <2>1. CASE ReturnToTab
    BY <2>1 DEF ReturnToTab, Reload, serverVars, streamVars
  <2>2. CASE LeaveTab \/ OpenTrace \/ CloseTrace
    BY <2>2 DEF LeaveTab, OpenTrace, CloseTrace, serverVars, streamVars, pointerVars
  <2>3. ASSUME NEW f \in Forms, NEW trace \in BOOLEAN, FollowLink(f, trace)
        PROVE  UNCHANGED <<wire, writes, follow, hover>> /\ (atTop => atTop')
    BY <2>3 DEF FollowLink, Reload, serverVars, streamVars
  <2> QED
    BY <2>1, <2>2, <2>3
<1>2. ~over'
  BY DEF ReturnToTab, LeaveTab, OpenTrace, CloseTrace, FollowLink, pointerVars, StillInv, OverIsSeen, TableShown
<1> QED
  BY <1>1, <1>2 DEF StillInv, FollowIsHonest, OverIsSeen, WireTypes

LEMMA StillPointer ==
  ASSUME StillInv, PointerEnter \/ PointerLeave \/ Scroll \/ ShowPending
  PROVE  StillInv'
<1>1. UNCHANGED <<wire, writes, active, page>>
  BY DEF PointerEnter, PointerLeave, Scroll, ShowPending, serverVars, streamVars, pageVars
<1>2. FollowIsHonest'
  BY DEF PointerEnter, PointerLeave, Scroll, ShowPending, SyncFollow, StillInv, FollowIsHonest
<1>3. OverIsSeen'
  BY <1>1 DEF PointerEnter, PointerLeave, Scroll, ShowPending, StillInv, OverIsSeen, TableShown
<1> QED
  BY <1>1, <1>2, <1>3 DEF StillInv, WireTypes

LEMMA StillWire ==
  ASSUME StillInv, (\E t \in Traces : Publish(t)) \/ Disconnect \/ Reconnect \/ LiveRow
  PROVE  StillInv'
<1>1. UNCHANGED <<pointerVars, active, page>>
  BY DEF Publish, Disconnect, Reconnect, LiveRow, pageVars
<1>2. WireTypes'
  <2>1. CASE \E t \in Traces : Publish(t)
    <3>1. PICK t \in Traces : Publish(t)
      BY <2>1
    <3>2. [id |-> t, at |-> writes + 1] \in Rows
      BY DEF StillInv, WireTypes, Rows
    <3> QED
      BY <3>1, <3>2 DEF Publish, StillInv, WireTypes
  <2>2. CASE Disconnect
    BY <2>2, EmptySeq DEF Disconnect, serverVars, StillInv, WireTypes
  <2>3. CASE Reconnect \/ LiveRow
    BY <2>3 DEF Reconnect, LiveRow, serverVars, StillInv, WireTypes
  <2> QED
    BY <2>1, <2>2, <2>3
<1> QED
  BY <1>1, <1>2 DEF StillInv, FollowIsHonest, OverIsSeen, TableShown, pointerVars

LEMMA StillStep ==
  ASSUME StillInv, [Next]_vars
  PROVE  StillInv'
<1>1. ASSUME NEW s \in searches, ServerAnswers(s) \/ Outdated(s) \/ Succeeds(s) \/ Fails(s)
      PROVE  StillInv'
  BY <1>1, StillFrame DEF ServerAnswers, Outdated, Succeeds, Fails, serverVars, streamVars, pageVars
<1>2. ASSUME NEW f \in Forms, Edit(f)
      PROVE  StillInv'
  BY <1>2, StillFrame DEF Edit, serverVars, streamVars, pageVars
<1>3. ASSUME NEW f \in Forms, Submit(f)
      PROVE  StillInv'
  BY <1>3, StillFrame DEF Submit, StartSearch, serverVars, streamVars, pageVars
<1>4. CASE UNCHANGED vars
  BY <1>4, StillFrame DEF vars, serverVars, streamVars, pageVars
<1> QED
  BY <1>1, <1>2, <1>3, <1>4, StillPage, StillPointer, StillWire DEF Next

\* A row taken from the stream leaves the table alone unless it follows.
LEMMA PausedRow ==
  ASSUME StillInv, Next, TableShown, over \/ ~atTop, wire # <<>>, wire' = Tail(wire)
  PROVE  rows' = rows
<1>1. wire' # wire
  <2>1. Len(Tail(wire)) = Len(wire) - 1 /\ Len(wire) \in Nat
    BY DEF StillInv, WireTypes
  <2>2. Len(Tail(wire)) # Len(wire)
    BY ONLY <2>1
  <2> QED
    BY <2>2
<1>2. ~follow
  BY DEF StillInv, FollowIsHonest, OverIsSeen
<1>3. ASSUME LiveRow PROVE rows' = rows
  BY <1>2, <1>3 DEF LiveRow, Ingest
<1>4. ASSUME Disconnect PROVE rows' = rows
  BY <1>4 DEF Disconnect, tableVars
<1>5. ASSUME \E t \in Traces : Publish(t) PROVE rows' = rows
  BY <1>5 DEF Publish, tableVars
<1>6. ASSUME Reconnect PROVE rows' = rows
  BY <1>6 DEF Reconnect, tableVars
<1>7. ASSUME \/ \E s \in searches : ServerAnswers(s) \/ Outdated(s) \/ Succeeds(s) \/ Fails(s)
             \/ \E f \in Forms : Edit(f) \/ Submit(f) \/ (\E trace \in BOOLEAN : FollowLink(f, trace))
      PROVE  wire' = wire
  BY <1>7 DEF ServerAnswers, Outdated, Succeeds, Fails, Edit, Submit, FollowLink, streamVars
<1>8. ASSUME ReturnToTab \/ LeaveTab \/ OpenTrace \/ CloseTrace \/ PointerEnter \/ PointerLeave
             \/ Scroll \/ ShowPending
      PROVE  wire' = wire
  BY <1>8 DEF ReturnToTab, LeaveTab, OpenTrace, CloseTrace, PointerEnter, PointerLeave, Scroll,
              ShowPending, streamVars
<1> QED
  BY <1>1, <1>3, <1>4, <1>5, <1>6, <1>7, <1>8 DEF Next

\* A row from the stream never moves a table that its reader has scrolled or
\* points at, whatever covered the table in between.
THEOREM PausedTableNeverMoves == Spec => PausedTableIsStill
<1>1. Init => StillInv
  BY EmptySeq DEF Init, StillInv, FollowIsHonest, OverIsSeen, WireTypes
<1>2. StillInv /\ [Next]_vars =>
        [TableShown /\ (over \/ ~atTop) /\ wire # <<>> /\ wire' = Tail(wire) => rows' = rows]_vars
  BY PausedRow
<1> QED
  BY <1>1, <1>2, StillStep, PTL DEF Spec, PausedTableIsStill
-----------------------------------------------------------------------------
(* What the server answers *)

\* A finite set of traces has a list of them, newest first.
LEMMA NewestFirstList ==
  ASSUME NEW T \in SUBSET Nat, IsFiniteSet(T)
  PROVE  /\ NewestFirst(T) \in [1..Cardinality(T) -> T] /\ Cardinality(T) \in Nat
         /\ \A i, j \in DOMAIN NewestFirst(T) : i < j => NewestFirst(T)[i] > NewestFirst(T)[j]
<1> DEFINE Sorted(q, H) == /\ q \in [1..Cardinality(H) -> H]
                           /\ \A i, j \in DOMAIN q : i < j => q[i] > q[j]
           P == {n \in Nat : \A H \in SUBSET Nat :
                               IsFiniteSet(H) /\ Cardinality(H) = n => \E q : Sorted(q, H)}
           size == Cardinality(T)
<1>1. size \in Nat
  BY FS_CardinalityType
<1>2. 0 \in P
  <2>1. ASSUME NEW H \in SUBSET Nat, IsFiniteSet(H), Cardinality(H) = 0
        PROVE  \E q : Sorted(q, H)
    <3> DEFINE q == [i \in 1..0 |-> 0]
    <3>1. Sorted(q, H)
      BY <2>1
    <3> QED
      BY <3>1
  <2> QED
    BY <2>1
<1>3. ASSUME NEW n \in 1..size, n - 1 \in P PROVE n \in P
  <2>1. ASSUME NEW H \in SUBSET Nat, IsFiniteSet(H), Cardinality(H) = n
        PROVE  \E q : Sorted(q, H)
    <3>1. H # {}
      BY <1>1, <2>1, FS_EmptySet
    <3>2. PICK x \in H : \A y \in H : x <= y
      BY <3>1, LeastNumber
    <3> DEFINE G == H \ {x}
    <3>3. IsFiniteSet(G) /\ Cardinality(G) = n - 1
      BY <2>1, FS_RemoveElement
    <3>4. PICK q : Sorted(q, G)
      BY <1>3, <3>3
    <3> DEFINE p == [i \in 1..n |-> IF i = n THEN x ELSE q[i]]
    <3>5. q \in [1..(n - 1) -> G]
      BY <3>3, <3>4
    <3>6. p \in [1..n -> H]
      BY <1>1, <3>5
    <3>7. ASSUME NEW i \in 1..n, NEW j \in 1..n, i < j PROVE p[i] > p[j]
      <4>1. i \in 1..(n - 1) /\ q[i] \in G /\ p[i] = q[i]
        BY <1>1, <3>5, <3>7
      <4>2. CASE j = n
        <5>1. p[j] = x /\ x \in Nat /\ q[i] \in Nat /\ q[i] # x /\ x <= q[i]
          BY <3>2, <4>1, <4>2
        <5> QED
          BY <4>1, <5>1
      <4>3. CASE j \in 1..(n - 1)
        <5>1. p[j] = q[j] /\ DOMAIN q = 1..(n - 1)
          BY <3>5, <4>3
        <5> QED
          BY <3>4, <3>7, <4>1, <4>3, <5>1
      <4> QED
        BY <1>1, <4>2, <4>3
    <3> QED
      BY <2>1, <3>6, <3>7
  <2> QED
    BY <1>1, <2>1
<1>4. \A n \in 0..size : n \in P
  <2> HIDE DEF P, size
  <2>1. \A n \in 1..size : n - 1 \in P => n \in P
    BY <1>3
  <2> QED
    BY <1>1, <1>2, <2>1, Rounds, Zenon
<1>5. \E q : Sorted(q, T)
  BY <1>1, <1>4
<1> QED
  BY <1>1, <1>5 DEF NewestFirst

\* No search answers with a trace twice, nor with more than was asked for.
LEMMA AnswerIsList ==
  ASSUME stored \subseteq Traces, IsFiniteSet(stored), NEW f
  PROVE  /\ Answer(f) \in Seq(Rows) /\ Len(Answer(f)) <= Limit /\ Distinct(Answer(f))
         /\ \A i \in DOMAIN Answer(f) : Answer(f)[i].at = 0
<1> DEFINE found == stored \cap Matches[f] \cap Before[f]
           hits == NewestFirst(found)
           n == Cardinality(found)
           all == [i \in DOMAIN hits |-> [id |-> hits[i], at |-> 0]]
<1>1. found \subseteq Traces /\ found \in SUBSET Nat /\ IsFiniteSet(found)
  BY TracesAssumption, FS_Subset
<1>2. hits \in [1..n -> found] /\ n \in Nat /\ \A i, j \in 1..n : i < j => hits[i] > hits[j]
  <2>1. hits \in [1..n -> found] /\ n \in Nat
        /\ \A i, j \in DOMAIN hits : i < j => hits[i] > hits[j]
    BY <1>1, NewestFirstList
  <2> QED
    BY <2>1
<1> HIDE DEF hits, n
<1>3. \A i \in 1..n : hits[i] \in found
  BY <1>2
<1>4. all \in Seq(Rows) /\ Len(all) = n /\ \A i \in 1..n : all[i].id = hits[i] /\ all[i].at = 0
  <2>1. DOMAIN hits = 1..n
    BY <1>2
  <2>2. all = [i \in 1..n |-> [id |-> hits[i], at |-> 0]]
    BY <2>1
  <2>3. \A i \in 1..n : [id |-> hits[i], at |-> 0] \in Rows
    BY <1>1, <1>3 DEF Rows
  <2> QED
    BY <1>2, <2>2, <2>3
<1> HIDE DEF all, found
<1>5. Answer(f) = FirstOf(all, Limit)
  BY DEF Answer, all, hits, found
<1>6. /\ Answer(f) \in Seq(Rows)
      /\ Len(Answer(f)) = IF Len(all) < Limit THEN Len(all) ELSE Limit
      /\ \A i \in DOMAIN Answer(f) : i \in DOMAIN all /\ Answer(f)[i] = all[i]
  BY <1>4, <1>5, LimitAssumption, FirstOfList
<1>7. Len(Answer(f)) <= Limit
  BY <1>2, <1>4, <1>6, LimitAssumption
<1>8. ASSUME NEW i \in DOMAIN Answer(f) PROVE i \in 1..n /\ Answer(f)[i].id = hits[i] /\ Answer(f)[i].at = 0
  BY <1>4, <1>6, <1>8
<1>9. ASSUME NEW i \in DOMAIN Answer(f), NEW j \in DOMAIN Answer(f), i # j
      PROVE  Answer(f)[i].id # Answer(f)[j].id
  <2>1. i \in 1..n /\ j \in 1..n /\ (i < j \/ j < i)
    BY <1>2, <1>8, <1>9
  <2>2. hits[i] # hits[j]
    <3>1. hits[i] \in Nat /\ hits[j] \in Nat
      BY <1>1, <1>3, <2>1
    <3> QED
      BY <1>2, <2>1, <3>1
  <2> QED
    BY <1>8, <2>2
<1> QED
  BY <1>6, <1>7, <1>8, <1>9 DEF Distinct

-----------------------------------------------------------------------------
(* The lists *)

\* A row takes its place in the stream when it is published: the wire is in
\* that order, and what has been taken from it came before what is still on it.
Arrived(list) ==
  \A i \in DOMAIN list : /\ list[i].at <= writes
                         /\ \A j \in DOMAIN wire : list[i].at < wire[j].at

StreamOrder ==
  /\ \A i \in DOMAIN wire : 0 < wire[i].at /\ wire[i].at <= writes
  /\ \A i, j \in DOMAIN wire : i < j => wire[i].at < wire[j].at
  /\ Arrived(rows) /\ Arrived(pending)

\* An answer is a list by itself: it is short, shows a trace once, and all of
\* its rows are of the search.
AnswersAreLists ==
  \A s \in searches : /\ Len(s.answer) <= Limit /\ Distinct(s.answer)
                      /\ \A i \in DOMAIN s.answer : s.answer[i].at = 0

\* A table that follows has no rows waiting.
FollowHasNone == follow => pending = <<>>

ListInv ==
  TypeOK /\ IsFiniteSet(stored) /\ AnswersAreLists /\ FollowHasNone /\ StreamOrder /\ NewestOnTop /\ NothingMissed

LEMMA RowFields ==
  ASSUME NEW list \in Seq(Rows), NEW i \in DOMAIN list
  PROVE  list[i] \in Rows /\ list[i].id \in Traces /\ list[i].at \in Nat
<1>1. list[i] \in Rows
  BY ElementOfSeq
<1> QED
  BY <1>1 DEF Rows

IsCleanSearch(s) ==
  /\ s \in Searches /\ Len(s.answer) <= Limit /\ Distinct(s.answer)
  /\ \A i \in DOMAIN s.answer : s.answer[i].at = 0

\* A search just sent has no answer yet.
LEMMA NewSearchIsList ==
  ASSUME NEW n \in Nat, NEW f \in Forms, NEW byEffect \in BOOLEAN
  PROVE  IsCleanSearch(NewSearch(n, f, byEffect))
<1> DEFINE s == NewSearch(n, f, byEffect)
<1>1. s.answer = <<>> /\ <<>> \in Seq(Rows)
  BY EmptySeq DEF NewSearch
<1>2. s \in Searches
  BY <1>1 DEF NewSearch, Searches
<1> QED
  BY <1>1, <1>2, LimitAssumption DEF IsCleanSearch, Distinct

\* Steps that leave the lists alone and do not end a search well.
LEMMA QuietStep ==
  ASSUME ListInv, TypeOK', AnswersAreLists', UNCHANGED <<stored, writes, rows, pending, heard>>,
         wire' = wire \/ wire' = <<>>, status' = "ok" => status = "ok", follow' => pending = <<>>
  PROVE  ListInv'
<1>1. IsFiniteSet(stored')
  BY DEF ListInv
<1>2. FollowHasNone' /\ NewestOnTop' /\ NothingMissed'
  BY DEF ListInv, FollowHasNone, NewestOnTop, NothingMissed
<1>3. StreamOrder'
  <2>1. CASE wire' = wire
    BY <2>1 DEF ListInv, StreamOrder, Arrived
  <2>2. CASE wire' = <<>>
    BY <2>2 DEF ListInv, StreamOrder, Arrived
  <2> QED
    BY <2>1, <2>2
<1> QED
  BY <1>1, <1>2, <1>3 DEF ListInv

\* A search begins.
LEMMA StartedSearch ==
  ASSUME TypeOK, AnswersAreLists, NEW f \in Forms, NEW byEffect \in BOOLEAN, StartSearch(f, byEffect)
  PROVE  seq' \in Nat /\ searches' \subseteq Searches /\ status' = "searching" /\ AnswersAreLists'
<1>1. seq \in Nat /\ seq' = seq + 1 /\ searches' = searches \cup {NewSearch(seq + 1, f, byEffect)}
      /\ status' = "searching"
  BY DEF StartSearch, TypeOK
<1>2. searches \subseteq Searches
  BY DEF TypeOK
<1> DEFINE s == NewSearch(seq + 1, f, byEffect)
<1>3. IsCleanSearch(s)
  BY <1>1, NewSearchIsList
<1> HIDE DEF s
<1>4. searches' = searches \cup {s}
  BY <1>1 DEF s
<1> QED
  BY <1>1, <1>2, <1>3, <1>4 DEF IsCleanSearch, AnswersAreLists

LEMMA ListsReload ==
  ASSUME ListInv, NEW f \in Forms, NEW trace \in BOOLEAN, Reload(f, trace)
  PROVE  /\ form' \in Forms /\ page' \in BOOLEAN /\ url' \in [form : Forms, trace : BOOLEAN]
         /\ atTop' \in BOOLEAN /\ seq' \in Nat /\ searches' \subseteq Searches
         /\ status' = "searching" \/ status' = status
         /\ AnswersAreLists'
<1>1. /\ form' \in Forms /\ page' \in BOOLEAN /\ url' \in [form : Forms, trace : BOOLEAN]
      /\ atTop' \in BOOLEAN
  BY DEF Reload, ListInv, TypeOK
<1>2. CASE trace
  BY <1>1, <1>2 DEF Reload, ListInv, TypeOK, AnswersAreLists
<1>3. CASE ~trace
  <2>1. StartSearch(f, TRUE)
    BY <1>3 DEF Reload
  <2>2. TypeOK /\ AnswersAreLists
    BY DEF ListInv
  <2> QED
    BY <1>1, <2>1, <2>2, StartedSearch
<1> QED
  BY <1>2, <1>3

\* The page is shown again, for a search or a trace.
LEMMA ListsShown ==
  ASSUME ListInv, ReturnToTab \/ \E f \in Forms, trace \in BOOLEAN : FollowLink(f, trace)
  PROVE  ListInv'
<1>1. /\ form' \in Forms /\ page' \in BOOLEAN /\ url' \in [form : Forms, trace : BOOLEAN]
      /\ atTop' \in BOOLEAN /\ seq' \in Nat /\ searches' \subseteq Searches
      /\ status' = "searching" \/ status' = status
      /\ AnswersAreLists'
  <2>1. CASE ReturnToTab /\ status = "ok"
    BY <2>1 DEF ReturnToTab, ListInv, TypeOK, AnswersAreLists
  <2>2. CASE ReturnToTab /\ status # "ok"
    <3>1. url.form \in Forms /\ url.trace \in BOOLEAN
      BY DEF ListInv, TypeOK
    <3>2. Reload(url.form, url.trace)
      BY <2>2 DEF ReturnToTab
    <3> QED
      BY <3>1, <3>2, ListsReload
  <2>3. ASSUME NEW f \in Forms, NEW trace \in BOOLEAN, FollowLink(f, trace)
        PROVE  /\ form' \in Forms /\ page' \in BOOLEAN /\ url' \in [form : Forms, trace : BOOLEAN]
               /\ atTop' \in BOOLEAN /\ seq' \in Nat /\ searches' \subseteq Searches
               /\ status' = "searching" \/ status' = status
               /\ AnswersAreLists'
    BY <2>3, ListsReload DEF FollowLink
  <2> QED
    BY <2>1, <2>2, <2>3
<1>2. active' = TRUE
      /\ UNCHANGED <<stored, writes, wire, connected, rows, liveTail, pending, shownBy, heard, follow, hover, over>>
  BY DEF ReturnToTab, FollowLink, serverVars, streamVars
<1>3. TypeOK'
  BY <1>1, <1>2 DEF ListInv, TypeOK
<1> QED
  BY <1>1, <1>2, <1>3, QuietStep DEF ListInv, FollowHasNone

\* The form.
LEMMA ListsForm ==
  ASSUME ListInv, NEW f \in Forms, Edit(f) \/ Submit(f)
  PROVE  ListInv'
<1>1. CASE Edit(f)
  <2>1. form' = f /\ UNCHANGED <<serverVars, streamVars, pageVars, seq, searches, tableVars, pointerVars>>
    BY <1>1 DEF Edit
  <2>2. TypeOK' /\ AnswersAreLists'
    BY <2>1 DEF ListInv, TypeOK, AnswersAreLists, serverVars, streamVars, pageVars, tableVars, pointerVars
  <2> QED
    BY <2>1, <2>2, QuietStep DEF ListInv, FollowHasNone, serverVars, streamVars, tableVars, pointerVars
<1>2. CASE Submit(f)
  <2>1. /\ StartSearch(f, FALSE) /\ form' = f /\ url' = [form |-> f, trace |-> FALSE]
        /\ UNCHANGED <<serverVars, streamVars, active, page, rows, liveTail, pending, shownBy, heard,
                       pointerVars>>
    BY <1>2 DEF Submit
  <2>2. seq' \in Nat /\ searches' \subseteq Searches /\ status' = "searching" /\ AnswersAreLists'
    <3>1. TypeOK /\ AnswersAreLists
      BY DEF ListInv
    <3> QED
      BY <2>1, <3>1, StartedSearch
  <2>3. TypeOK'
    BY <2>1, <2>2 DEF ListInv, TypeOK, serverVars, streamVars, pointerVars
  <2> QED
    BY <2>1, <2>2, <2>3, QuietStep DEF ListInv, FollowHasNone, serverVars, streamVars, pointerVars
<1> QED
  BY <1>1, <1>2

\* The page is left, or a trace page covers the table.
LEMMA ListsLeft ==
  ASSUME ListInv, LeaveTab \/ OpenTrace \/ CloseTrace
  PROVE  ListInv'
<1>1. /\ active' \in BOOLEAN /\ page' \in BOOLEAN /\ over' \in BOOLEAN /\ atTop' \in BOOLEAN
      /\ url' \in [form : Forms, trace : BOOLEAN]
      /\ searches' \subseteq searches
      /\ UNCHANGED <<serverVars, streamVars, form, seq, tableVars, follow, hover>>
  <2>1. CASE LeaveTab
    <3>1. url' \in [form : Forms, trace : BOOLEAN]
      <4>1. url \in [form : Forms, trace : BOOLEAN]
        BY DEF ListInv, TypeOK
      <4>2. [url EXCEPT !.trace = FALSE] \in [form : Forms, trace : BOOLEAN]
        BY <4>1
      <4>3. \A f \in Forms : [form |-> f, trace |-> FALSE] \in [form : Forms, trace : BOOLEAN]
        OBVIOUS
      <4>4. \/ url' = [url EXCEPT !.trace = FALSE]
            \/ \E f \in Forms : url' = url \/ url' = [form |-> f, trace |-> FALSE]
        BY <2>1 DEF LeaveTab
      <4> QED
        BY <4>1, <4>2, <4>3, <4>4
    <3> QED
      BY <2>1, <3>1 DEF LeaveTab, pointerVars, ListInv, TypeOK
  <2>2. CASE OpenTrace
    BY <2>2 DEF OpenTrace, searchVars, ListInv, TypeOK
  <2>3. CASE CloseTrace
    BY <2>3 DEF CloseTrace, searchVars, ListInv, TypeOK
  <2> QED
    BY <2>1, <2>2, <2>3
<1>2. TypeOK' /\ AnswersAreLists'
  BY <1>1 DEF ListInv, TypeOK, AnswersAreLists, serverVars, streamVars, tableVars
<1> QED
  BY <1>1, <1>2, QuietStep DEF ListInv, FollowHasNone, serverVars, streamVars, tableVars

\* Pointer and scroll position; following is never switched on over pending rows.
LEMMA ListsPointer ==
  ASSUME ListInv, PointerEnter \/ PointerLeave \/ Scroll
  PROVE  ListInv'
<1>1. /\ follow' \in BOOLEAN /\ hover' \in BOOLEAN /\ over' \in BOOLEAN /\ atTop' \in BOOLEAN
      /\ follow' => pending = <<>>
      /\ UNCHANGED <<serverVars, streamVars, pageVars, searchVars, tableVars>>
  BY DEF PointerEnter, PointerLeave, Scroll, SyncFollow, ListInv, TypeOK
<1>2. TypeOK' /\ AnswersAreLists'
  BY <1>1 DEF ListInv, TypeOK, AnswersAreLists, serverVars, streamVars, pageVars, searchVars, tableVars
<1> QED
  BY <1>1, <1>2, QuietStep DEF serverVars, streamVars, tableVars

\* The connection.
LEMMA ListsSocket ==
  ASSUME ListInv, Disconnect \/ Reconnect
  PROVE  ListInv'
<1>1. /\ connected' \in BOOLEAN /\ (wire' = wire \/ wire' = <<>>)
      /\ UNCHANGED <<serverVars, pageVars, searchVars, tableVars, pointerVars>>
  BY DEF Disconnect, Reconnect
<1>2. wire' \in Seq(Rows)
  BY <1>1, EmptySeq DEF ListInv, TypeOK
<1>3. TypeOK' /\ AnswersAreLists'
  BY <1>1, <1>2 DEF ListInv, TypeOK, AnswersAreLists, serverVars, pageVars, searchVars, tableVars, pointerVars
<1> QED
  BY <1>1, <1>3, QuietStep DEF ListInv, FollowHasNone, serverVars, tableVars, pointerVars

\* The server answers, and answers are thrown away.
LEMMA ListsAnswered ==
  ASSUME ListInv, NEW s \in searches, ServerAnswers(s) \/ Outdated(s)
  PROVE  ListInv'
<1>1. UNCHANGED <<serverVars, streamVars, pageVars, form, seq, tableVars, pointerVars>>
  BY DEF ServerAnswers, Outdated
<1>2. s \in Searches /\ stored \subseteq Traces /\ IsFiniteSet(stored) /\ s.form \in Forms
  BY DEF ListInv, TypeOK, Searches
<1> DEFINE good == [s EXCEPT !.stage = "ok", !.answer = Answer(s.form)]
           bad == [s EXCEPT !.stage = "error"]
<1>3. IsCleanSearch(good)
  <2> DEFINE a == Answer(s.form)
  <2>1. /\ a \in Seq(Rows) /\ Len(a) <= Limit /\ Distinct(a)
        /\ \A i \in DOMAIN a : a[i].at = 0
    BY <1>2, AnswerIsList
  <2> HIDE DEF a
  <2>2. good = [s EXCEPT !.stage = "ok", !.answer = a]
    BY DEF a
  <2>3. good.answer = a /\ good \in Searches
    BY <1>2, <2>1, <2>2 DEF Searches
  <2> HIDE DEF good
  <2> QED
    BY <2>1, <2>3 DEF IsCleanSearch
<1>4. IsCleanSearch(bad)
  <2>1. bad \in Searches /\ bad.answer = s.answer
    BY <1>2 DEF Searches
  <2> HIDE DEF bad
  <2> QED
    BY <2>1 DEF IsCleanSearch, ListInv, AnswersAreLists
<1>5. searches' \subseteq searches \cup {good, bad}
  BY DEF ServerAnswers, Outdated
<1> HIDE DEF good, bad
<1>6. TypeOK' /\ AnswersAreLists'
  <2>1. searches' \subseteq Searches
    BY <1>3, <1>4, <1>5 DEF IsCleanSearch, ListInv, TypeOK
  <2>2. TypeOK'
    BY <1>1, <2>1 DEF ListInv, TypeOK, serverVars, streamVars, pageVars, tableVars, pointerVars
  <2>3. AnswersAreLists'
    BY <1>3, <1>4, <1>5 DEF IsCleanSearch, ListInv, AnswersAreLists
  <2> QED
    BY <2>2, <2>3
<1> QED
  BY <1>1, <1>6, QuietStep DEF ListInv, FollowHasNone, serverVars, streamVars, tableVars, pointerVars

\* A list of search rows is in order.
LEMMA SearchRowsDescend ==
  ASSUME NEW list, \A i \in DOMAIN list : list[i].at = 0
  PROVE  Descending(list)
BY DEF Descending

\* The table becomes an answer.
LEMMA ListsSucceeds ==
  ASSUME ListInv, NEW s \in searches, Succeeds(s)
  PROVE  ListInv'
<1>1. /\ searches' = searches \ {s} /\ rows' = s.answer /\ status' = "ok" /\ pending' = <<>>
      /\ shownBy' = s.n /\ heard' = {} /\ liveTail' \in BOOLEAN
      /\ UNCHANGED <<serverVars, streamVars, pageVars, form, seq, pointerVars>>
  BY DEF Succeeds
<1>2. /\ s \in Searches /\ s.answer \in Seq(Rows) /\ s.n \in Nat /\ Len(s.answer) <= Limit
      /\ Distinct(s.answer) /\ \A i \in DOMAIN s.answer : s.answer[i].at = 0
  BY DEF ListInv, TypeOK, AnswersAreLists, Searches
<1>3. <<>> \in Seq(Rows) /\ Len(<<>>) = 0
  BY EmptySeq
<1>4. TypeOK'
  BY <1>1, <1>2, <1>3, LimitAssumption
     DEF ListInv, TypeOK, serverVars, streamVars, pageVars, pointerVars
<1>5. AnswersAreLists' /\ IsFiniteSet(stored')
  BY <1>1 DEF ListInv, AnswersAreLists, serverVars
<1>6. FollowHasNone' /\ NothingMissed'
  BY <1>1 DEF FollowHasNone, NothingMissed
<1>7. StreamOrder'
  <2>1. writes \in Nat /\ wire' = wire /\ writes' = writes
    BY <1>1 DEF ListInv, TypeOK, serverVars, streamVars
  <2> QED
    BY <1>1, <1>2, <2>1 DEF ListInv, StreamOrder, Arrived
<1>8. NewestOnTop'
  <2>1. pending' \o rows' = s.answer
    BY <1>1, <1>2
  <2>2. Descending(s.answer)
    BY <1>2, SearchRowsDescend
  <2>3. Distinct(<<>>)
    BY DEF Distinct
  <2> QED
    BY <1>1, <1>2, <2>1, <2>2, <2>3 DEF NewestOnTop
<1> QED
  BY <1>4, <1>5, <1>6, <1>7, <1>8 DEF ListInv

LEMMA ListsFails ==
  ASSUME ListInv, NEW s \in searches, Fails(s)
  PROVE  ListInv'
<1>1. /\ searches' = searches \ {s} /\ rows' = <<>> /\ status' = "error"
      /\ UNCHANGED <<serverVars, streamVars, pageVars, form, seq, liveTail, pending, shownBy, heard,
                     pointerVars>>
  BY DEF Fails
<1>2. <<>> \in Seq(Rows) /\ Len(<<>>) = 0
  BY EmptySeq
<1>3. TypeOK'
  BY <1>1, <1>2, LimitAssumption DEF ListInv, TypeOK, serverVars, streamVars, pageVars, pointerVars
<1>4. AnswersAreLists' /\ IsFiniteSet(stored')
  BY <1>1 DEF ListInv, AnswersAreLists, serverVars
<1>5. FollowHasNone' /\ NothingMissed'
  BY <1>1 DEF ListInv, FollowHasNone, NothingMissed, pointerVars
<1>6. StreamOrder'
  BY <1>1 DEF ListInv, StreamOrder, Arrived, serverVars, streamVars
<1>7. NewestOnTop'
  <2>1. pending \in Seq(Rows) /\ rows \in Seq(Rows)
    BY DEF ListInv, TypeOK
  <2>2. pending' \o rows' = pending
    BY <1>1, <2>1
  <2>3. Descending(pending)
    BY <2>1, DescendingConcat DEF ListInv, NewestOnTop
  <2>4. Distinct(<<>>)
    BY DEF Distinct
  <2> QED
    BY <1>1, <2>2, <2>3, <2>4 DEF ListInv, NewestOnTop
<1> QED
  BY <1>3, <1>4, <1>5, <1>6, <1>7 DEF ListInv

\* A row is published.
LEMMA ListsPublish ==
  ASSUME ListInv, NEW t \in Traces, Publish(t)
  PROVE  ListInv'
<1> DEFINE row == [id |-> t, at |-> writes + 1]
<1>1. /\ writes' = writes + 1 /\ stored' = stored \cup {t}
      /\ wire' = (IF connected THEN Append(wire, row) ELSE wire)
      /\ UNCHANGED <<connected, pageVars, searchVars, tableVars, pointerVars>>
  BY DEF Publish
<1>2. writes \in Nat /\ wire \in Seq(Rows) /\ rows \in Seq(Rows) /\ pending \in Seq(Rows)
  BY DEF ListInv, TypeOK
<1>3. row \in Rows /\ row.at = writes + 1
  BY <1>2 DEF Rows
<1> HIDE DEF row
<1>4. wire' \in Seq(Rows)
  BY <1>1, <1>2, <1>3
<1>5. TypeOK'
  BY <1>1, <1>2, <1>4 DEF ListInv, TypeOK, pageVars, searchVars, tableVars, pointerVars
<1>6. AnswersAreLists' /\ FollowHasNone' /\ NewestOnTop' /\ NothingMissed'
  BY <1>1 DEF ListInv, AnswersAreLists, FollowHasNone, NewestOnTop, NothingMissed, searchVars, tableVars,
              pointerVars
<1>7. IsFiniteSet(stored')
  BY <1>1, FS_AddElement DEF ListInv
<1>8. ASSUME NEW j \in DOMAIN wire'
      PROVE  \/ j \in DOMAIN wire /\ wire'[j] = wire[j]
             \/ j = Len(wire) + 1 /\ wire'[j] = row
  <2>1. CASE connected
    <3>1. wire' = Append(wire, row)
      BY <1>1, <2>1
    <3> QED
      BY <1>2, <1>3, <1>8, <3>1, AppendProperties
  <2>2. CASE ~connected
    BY <1>1, <1>8, <2>2
  <2> QED
    BY <2>1, <2>2
<1>9. Arrived(rows)' /\ Arrived(pending)'
  <2>1. ASSUME NEW list \in Seq(Rows), Arrived(list), NEW i \in DOMAIN list
        PROVE  list[i].at <= writes' /\ \A j \in DOMAIN wire' : list[i].at < wire'[j].at
    <3>1. list[i].at \in Nat /\ list[i].at <= writes
      BY <2>1, RowFields DEF Arrived
    <3>2. ASSUME NEW j \in DOMAIN wire' PROVE list[i].at < wire'[j].at
      BY <1>2, <1>3, <1>8, <2>1, <3>1 DEF Arrived
    <3> QED
      BY <1>1, <1>2, <3>1, <3>2
  <2>2. rows' = rows /\ pending' = pending /\ Arrived(rows) /\ Arrived(pending)
    BY <1>1 DEF tableVars, ListInv, StreamOrder
  <2> QED
    BY <1>2, <2>1, <2>2 DEF Arrived
<1>10. \A j \in DOMAIN wire' : 0 < wire'[j].at /\ wire'[j].at <= writes'
  <2>1. \A j \in DOMAIN wire : wire[j].at \in Nat /\ 0 < wire[j].at /\ wire[j].at <= writes
    BY <1>2, RowFields DEF ListInv, StreamOrder
  <2> QED
    BY <1>1, <1>2, <1>3, <1>8, <2>1
<1>11. ASSUME NEW i \in DOMAIN wire', NEW j \in DOMAIN wire', i < j PROVE wire'[i].at < wire'[j].at
  <2>1. i \in DOMAIN wire /\ wire'[i] = wire[i] /\ wire[i].at \in Nat /\ wire[i].at <= writes
    <3>1. i \in DOMAIN wire /\ wire'[i] = wire[i]
      <4>1. i \in 1..(Len(wire) + 1) /\ j \in 1..(Len(wire) + 1) /\ Len(wire) \in Nat
        BY <1>2, <1>8
      <4>2. i # Len(wire) + 1
        BY <1>11, <4>1
      <4> QED
        BY <1>8, <4>2
    <3> QED
      BY <1>2, <3>1, RowFields DEF ListInv, StreamOrder
  <2> QED
    BY <1>2, <1>3, <1>8, <1>11, <2>1 DEF ListInv, StreamOrder
<1>12. StreamOrder'
  BY <1>9, <1>10, <1>11 DEF StreamOrder
<1> QED
  BY <1>5, <1>6, <1>7, <1>12 DEF ListInv

\* The rows of this list came before those that will be on the wire.
StillBefore(list) ==
  \A i \in DOMAIN list : list[i].at <= writes' /\ \A j \in DOMAIN wire' : list[i].at < wire'[j].at

\* The row that is taken from the wire came after those in the lists, and
\* before those still on the wire.
LEMMA TakenRow ==
  ASSUME ListInv, wire # <<>>, wire' = Tail(wire), writes' = writes
  PROVE  /\ Head(wire) \in Rows /\ wire' \in Seq(Rows)
         /\ Above(<<Head(wire)>>, rows) /\ Above(<<Head(wire)>>, pending)
         /\ \A i \in DOMAIN wire' : 0 < wire'[i].at /\ wire'[i].at <= writes'
         /\ \A i, j \in DOMAIN wire' : i < j => wire'[i].at < wire'[j].at
         /\ \A list \in {rows, pending, <<Head(wire)>>} : StillBefore(list)
<1>1. wire \in Seq(Rows) /\ rows \in Seq(Rows) /\ pending \in Seq(Rows) /\ StreamOrder
  BY DEF ListInv, TypeOK
<1>2. 1 \in DOMAIN wire /\ Head(wire) = wire[1] /\ wire' \in Seq(Rows)
  BY <1>1
<1>3. ASSUME NEW j \in DOMAIN wire'
      PROVE  j + 1 \in DOMAIN wire /\ wire'[j] = wire[j + 1] /\ 1 < j + 1 /\ j \in Int
  BY <1>1, <1>3
<1>4. Head(wire) \in Rows /\ Head(wire).at \in Nat
  BY <1>1, <1>2, RowFields
<1>5. Above(<<Head(wire)>>, rows)
  <2>1. ASSUME NEW j \in DOMAIN rows PROVE Head(wire).at > rows[j].at
    <3>1. rows[j].at < wire[1].at /\ rows[j].at \in Nat
      BY <1>1, <1>2, RowFields DEF StreamOrder, Arrived
    <3> QED
      BY <1>2, <1>4, <3>1
  <2> QED
    BY <2>1 DEF Above
<1>6. Above(<<Head(wire)>>, pending)
  <2>1. ASSUME NEW j \in DOMAIN pending PROVE Head(wire).at > pending[j].at
    <3>1. pending[j].at < wire[1].at /\ pending[j].at \in Nat
      BY <1>1, <1>2, RowFields DEF StreamOrder, Arrived
    <3> QED
      BY <1>2, <1>4, <3>1
  <2> QED
    BY <2>1 DEF Above
<1>7. ASSUME NEW i \in DOMAIN wire' PROVE 0 < wire'[i].at /\ wire'[i].at <= writes'
  BY <1>1, <1>3 DEF StreamOrder
<1>8. ASSUME NEW i \in DOMAIN wire', NEW j \in DOMAIN wire', i < j PROVE wire'[i].at < wire'[j].at
  <2>1. i + 1 < j + 1
    BY <1>3, <1>8
  <2> QED
    BY <1>1, <1>3, <2>1 DEF StreamOrder
<1>9. StillBefore(rows)
  BY <1>1, <1>3 DEF StreamOrder, Arrived, StillBefore
<1>10. StillBefore(pending)
  BY <1>1, <1>3 DEF StreamOrder, Arrived, StillBefore
<1>11. StillBefore(<<Head(wire)>>)
  <2>1. wire[1].at <= writes' /\ \A j \in DOMAIN wire' : wire[1].at < wire'[j].at
    BY <1>1, <1>2, <1>3 DEF StreamOrder
  <2> QED
    BY <1>2, <2>1 DEF StillBefore
<1> QED
  BY <1>2, <1>4, <1>5, <1>6, <1>7, <1>8, <1>9, <1>10, <1>11

\* Rows that come from such lists form such a list.
LEMMA StillBeforeFrom ==
  ASSUME NEW list, NEW one, NEW two, StillBefore(one), StillBefore(two),
         \A k \in DOMAIN list : \/ \E a \in DOMAIN one : list[k] = one[a]
                                \/ \E a \in DOMAIN two : list[k] = two[a]
  PROVE  StillBefore(list)
BY DEF StillBefore

\* What putting the taken row on a list does.
LEMMA MergedRow ==
  ASSUME ListInv, wire # <<>>, wire' = Tail(wire), writes' = writes,
         NEW list \in {rows, pending}, NEW new, new = PrependLiveRow(list, Head(wire), Limit)
  PROVE  /\ new \in Seq(Rows) /\ Len(new) <= Limit /\ Len(list) <= Len(new)
         /\ Distinct(new) /\ Descending(new) /\ StillBefore(new)
         /\ \A k \in 1..Len(new) : new[k] = Head(wire) \/ \E a \in 1..Len(list) : new[k] = list[a]
         /\ Head(wire).id \in Ids(new)
         /\ Len(new) < Limit => Ids(list) \subseteq Ids(new)
<1> DEFINE row == Head(wire)
<1>1. /\ list \in Seq(Rows) /\ Len(list) <= Limit /\ Distinct(list)
      /\ rows \in Seq(Rows) /\ pending \in Seq(Rows) /\ Descending(pending \o rows)
  BY DEF ListInv, TypeOK, NewestOnTop
<1>2. Descending(list)
  BY <1>1, DescendingConcat
<1>3. row \in Rows /\ Above(<<row>>, list) /\ StillBefore(list) /\ StillBefore(<<row>>)
  BY TakenRow
<1>4. Limit \in Nat \ {0}
  BY LimitAssumption
<1> HIDE DEF row
<1>5. new = PrependLiveRow(list, row, Limit)
  BY DEF row
<1>6. new \in Seq(Rows) /\ Merged(new, list, row, Limit)
  BY <1>1, <1>3, <1>4, <1>5, PrependList
<1>7. Len(new) <= Limit /\ Len(list) <= Len(new)
  BY <1>1, <1>4, <1>6 DEF Merged
<1>8. Distinct(new) /\ Descending(new)
  BY <1>1, <1>2, <1>3, <1>4, <1>6, MergedDistinct, MergedDescending
<1>9. \A k \in 1..Len(new) : new[k] = row \/ \E a \in 1..Len(list) : new[k] = list[a]
  <2>1. ASSUME NEW k \in 1..Len(new), k # 1 PROVE \E a \in 1..Len(list) : new[k] = list[a]
    <3>1. k \in 2..Len(new)
      BY <1>6, <2>1
    <3> QED
      BY <1>6, <3>1 DEF Merged
  <2> QED
    BY <1>6, <2>1 DEF Merged
<1>10. StillBefore(new)
  <2>1. \A k \in DOMAIN new : \/ \E a \in DOMAIN list : new[k] = list[a]
                              \/ \E a \in DOMAIN <<row>> : new[k] = <<row>>[a]
    BY <1>1, <1>6, <1>9
  <2> QED
    BY <1>3, <2>1, StillBeforeFrom
<1>11. row.id \in Ids(new) /\ (Len(new) < Limit => Ids(list) \subseteq Ids(new))
  BY <1>1, <1>3, <1>4, <1>6, MergedIds
<1> QED
  BY <1>6, <1>7, <1>8, <1>9, <1>10, <1>11 DEF row

\* A row arrives.
LEMMA ListsLiveRow ==
  ASSUME ListInv, LiveRow
  PROVE  ListInv'
<1> DEFINE row == Head(wire)
<1>1. /\ wire # <<>> /\ wire' = Tail(wire)
      /\ UNCHANGED <<serverVars, connected, pageVars, searchVars, status, liveTail, shownBy, pointerVars>>
      /\ \/ UNCHANGED <<rows, pending, heard>>
         \/ heard' = heard \cup {row.id} /\ Ingest(row)
  BY DEF LiveRow, Ingest
<1>2. /\ row \in Rows /\ wire' \in Seq(Rows)
      /\ Above(<<row>>, rows) /\ StillBefore(rows) /\ StillBefore(pending)
      /\ \A i \in DOMAIN wire' : 0 < wire'[i].at /\ wire'[i].at <= writes'
      /\ \A i, j \in DOMAIN wire' : i < j => wire'[i].at < wire'[j].at
  BY <1>1, TakenRow DEF serverVars
<1>3. AnswersAreLists' /\ IsFiniteSet(stored')
  BY <1>1 DEF ListInv, AnswersAreLists, serverVars, searchVars
<1>4. /\ rows \in Seq(Rows) /\ pending \in Seq(Rows) /\ Len(rows) <= Limit /\ Len(pending) <= Limit
      /\ Descending(rows) /\ Descending(pending) /\ Above(pending, rows)
      /\ Distinct(rows) /\ Distinct(pending)
  BY DescendingConcat DEF ListInv, TypeOK, NewestOnTop
<1>5. SUFFICES ASSUME /\ rows' \in Seq(Rows) /\ pending' \in Seq(Rows) /\ heard' \subseteq Traces
                      /\ Len(rows') <= Limit /\ Len(pending') <= Limit
                      /\ StillBefore(rows') /\ StillBefore(pending')
                      /\ follow => pending' = <<>>
                      /\ NewestOnTop' /\ NothingMissed'
                      => ListInv'
               PROVE  ListInv'
  <2>1. ASSUME /\ rows' \in Seq(Rows) /\ pending' \in Seq(Rows) /\ heard' \subseteq Traces
               /\ Len(rows') <= Limit /\ Len(pending') <= Limit
               /\ StillBefore(rows') /\ StillBefore(pending')
               /\ follow => pending' = <<>>
               /\ NewestOnTop' /\ NothingMissed'
        PROVE  ListInv'
    <3>1. TypeOK'
      BY <1>1, <1>2, <2>1 DEF ListInv, TypeOK, serverVars, pageVars, searchVars, pointerVars
    <3>2. StreamOrder'
      BY <1>2, <2>1 DEF StreamOrder, Arrived, StillBefore
    <3>3. FollowHasNone'
      BY <1>1, <2>1 DEF FollowHasNone, pointerVars
    <3> QED
      BY <1>3, <2>1, <3>1, <3>2, <3>3 DEF ListInv
  <2> QED
    BY <2>1
<1>6. heard \subseteq Traces /\ row.id \in Traces
  BY <1>2 DEF ListInv, TypeOK, Rows
<1>7. CASE UNCHANGED <<rows, pending, heard>>
  BY <1>1, <1>2, <1>4, <1>5, <1>6, <1>7
     DEF ListInv, FollowHasNone, NewestOnTop, NothingMissed, pointerVars
<1>8. CASE heard' = heard \cup {row.id} /\ Ingest(row) /\ follow
  <2>1. rows' = PrependLiveRow(rows, row, Limit) /\ pending' = pending /\ pending = <<>>
    BY <1>8 DEF Ingest, ListInv, FollowHasNone
  <2>2. /\ rows' \in Seq(Rows) /\ Len(rows') <= Limit /\ Len(rows) <= Len(rows')
        /\ Distinct(rows') /\ Descending(rows') /\ StillBefore(rows')
        /\ row.id \in Ids(rows')
        /\ Len(rows') < Limit => Ids(rows) \subseteq Ids(rows')
    BY <1>1, <2>1, MergedRow DEF serverVars
  <2>3. NewestOnTop'
    BY <1>4, <2>1, <2>2 DEF NewestOnTop
  <2>4. NothingMissed'
    <3> SUFFICES ASSUME status' = "ok", Len(rows') # Limit PROVE heard' \subseteq Ids(rows') \cup Ids(pending')
      BY DEF NothingMissed
    <3>1. Len(rows') < Limit /\ Len(rows) # Limit /\ Len(pending) # Limit
      BY <1>4, <2>1, <2>2, LimitAssumption
    <3>2. heard \subseteq Ids(rows) \cup Ids(pending)
      BY <1>1, <3>1 DEF ListInv, NothingMissed
    <3> QED
      BY <1>8, <2>1, <2>2, <3>1, <3>2
  <2> QED
    BY <1>2, <1>4, <1>5, <1>6, <1>8, <2>1, <2>2, <2>3, <2>4
<1>9. CASE heard' = heard \cup {row.id} /\ Ingest(row) /\ ~follow
  <2>1. pending' = PrependLiveRow(pending, row, Limit) /\ rows' = rows
    BY <1>9 DEF Ingest
  <2>2. /\ pending' \in Seq(Rows) /\ Len(pending') <= Limit /\ Len(pending) <= Len(pending')
        /\ Distinct(pending') /\ Descending(pending') /\ StillBefore(pending')
        /\ \A k \in 1..Len(pending') : pending'[k] = row \/ \E a \in 1..Len(pending) : pending'[k] = pending[a]
        /\ row.id \in Ids(pending')
        /\ Len(pending') < Limit => Ids(pending) \subseteq Ids(pending')
    BY <1>1, <2>1, MergedRow DEF serverVars
  <2>3. NewestOnTop'
    <3>1. ASSUME NEW k \in 1..Len(pending'), NEW j \in DOMAIN rows
          PROVE  pending'[k].at > rows[j].at \/ rows[j].at = 0
      <4>1. CASE pending'[k] = row
        BY <1>2, <4>1 DEF Above
      <4>2. CASE \E a \in 1..Len(pending) : pending'[k] = pending[a]
        <5>1. PICK a \in DOMAIN pending : pending'[k] = pending[a]
          BY <1>4, <4>2
        <5> QED
          BY <1>4, <5>1 DEF Above
      <4> QED
        BY <2>2, <4>1, <4>2
    <3>2. Above(pending', rows)
      BY <2>2, <3>1 DEF Above
    <3> QED
      BY <1>4, <2>1, <2>2, <3>2, DescendingConcat DEF NewestOnTop
  <2>4. NothingMissed'
    <3> SUFFICES ASSUME status' = "ok", Len(rows') # Limit, Len(pending') # Limit
                 PROVE  heard' \subseteq Ids(rows') \cup Ids(pending')
      BY DEF NothingMissed
    <3>1. Len(pending') < Limit /\ Len(rows) # Limit /\ Len(pending) # Limit
      BY <1>4, <2>1, <2>2, LimitAssumption
    <3>2. heard \subseteq Ids(rows) \cup Ids(pending)
      BY <1>1, <3>1 DEF ListInv, NothingMissed
    <3> QED
      BY <1>9, <2>1, <2>2, <3>1, <3>2
  <2> QED
    BY <1>2, <1>4, <1>5, <1>6, <1>9, <2>1, <2>2, <2>3, <2>4
<1> QED
  BY <1>1, <1>7, <1>8, <1>9

\* The button.
LEMMA ListsShowPending ==
  ASSUME ListInv, ShowPending
  PROVE  ListInv'
<1>1. /\ rows' = FlushPending(rows, pending, Limit) /\ pending' = <<>> /\ follow' = TRUE
      /\ hover' = FALSE /\ atTop' = TRUE
      /\ UNCHANGED <<serverVars, streamVars, pageVars, searchVars, status, liveTail, shownBy, heard, over>>
  BY DEF ShowPending
<1>2. /\ rows \in Seq(Rows) /\ pending \in Seq(Rows) /\ Len(rows) <= Limit /\ Len(pending) <= Limit
      /\ Distinct(rows) /\ Distinct(pending) /\ Descending(pending \o rows)
      /\ Limit \in Nat \ {0} /\ Len(pending) \in Nat /\ Len(rows) \in Nat
  BY LimitAssumption DEF ListInv, TypeOK, NewestOnTop
<1>3. rows' \in Seq(Rows) /\ Flushed(rows', rows, pending, Limit, Len(pending))
  BY <1>1, <1>2, FlushList
<1>4. Len(rows') <= Limit /\ Len(rows) <= Len(rows') /\ Distinct(rows') /\ Descending(rows')
  BY <1>2, <1>3 DEF Flushed
<1>5. <<>> \in Seq(Rows) /\ Len(<<>>) = 0 /\ Distinct(<<>>)
  BY EmptySeq DEF Distinct
<1>6. TypeOK'
  <2>1. /\ pending' = <<>> /\ follow' \in BOOLEAN /\ hover' \in BOOLEAN /\ atTop' \in BOOLEAN
        /\ UNCHANGED <<serverVars, streamVars, pageVars, searchVars, status, liveTail, shownBy, heard, over>>
    BY <1>1
  <2>2. pending' \in Seq(Rows) /\ Len(pending') <= Limit
    BY <1>2, <1>5, <2>1
  <2> QED
    BY <1>3, <1>4, <2>1, <2>2 DEF ListInv, TypeOK, serverVars, streamVars, pageVars, searchVars
<1>7. AnswersAreLists' /\ IsFiniteSet(stored') /\ FollowHasNone'
  BY <1>1 DEF ListInv, AnswersAreLists, FollowHasNone, serverVars, searchVars
<1>8. StreamOrder'
  <2>1. StreamOrder /\ UNCHANGED <<wire, writes>>
    BY <1>1 DEF ListInv, serverVars, streamVars
  <2>2. \A k \in DOMAIN rows' : \/ \E a \in DOMAIN rows : rows'[k] = rows[a]
                                \/ \E a \in DOMAIN pending : rows'[k] = pending[a]
    <3>1. /\ DOMAIN rows' = 1..Len(rows') /\ DOMAIN rows = 1..Len(rows)
          /\ DOMAIN pending = 1..Len(pending)
      BY <1>2, <1>3
    <3> QED
      BY <1>3, <3>1 DEF Flushed
  <2>3. StillBefore(rows) /\ StillBefore(pending)
    BY <2>1 DEF StreamOrder, Arrived, StillBefore
  <2>4. StillBefore(rows')
    BY <2>2, <2>3, StillBeforeFrom
  <2> QED
    BY <1>1, <2>1, <2>4 DEF StreamOrder, Arrived, StillBefore
<1>9. NewestOnTop'
  BY <1>1, <1>3, <1>4, <1>5 DEF NewestOnTop
<1>10. NothingMissed'
  <2> SUFFICES ASSUME status' = "ok", Len(rows') # Limit PROVE heard' \subseteq Ids(rows')
    BY DEF NothingMissed
  <2>1. Len(rows') < Limit
    BY <1>2, <1>3, <1>4
  <2>2. Len(rows) # Limit
    BY <1>2, <1>3, <1>4, <2>1
  <2>3. Len(pending) # Limit
    <3>1. Len(pending) <= Len(rows')
      BY <1>2, <1>3 DEF Flushed
    <3> QED
      BY <1>2, <1>3, <2>1, <3>1
  <2>4. heard \subseteq Ids(rows) \cup Ids(pending)
    BY <1>1, <2>2, <2>3 DEF ListInv, NothingMissed
  <2>5. Ids(rows) \subseteq Ids(rows') /\ Ids(pending) \subseteq Ids(rows')
    <3>1. Ids(rows) \subseteq Ids(rows')
      BY <1>3, <2>1 DEF Flushed
    <3>2. ASSUME NEW a \in 1..Len(pending) PROVE pending[a].id \in Ids(rows')
      <4>1. a > Len(pending) - Len(pending)
        BY <1>2
      <4> QED
        BY <1>3, <2>1, <4>1 DEF Flushed
    <3>3. Ids(pending) \subseteq Ids(rows')
      <4>1. DOMAIN pending = 1..Len(pending)
        BY <1>2
      <4> SUFFICES ASSUME NEW a \in DOMAIN pending PROVE pending[a].id \in Ids(rows')
        BY DEF Ids
      <4> QED
        BY <3>2, <4>1
    <3> QED
      BY <3>1, <3>3
  <2> QED
    BY <1>1, <2>4, <2>5
<1> QED
  BY <1>6, <1>7, <1>8, <1>9, <1>10 DEF ListInv

LEMMA ListsInit == Init => ListInv
<1> SUFFICES ASSUME Init PROVE ListInv
  OBVIOUS
<1> USE DEF Init
<1>1. <<>> \in Seq(Rows) /\ Len(<<>>) = 0 /\ <<>> \o <<>> = <<>>
  BY EmptySeq
<1>2. /\ url \in [form : Forms, trace : BOOLEAN] /\ form \in Forms /\ page \in BOOLEAN
  OBVIOUS
<1>3. searches \subseteq Searches /\ seq \in Nat /\ status \in {"idle", "searching"} /\ AnswersAreLists
  <2>1. CASE url.trace
    BY <2>1 DEF AnswersAreLists
  <2>2. CASE ~url.trace
    <3> DEFINE s == NewSearch(1, form, TRUE)
    <3>1. seq = 1 /\ searches = {s} /\ status = "searching"
      BY <2>2
    <3>2. IsCleanSearch(s)
      BY <1>2, NewSearchIsList
    <3> HIDE DEF s
    <3> QED
      BY <3>1, <3>2 DEF IsCleanSearch, AnswersAreLists
  <2> QED
    BY <2>1, <2>2
<1>4. TypeOK
  <2>1. stored \subseteq Traces /\ writes \in Nat /\ wire \in Seq(Rows) /\ connected \in BOOLEAN /\ active \in BOOLEAN
    BY <1>1, PastAssumption
  <2>2. rows \in Seq(Rows) /\ liveTail \in BOOLEAN /\ pending \in Seq(Rows) /\ shownBy \in Nat /\ heard \subseteq Traces
    BY <1>1
  <2>3. follow \in BOOLEAN /\ hover \in BOOLEAN /\ over \in BOOLEAN /\ atTop \in BOOLEAN
    OBVIOUS
  <2>4. Len(rows) <= Limit /\ Len(pending) <= Limit
    BY <1>1, LimitAssumption
  <2> HIDE DEF Init
  <2> QED
    BY <1>2, <1>3, <2>1, <2>2, <2>3, <2>4 DEF TypeOK
<1>5. StreamOrder /\ FollowHasNone /\ NothingMissed /\ IsFiniteSet(stored)
  BY PastAssumption DEF StreamOrder, Arrived, FollowHasNone, NothingMissed
<1>6. NewestOnTop
  BY <1>1 DEF NewestOnTop, Descending, Distinct
<1> QED
  BY <1>3, <1>4, <1>5, <1>6 DEF ListInv

LEMMA ListsStep ==
  ASSUME ListInv, [Next]_vars
  PROVE  ListInv'
<1>1. CASE UNCHANGED vars
  <2>1. UNCHANGED <<serverVars, streamVars, pageVars, searchVars, tableVars, pointerVars>>
    BY <1>1 DEF vars
  <2>2. TypeOK' /\ AnswersAreLists'
    BY <2>1 DEF ListInv, TypeOK, AnswersAreLists, serverVars, streamVars, pageVars, searchVars, tableVars,
                pointerVars
  <2> QED
    BY <2>1, <2>2, QuietStep DEF ListInv, FollowHasNone, serverVars, streamVars, tableVars, pointerVars
<1>2. ASSUME NEW s \in searches, ServerAnswers(s) \/ Outdated(s) \/ Succeeds(s) \/ Fails(s)
      PROVE  ListInv'
  BY <1>2, ListsAnswered, ListsSucceeds, ListsFails
<1>3. ASSUME NEW f \in Forms, Edit(f) \/ Submit(f) PROVE ListInv'
  BY <1>3, ListsForm
<1>4. ASSUME ReturnToTab \/ \E f \in Forms : \E trace \in BOOLEAN : FollowLink(f, trace) PROVE ListInv'
  BY <1>4, ListsShown
<1>5. ASSUME LeaveTab \/ OpenTrace \/ CloseTrace PROVE ListInv'
  BY <1>5, ListsLeft
<1>6. ASSUME NEW t \in Traces, Publish(t) PROVE ListInv'
  BY <1>6, ListsPublish
<1>7. ASSUME Disconnect \/ Reconnect PROVE ListInv'
  BY <1>7, ListsSocket
<1>8. ASSUME PointerEnter \/ PointerLeave \/ Scroll PROVE ListInv'
  BY <1>8, ListsPointer
<1> QED
  BY <1>1, <1>2, <1>3, <1>4, <1>5, <1>6, <1>7, <1>8, ListsLiveRow, ListsShowPending DEF Next

LEMMA ListsAlways == Spec => []ListInv
  BY ListsInit, ListsStep, PTL DEF Spec

\* Every variable keeps its type, and no list grows past its limit.
THEOREM TableTypes == Spec => []TypeOK
  BY ListsAlways, PTL DEF ListInv

\* Whatever the stream brings, in the table or behind the button, lies in the
\* order of its arrival above the rows of the search, each trace once.
THEOREM NewestAlwaysOnTop == Spec => []NewestOnTop
  BY ListsAlways, PTL DEF ListInv

\* No row accepted from the stream is lost while there is room for it.
THEOREM NothingIsMissed == Spec => []NothingMissed
  BY ListsAlways, PTL DEF ListInv
=============================================================================
