----------------------------- MODULE QueryWindow -----------------------------
(***************************************************************************)
(* The search form, the two query strings made of it and the windows asked *)
(* for: web/src/search/query.ts.  Times are numbers, in half seconds, so   *)
(* that the second a time is written with can be less than the time; a     *)
(* text that is no time is NaN.  A field is a text: "", one that is only   *)
(* blanks, or one with blanks around it.                                   *)
(*                                                                         *)
(* A definition whose name ends in an underscore and a few words is a      *)
(* wrong variant of the one after it.                                      *)
(***************************************************************************)
EXTENDS Common

CONSTANTS
  NaN,            \* a text that is no time
  MaxWindow,      \* queryMaxWindowMs, 168 h
  Slack,          \* traceGetSlackMs, 1 min
  Day             \* the default window

ASSUME WindowAssumption ==
  /\ NaN \notin Int
  /\ MaxWindow \in Nat /\ Slack \in Nat /\ Day \in Nat
  /\ MaxWindow % 2 = 0 /\ Slack % 2 = 0 /\ Day % 2 = 0
  /\ 0 < Slack /\ Slack < MaxWindow /\ 0 < Day /\ Day <= MaxWindow

Window(start, end) == [start |-> start, end |-> end]

\* The milliseconds are dropped.
ToRFC3339(t) == t - (t % 2)
Written(w) == Window(ToRFC3339(w.start), ToRFC3339(w.end))

-----------------------------------------------------------------------------
(* Windows *)

\* Wrong: a row after the end of the search is not covered.
Covered_SearchEnd(w, row) == Window(Smaller(row.at, w.start), w.end)

\* The window of the search, widened to a row of its table: one that came live
\* may be later than the end the search was made with.
Covered(w, row) ==
  Window(Smaller(row.at, w.start), Larger(w.end, row.at + Larger(row.length, 0) + Slack))

\* Wrong: the newest end is cut, and not the oldest start.
Cut_End(w) == IF w.end - w.start > MaxWindow THEN Window(w.start, w.start + MaxWindow) ELSE w

\* The server rejects a wider window: the oldest part is cut.
Cut(w) == IF w.end - w.start > MaxWindow THEN Window(w.end - MaxWindow, w.end) ELSE w

\* coverTraceWindow; rows is the set of the row opened, or empty.
CoverTraceWindow(form, rows, now) ==
  IF form.start = NaN \/ form.end = NaN THEN Window(form.start, form.end)
  ELSE LET row == IF rows = {} THEN form ELSE Covered(form, CHOOSE r \in rows : TRUE)
           live == IF now >= row.start THEN Window(row.start, Larger(row.end, now + Slack))
                   ELSE Window(row.start, row.end)
           w == Cut(live)
       IN  Written(IF w.end <= w.start THEN Window(w.start, w.start + Slack) ELSE w)

SlidingWindow(span, now) == Written(Window(now - (IF span # NaN /\ span > 0 THEN span ELSE Day), now))

WindowSpan(w, fallback) == IF w.start # NaN /\ w.end # NaN /\ w.end > w.start THEN w.end - w.start ELSE fallback

\* splitWindow of the overview: two halves, or none.
SplitWindow(w) ==
  IF w.start = NaN \/ w.end = NaN \/ w.end <= w.start THEN {}
  ELSE LET mid == ToRFC3339(w.start + (w.end - w.start) \div 2)
       IN  {Window(w.start, mid), Window(mid, w.end)}

-----------------------------------------------------------------------------
(* Forms and query strings *)

Filters == {"service", "op", "min", "status"}
Fields == Filters \cup {"start", "end", "limit"}
Blank == {"", " "}
Trim(text) == IF text \in Blank THEN "" ELSE IF text = " x " THEN "x" ELSE text

DefaultForm == [f \in Fields |-> CASE f \in Filters -> "" [] f = "limit" -> "50" [] OTHER -> "day"]

\* The window, the limit, and the filters that are set; the shortest duration
\* has a name of its own in each of the two query strings.
Params(form, min) ==
  LET Field(name) == IF name = min THEN "min" ELSE name
      kept == {"start", "end", "limit"} \cup {f \in Filters : form[f] \notin Blank}
  IN  [name \in {IF f = "min" THEN min ELSE f : f \in kept} |->
         IF name = "limit" /\ form["limit"] \in Blank THEN "50" ELSE Trim(form[Field(name)])]

\* Wrong: the page's URL uses the name the server gives the shortest duration.
BuildPageParams_ServerNames(form) == Params(form, "min_duration")

BuildPageParams(form) == Params(form, "min")
BuildSearchParams(form) == Params(form, "min_duration")

\* writePageURL: the trace is added last.
WritePageURL(form, trace) ==
  LET p == BuildPageParams(form)
  IN  [f \in DOMAIN p \cup (IF Trim(trace) = "" THEN {} ELSE {"trace"}) |->
         IF f = "trace" THEN Trim(trace) ELSE p[f]]

FormFromSearchParams(url) ==
  [f \in Fields |-> IF f \in DOMAIN url THEN url[f] ELSE DefaultForm[f]]

FormForService(name, url) ==
  LET current == FormFromSearchParams(url)
  IN  [f \in Fields |-> CASE f \in {"start", "end"} -> current[f]
                          [] f = "limit" -> IF current[f] = "" THEN "50" ELSE current[f]
                          [] f = "service" -> Trim(name)
                          [] OTHER -> ""]

PageTraceID(url) == IF "trace" \in DOMAIN url THEN Trim(url["trace"]) ELSE ""

-----------------------------------------------------------------------------
(* Properties *)

\* The latest moment a window may be made to reach for a row.
Latest(form, r, now) == Larger(Larger(form.end, now + Slack), r.at + Larger(r.length, 0) + Slack)

\* The window a trace is asked for with is one the server takes, for a form in
\* whole seconds, and ends after the row that was clicked.  It holds the start of
\* that row if now, the form's end and the row's own end are all less than the
\* largest window after it.  This is all the code promises: the window always
\* reaches to now, and of a row that is older the cut takes the row itself, so
\* that its trace is not found (query.ts:45-50).
WindowIsLegal(form, rows, now) ==
  LET w == CoverTraceWindow(form, rows, now)
  IN  form.start % 2 = 0 /\ form.end % 2 = 0 =>
        /\ w.start < w.end /\ w.end - w.start <= MaxWindow
        /\ \A r \in rows : /\ r.at + r.length < w.end
                           /\ Latest(form, r, now) - r.at <= MaxWindow => w.start <= r.at

\* The two windows the overview compares follow each other, fill the window on
\* screen and differ by a second at most.
HalvesAreEqual(w) ==
  SplitWindow(w) # {} =>
    \E first, second \in SplitWindow(w) :
      /\ first.start = w.start /\ first.end = second.start /\ second.end = w.end
      /\ (second.end - second.start) - (first.end - first.start) \in 0..2

\* A search read back from the URL it was written to asks the server for the
\* same thing, whatever trace is open; a link to a service keeps its window.
URLKeepsTheSearch(form, trace) ==
  LET url == WritePageURL(form, trace)
      back == FormFromSearchParams(url)
  IN  /\ BuildSearchParams(back) = BuildSearchParams(form)
      /\ PageTraceID(url) = Trim(trace)
      /\ \A f \in {"start", "end"} : FormForService("x", url)[f] = Trim(form[f])
=============================================================================
