------------------------------- MODULE Pickers -------------------------------
(***************************************************************************)
(* The two text fields with a menu of a search form: NamePicker.tsx,       *)
(* ServicePicker.tsx, OpPicker.tsx and SearchForm.tsx in web/src/search.   *)
(* The menu of services is loaded for the form's window, that of           *)
(* operations for its service and window.                                  *)
(*                                                                         *)
(* "view" is the form and the state of the two pickers; "calls" are their  *)
(* calls of the query API.  A name is a sequence of letters, and so is     *)
(* what is typed, which may be a part of a name; of is what a menu's names *)
(* were asked for.                                                         *)
(*                                                                         *)
(* A definition whose name ends in an underscore and a few words is a      *)
(* wrong variant of the one after it.                                      *)
(***************************************************************************)
EXTENDS Naturals, Sequences

CONSTANTS
  ServiceNames,   \* the services of the server
  OpNames,        \* the operations of each of them
  Texts,          \* what is typed
  MaxWins         \* bound: the windows of a behaviour

VARIABLES view, calls

Here == view.page = "form"
Which == {"service", "op"}
Blank == <<>>
Wanted(v, p) == IF p = "service" THEN [p |-> p, win |-> v.win] ELSE [p |-> p, win |-> v.win, service |-> v.service]
NoMenu == [open |-> FALSE, hi |-> 1, names |-> <<>>, of |-> [p |-> "none"]]

IsIn(part, name) == \E i \in 0..Len(name) - Len(part) : SubSeq(name, i + 1, i + Len(part)) = part

\* menuOptions: "any", and the names that contain the text, or all of them when
\* the text is one.
MenuOptions(value, names) ==
  LET exact == value \in {names[i] : i \in DOMAIN names}
  IN  <<Blank>> \o (IF value = Blank \/ exact THEN names ELSE SelectSeq(names, LAMBDA n : IsIn(value, n)))
Options(v, p) == MenuOptions(v[p], v.menu[p].names)

-----------------------------------------------------------------------------
(* Rendering: the effects whose dependencies a step has changed *)

\* Wrong: the operations are loaded again for a new window only.
Reloads_ForWindow(v, w, p) == w.win # v.win

\* The effects on [start, end] and on [service, start, end].
Reloads(v, w, p) == w.win # v.win \/ (p = "op" /\ w.service # v.service)

\* Their cleanup aborts the call: its answer is dropped.  Without a service
\* there are no operations.
Calls(v, w) ==
  {c \in calls : ~Reloads(v, w, c.p)}
    \cup {Wanted(w, p) : p \in {q \in Which : Reloads(v, w, q) /\ (q = "op" => w.service # Blank)}}

\* NamePicker's effect on [value, open] takes the highlight back to the top.
Render(w) ==
  LET Menu(p) ==
        LET m == w.menu[p]
            top == IF w[p] # view[p] \/ m.open # view.menu[p].open THEN [m EXCEPT !.hi = 1] ELSE m
        IN  IF p = "op" /\ Reloads(view, w, p) /\ w.service = Blank
            THEN [top EXCEPT !.names = <<>>, !.of = [p |-> "none"]] ELSE top
  IN  /\ view' = [w EXCEPT !.menu = [p \in Which |-> Menu(p)]]
      /\ calls' = Calls(view, w)

-----------------------------------------------------------------------------
(* The user *)

Enabled == Here /\ ~view.disabled
Shows(p) == view.menu[p].open /\ ~view.disabled

SetForm(v, p, text, picked) ==
  IF p = "service" /\ picked THEN [v EXCEPT !.service = text, !.op = Blank] ELSE [v EXCEPT ![p] = text]

Focus(p) == Enabled /\ ~view.menu[p].open /\ Render([view EXCEPT !.menu[p].open = TRUE])
Type(p, text) ==
  Enabled /\ text # view[p] /\ Render([SetForm(view, p, text, FALSE) EXCEPT !.menu[p].open = TRUE])
Close(p) == Here /\ view.menu[p].open /\ Render([view EXCEPT !.menu[p].open = FALSE])

\* The arrows, and the pointer over an option.
Highlight(p, i) ==
  /\ Enabled /\ Shows(p) /\ i \in DOMAIN Options(view, p)
  /\ Render([view EXCEPT !.menu[p].hi = i])

\* Enter, when the highlight is on an option, or a click on one.
Pick(p, i) ==
  /\ Here /\ Shows(p) /\ i \in DOMAIN Options(view, p)
  /\ Render([SetForm(view, p, Options(view, p)[i], TRUE) EXCEPT !.menu[p].open = FALSE])

\* The window's fields.
SetWindow == Enabled /\ view.win < MaxWins /\ Render([view EXCEPT !.win = @ + 1])

\* The form is disabled while its search is under way: search, reset, an answer.
SetDisabled == Here /\ Render([view EXCEPT !.disabled = ~@])

-----------------------------------------------------------------------------
(* Answers: the names, or none for a failure *)

Named(c) ==
  IF c.p = "service" THEN ServiceNames
  ELSE IF c.service \in DOMAIN OpNames THEN OpNames[c.service] ELSE <<>>

NamesArrive(c, ok) ==
  /\ Here
  /\ view' = [view EXCEPT !.menu[c.p].names = IF ok THEN Named(c) ELSE <<>>, !.menu[c.p].of = c]
  /\ calls' = calls \ {c}

Init ==
  /\ view = [page |-> "form", service |-> Blank, op |-> Blank, win |-> 1, disabled |-> FALSE,
             menu |-> [p \in Which |-> NoMenu]]
  /\ calls = {Wanted(view, "service")}

Next ==
  \/ SetWindow \/ SetDisabled
  \/ \E p \in Which : \/ Focus(p) \/ Close(p)
                      \/ \E text \in Texts : Type(p, text)
                      \/ \E i \in 1..3 : Highlight(p, i) \/ Pick(p, i)
  \/ \E c \in calls, ok \in BOOLEAN : NamesArrive(c, ok)

-----------------------------------------------------------------------------
(* Properties *)

\* Once nothing is being loaded for it, a menu offers names of the form's
\* window, and operations of the form's service.
ShowsTheSelection ==
  \A p \in Which :
    (\A c \in calls : c.p # p) => view.menu[p].names = <<>> \/ view.menu[p].of = Wanted(view, p)
=============================================================================
