---------------------------- MODULE MCTraceList -----------------------------
(* A small instance of TraceList for TLC. *)
EXTENDS TraceList

CONSTANTS tail, old   \* the forms

\* A live tail over everything, and a historical window that one of the traces
\* lies in and whose filters let through only some.
MCForms == {tail, old}
MCMatches == [f \in MCForms |-> IF f = tail THEN Traces ELSE {1, 2}]
MCBefore == [f \in MCForms |-> IF f = tail THEN Traces ELSE {1}]
=============================================================================
