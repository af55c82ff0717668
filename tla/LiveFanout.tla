----------------------------- MODULE LiveFanout -----------------------------
(***************************************************************************)
(* What the live stream promises its subscribers, without channels, locks  *)
(* or handlers.  Rows are numbered in the order in which they were         *)
(* published.  A viewer that has joined sees every row until the stream    *)
(* fails to hand it one; from then on it is "lagging": it may or may not   *)
(* be handed further rows, and the only way out is to end.  A viewer that  *)
(* has ended is never handed another row.                                  *)
(***************************************************************************)
EXTENDS Naturals, Sequences

CONSTANTS Viewers   \* everyone who may ever join

VARIABLES
  rows,    \* how many rows have been published; row n is the n-th
  phase,   \* phase[v]: "out", "live", "lagging" or "ended"
  from,    \* from[v]: the number of rows published before v joined
  view,    \* view[v]: the rows handed to v, in order
  open     \* FALSE once the stream has stopped for good

fvars == <<rows, phase, from, view, open>>

FInit ==
  /\ rows = 0
  /\ phase = [v \in Viewers |-> "out"]
  /\ from = [v \in Viewers |-> 0]
  /\ view = [v \in Viewers |-> <<>>]
  /\ open = TRUE

Join(v) ==
  /\ open
  /\ phase[v] = "out"
  /\ phase' = [phase EXCEPT ![v] = "live"]
  /\ from' = [from EXCEPT ![v] = rows]
  /\ UNCHANGED <<rows, view, open>>

Listening == {v \in Viewers : phase[v] \in {"live", "lagging"}}

\* One row is handed to some of the listeners; the others fall behind.
Broadcast(reached) ==
  /\ open
  /\ reached \subseteq Listening
  /\ rows' = rows + 1
  /\ view' = [v \in Viewers |-> IF v \in reached THEN Append(view[v], rows + 1)
                                ELSE view[v]]
  /\ phase' = [v \in Viewers |-> IF v \in Listening \ reached THEN "lagging"
                                 ELSE phase[v]]
  /\ UNCHANGED <<from, open>>

\* A viewer leaves, or the stream gives up on it.
End(v) ==
  /\ v \in Listening
  /\ phase' = [phase EXCEPT ![v] = "ended"]
  /\ UNCHANGED <<rows, from, view, open>>

\* The stream stops: everyone who listens has ended.
Stop ==
  /\ open
  /\ open' = FALSE
  /\ phase' = [v \in Viewers |-> IF v \in Listening THEN "ended" ELSE phase[v]]
  /\ UNCHANGED <<rows, from, view>>

FNext ==
  \/ \E v \in Viewers : Join(v) \/ End(v)
  \/ \E reached \in SUBSET Viewers : Broadcast(reached)
  \/ Stop

FSpec == FInit /\ [][FNext]_fvars
=============================================================================
