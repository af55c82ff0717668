----------------------------- MODULE RateLimit ------------------------------
(***************************************************************************)
(* stream.RateLimit: a fixed-window cap on published live events, shared   *)
(* by every ingest goroutine.  Allow reads the clock before it takes the   *)
(* lock, so the time it compares may be arbitrarily old by then.           *)
(*                                                                         *)
(* Time is counted in ticks.  time.Now carries a monotonic reading and     *)
(* Sub uses it, so the clock never goes back.  A limit of 0 is a nil       *)
(* *RateLimit, which allows everything and is not modelled.                *)
(***************************************************************************)
EXTENDS Naturals, Sequences, FiniteSets

CONSTANTS
  Callers,  \* goroutines that call Allow
  N,        \* RateLimit.n
  Second,   \* ticks in a second
  MaxTime   \* bound: the last tick

ASSUME NAssumption == N \in Nat \ {0}            \* NewRateLimit: n <= 0 is nil
ASSUME SecondAssumption == Second \in Nat \ {0}

VARIABLES
  now,       \* the clock
  started,   \* ~RateLimit.from.IsZero()
  from,      \* RateLimit.from, the start of the current window
  used,      \* RateLimit.used
  waiting,   \* the callers between their clock reading and the lock
  stamp,     \* stamp[g]: the clock reading t of g's call
  admitted,  \* history: the times at which Allow returned true
  stalled    \* history: some caller got the lock later than its clock reading

vars == <<now, started, from, used, waiting, stamp, admitted, stalled>>

Init ==
  /\ now = 0
  /\ started = FALSE
  /\ from = 0
  /\ used = 0
  /\ waiting = {}
  /\ stamp = [g \in Callers |-> 0]
  /\ admitted = <<>>
  /\ stalled = FALSE

Tick ==
  /\ now < MaxTime
  /\ now' = now + 1
  /\ UNCHANGED <<started, from, used, waiting, stamp, admitted, stalled>>

\* t := now()
ReadClock(g) ==
  /\ g \notin waiting
  /\ waiting' = waiting \cup {g}
  /\ stamp' = [stamp EXCEPT ![g] = now]
  /\ UNCHANGED <<now, started, from, used, admitted, stalled>>

\* t.Sub(r.from) >= time.Second; t may be earlier than from.
WindowOver(t) == ~started \/ t >= from + Second

\* What Allow does under the lock, once the window is chosen.
Decide(g, reset, count) ==
  /\ g \in waiting
  /\ waiting' = waiting \ {g}
  /\ started' = TRUE
  /\ from' = IF reset THEN stamp[g] ELSE from
  /\ IF count >= N
     THEN used' = count /\ UNCHANGED admitted
     ELSE used' = count + 1 /\ admitted' = Append(admitted, now)
  /\ stalled' = (stalled \/ stamp[g] < now)
  /\ stamp' = [stamp EXCEPT ![g] = 0]  \* dead after the call
  /\ UNCHANGED now

\* Wrong: the window lasts one tick less than a second.
Allow_ShortWindow(g) ==
  LET over == ~started \/ stamp[g] + 1 >= from + Second
  IN Decide(g, over, IF over THEN 0 ELSE used)

\* Wrong: a new window keeps the old count.
Allow_KeepsCount(g) == Decide(g, WindowOver(stamp[g]), used)

\* Wrong: one event too many is let through.
Allow_OneMore(g) ==
  /\ g \in waiting
  /\ waiting' = waiting \ {g}
  /\ started' = TRUE
  /\ from' = IF WindowOver(stamp[g]) THEN stamp[g] ELSE from
  /\ LET count == IF WindowOver(stamp[g]) THEN 0 ELSE used
     IN IF count > N
        THEN used' = count /\ UNCHANGED admitted
        ELSE used' = count + 1 /\ admitted' = Append(admitted, now)
  /\ stalled' = (stalled \/ stamp[g] < now)
  /\ stamp' = [stamp EXCEPT ![g] = 0]
  /\ UNCHANGED now

\* Allow from r.mu.Lock() to its return.
Allow(g) ==
  LET over == WindowOver(stamp[g])
  IN Decide(g, over, IF over THEN 0 ELSE used)

Next ==
  \/ Tick
  \/ \E g \in Callers : ReadClock(g) \/ Allow(g)

Spec == Init /\ [][Next]_vars

-----------------------------------------------------------------------------
(* Properties *)

TypeOK ==
  /\ now \in Nat
  /\ started \in BOOLEAN
  /\ from \in Nat
  /\ used \in 0..N
  /\ waiting \subseteq Callers
  /\ stamp \in [Callers -> Nat]
  /\ admitted \in Seq(Nat)
  /\ stalled \in BOOLEAN

\* Events published in the last second of tick t, t included.
InSecondUpTo(t) == {i \in DOMAIN admitted : admitted[i] <= t /\ admitted[i] + Second > t}

\* However late the callers are, the limiter holds over the long run: since
\* time 0 it has let through at most N events for every second begun.
LongRunRate == Len(admitted) <= N * (1 + now \div Second)

\* As long as no caller is delayed between the clock and the lock, no second
\* sees more than 2N - 1 events (limit.go's window starts at an event, so a
\* burst at its end meets a burst at the start of the next one).
BurstBound ==
  ~stalled => \A t \in 0..now : Cardinality(InSecondUpTo(t)) <= 2 * N - 1

\* An event is turned away only when N others were published no more than a
\* second before its clock reading: the limiter never starves the stream.
NoNeedlessRefusal ==
  [][\A g \in waiting \ waiting' :
       admitted' = admitted =>
         Cardinality({i \in DOMAIN admitted : admitted[i] + Second > stamp[g]}) >= N]_vars
=============================================================================
