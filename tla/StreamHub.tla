----------------------------- MODULE StreamHub ------------------------------
(***************************************************************************)
(* The in-process fan-out of internal/stream: Hub[T] with its mutex, the   *)
(* subscribers' buffered channels, the goroutines that call Publish, and   *)
(* one ServeHTTP goroutine per WebSocket connection.                       *)
(*                                                                         *)
(* The grain is the critical section: what the code does under Hub.mu is   *)
(* one action, and so is every channel receive.  A receive takes no lock,  *)
(* so it may fall inside a Publish loop; the loop visits each channel      *)
(* once, so such a receive commutes to before or after the whole loop.     *)
(*                                                                         *)
(* Rows are numbered in the order in which Publish obtained the lock.      *)
(*                                                                         *)
(* A definition whose name ends in an underscore and a few words is not    *)
(* part of the model: it is a wrong variant of the definition after it,    *)
(* there to show which property notices that mistake.                      *)
(***************************************************************************)
EXTENDS Naturals, Sequences, FiniteSets

CONSTANTS
  Conns,       \* WebSocket connections, each with its ServeHTTP goroutine and Sub
  Publishers,  \* goroutines that call Publish (ingest handlers)
  MaxClients,  \* HubConfig.MaxClients
  Buffer,      \* HubConfig.Buffer, the capacity of a subscriber's channel
  MaxRows      \* bound: Publish calls that reach an open hub

ASSUME MaxClientsAssumption == MaxClients \in Nat \ {0}  \* NewHub replaces <= 0
ASSUME BufferAssumption == Buffer \in Nat \ {0}          \* NewHub replaces <= 0

VARIABLES
  closed,     \* Hub.closed
  subs,       \* Hub.subs
  ch,         \* ch[c]: rows buffered in the channel of c's Sub
  chOpen,     \* chOpen[c]: the channel of c's Sub exists and is not closed
  full,       \* full[p]: the slow Subs that p's Publish call still has to drop
  conn,       \* conn[c]: where c's ServeHTTP goroutine is
  ctxDone,    \* ctxDone[c]: the context of c's handler is cancelled
  inflight,   \* inflight[c]: <<row>> when c's handler has taken row off ch[c]
  delivered,  \* history: rows written to c's WebSocket
  since,      \* history: rows published before c subscribed
  published   \* history: rows published so far

hubVars == <<closed, subs, ch, chOpen>>
connVars == <<conn, ctxDone, inflight, delivered>>
vars == <<hubVars, full, connVars, since, published>>

\* Every row that reached c's channel, in order, wherever it is by now.
Received(c) == delivered[c] \o inflight[c] \o ch[c]

\* A Publish call found c's buffer full and has not dropped it yet.
Condemned(c) == \E p \in Publishers : c \in full[p]

\* States of ServeHTTP between Subscribe and the deferred Sub.Close.
Attached == {"accepting", "serving", "writing", "closing"}

Init ==
  /\ closed = FALSE
  /\ subs = {}
  /\ ch = [c \in Conns |-> <<>>]
  /\ chOpen = [c \in Conns |-> FALSE]
  /\ full = [p \in Publishers |-> {}]
  /\ conn = [c \in Conns |-> "new"]
  /\ ctxDone = [c \in Conns |-> FALSE]
  /\ inflight = [c \in Conns |-> <<>>]
  /\ delivered = [c \in Conns |-> <<>>]
  /\ since = [c \in Conns |-> 0]
  /\ published = 0

-----------------------------------------------------------------------------
(* Hub operations *)

\* Wrong: closes the channel without deleting the map entry.
Drop_KeepsEntry(c) == chOpen' = [chOpen EXCEPT ![c] = FALSE] /\ UNCHANGED subs

\* Wrong: deletes the map entry without closing the channel.
Drop_LeavesChannelOpen(c) == subs' = subs \ {c} /\ UNCHANGED chOpen

\* Hub.drop: forget s and close its channel, unless it is gone already.
\* After Close h.subs is nil, which the empty set stands for.
Drop(c) ==
  IF c \in subs
  THEN /\ subs' = subs \ {c}
       /\ chOpen' = [chOpen EXCEPT ![c] = FALSE]
  ELSE UNCHANGED <<subs, chOpen>>

\* Wrong: the send does not look at the capacity of the channel.
Publish_Unbounded(p) ==
  /\ ~closed /\ full[p] = {} /\ published < MaxRows
  /\ ch' = [c \in Conns |-> IF c \in subs THEN Append(ch[c], published + 1) ELSE ch[c]]
  /\ published' = published + 1
  /\ UNCHANGED <<closed, subs, chOpen, full, connVars, since>>

\* Wrong: a slow subscriber loses the row and keeps its stream.
Publish_SkipsSlow(p) ==
  /\ ~closed /\ full[p] = {} /\ published < MaxRows
  /\ ch' = [c \in Conns |-> IF c \in subs /\ Len(ch[c]) < Buffer
                             THEN Append(ch[c], published + 1) ELSE ch[c]]
  /\ published' = published + 1
  /\ UNCHANGED <<closed, subs, chOpen, full, connVars, since>>

\* Publish, under the lock: a non-blocking send to every subscriber.  Those
\* whose buffer is full are collected, and dropped after the lock is released.
\* A call that finds the hub closed changes nothing.
Publish(p) ==
  /\ full[p] = {}
  /\ ~closed
  /\ published < MaxRows
  /\ LET slow == {c \in subs : Len(ch[c]) >= Buffer}
     IN /\ ch' = [c \in Conns |-> IF c \in subs \ slow
                                  THEN Append(ch[c], published + 1) ELSE ch[c]]
        /\ full' = [full EXCEPT ![p] = slow]
  /\ published' = published + 1
  /\ UNCHANGED <<closed, subs, chOpen, connVars, since>>

\* Publish, after the lock: drop one of the collected subscribers.
DropSlow(p) ==
  \E c \in full[p] :
    /\ Drop(c)
    /\ full' = [full EXCEPT ![p] = @ \ {c}]
    /\ UNCHANGED <<closed, ch, connVars, since, published>>

\* Wrong: the channels are closed and the subscribers stay registered.
CloseHub_KeepsSubs ==
  /\ ~closed
  /\ closed' = TRUE
  /\ chOpen' = [c \in Conns |-> chOpen[c] /\ c \notin subs]
  /\ UNCHANGED <<subs, ch, full, connVars, since, published>>

\* Wrong: only the flag is set and the map forgotten.
CloseHub_LeavesChannelsOpen ==
  /\ ~closed
  /\ closed' = TRUE
  /\ subs' = {}
  /\ UNCHANGED <<chOpen, ch, full, connVars, since, published>>

\* Hub.Close: refuse further work and close every subscriber's channel.
CloseHub ==
  /\ ~closed
  /\ closed' = TRUE
  /\ chOpen' = [c \in Conns |-> chOpen[c] /\ c \notin subs]
  /\ subs' = {}
  /\ UNCHANGED <<ch, full, connVars, since, published>>

-----------------------------------------------------------------------------
(* The ServeHTTP goroutine of connection c *)

Goto(c, from, to) == conn[c] = from /\ conn' = [conn EXCEPT ![c] = to]

\* Hub.Subscribe succeeds.
Subscribe(c) ==
  /\ Goto(c, "new", "accepting")
  /\ ~closed
  /\ Cardinality(subs) < MaxClients
  /\ subs' = subs \cup {c}
  /\ chOpen' = [chOpen EXCEPT ![c] = TRUE]
  /\ since' = [since EXCEPT ![c] = published]
  /\ UNCHANGED <<closed, ch, full, ctxDone, inflight, delivered, published>>

\* ErrClosed or ErrTooManyClients: the handler answers 503.
Refuse(c) ==
  /\ Goto(c, "new", "refused")
  /\ closed \/ Cardinality(subs) >= MaxClients
  /\ UNCHANGED <<hubVars, full, ctxDone, inflight, delivered, since, published>>

\* websocket.Accept returns: upgraded, or failed and the handler returns.
Accept(c) ==
  /\ Goto(c, "accepting", "serving") \/ Goto(c, "accepting", "closing")
  /\ UNCHANGED <<hubVars, full, ctxDone, inflight, delivered, since, published>>

\* The reader goroutine: conn.Read fails because the peer left, cancel runs.
PeerGone(c) ==
  /\ conn[c] \in {"serving", "writing"}
  /\ ~ctxDone[c]
  /\ ctxDone' = [ctxDone EXCEPT ![c] = TRUE]
  /\ UNCHANGED <<hubVars, full, conn, inflight, delivered, since, published>>

\* select: <-ctx.Done()
SeeDone(c) ==
  /\ Goto(c, "serving", "closing")
  /\ ctxDone[c]
  /\ UNCHANGED <<hubVars, full, ctxDone, inflight, delivered, since, published>>

\* select: row, ok := <-sub.C() with a row buffered.  A closed channel still
\* hands out what it holds.
Receive(c) ==
  /\ Goto(c, "serving", "writing")
  /\ ch[c] # <<>>
  /\ inflight' = [inflight EXCEPT ![c] = <<Head(ch[c])>>]
  /\ ch' = [ch EXCEPT ![c] = Tail(@)]
  /\ UNCHANGED <<closed, subs, chOpen, full, ctxDone, delivered, since, published>>

\* select: row, ok := <-sub.C() with ok false.
SeeClosed(c) ==
  /\ Goto(c, "serving", "closing")
  /\ ch[c] = <<>>
  /\ ~chOpen[c]
  /\ UNCHANGED <<hubVars, full, ctxDone, inflight, delivered, since, published>>

\* wsjson.Write succeeds within writeTimeout.
WriteOk(c) ==
  /\ Goto(c, "writing", "serving")
  /\ delivered' = [delivered EXCEPT ![c] = @ \o inflight[c]]
  /\ inflight' = [inflight EXCEPT ![c] = <<>>]
  /\ UNCHANGED <<hubVars, full, ctxDone, since, published>>

\* wsjson.Write fails: timeout, cancelled context or broken connection.
WriteFail(c) ==
  /\ Goto(c, "writing", "closing")
  /\ UNCHANGED <<hubVars, full, ctxDone, inflight, delivered, since, published>>

\* Wrong: Sub.Close is not deferred.
Unsubscribe_WithoutClose(c) ==
  /\ Goto(c, "closing", "done")
  /\ ctxDone' = [ctxDone EXCEPT ![c] = TRUE]
  /\ UNCHANGED <<hubVars, full, inflight, delivered, since, published>>

\* The deferred calls: cancel, conn.Close, then Sub.Close.
Unsubscribe(c) ==
  /\ Goto(c, "closing", "done")
  /\ ctxDone' = [ctxDone EXCEPT ![c] = TRUE]
  /\ Drop(c)
  /\ UNCHANGED <<closed, ch, full, inflight, delivered, since, published>>

HandlerStep(c) ==
  \/ Accept(c) \/ SeeDone(c) \/ Receive(c) \/ SeeClosed(c)
  \/ WriteOk(c) \/ WriteFail(c) \/ Unsubscribe(c)

Next ==
  \/ \E p \in Publishers : Publish(p) \/ DropSlow(p)
  \/ CloseHub
  \/ \E c \in Conns : Subscribe(c) \/ Refuse(c) \/ PeerGone(c) \/ HandlerStep(c)

Spec == Init /\ [][Next]_vars

(* What the scheduler owes: it runs every goroutine that can run, sync.Mutex *)
(* does not starve, and Accept, Write and conn.Close return within their     *)
(* time limits.  Nothing makes a client connect or leave, a row be published *)
(* or the hub close.                                                         *)
PublisherFairness == \A p \in Publishers : WF_vars(DropSlow(p))
HandlerFairness == \A c \in Conns : WF_vars(HandlerStep(c))

FairSpec == Spec /\ PublisherFairness /\ HandlerFairness

-----------------------------------------------------------------------------
(* Properties *)

TypeOK ==
  /\ closed \in BOOLEAN
  /\ subs \subseteq Conns
  /\ ch \in [Conns -> Seq(Nat)]
  /\ \A c \in Conns : Len(ch[c]) <= Buffer
  /\ chOpen \in [Conns -> BOOLEAN]
  /\ full \in [Publishers -> SUBSET Conns]
  /\ conn \in [Conns -> Attached \cup {"new", "refused", "done"}]
  /\ ctxDone \in [Conns -> BOOLEAN]
  /\ inflight \in [Conns -> Seq(Nat)]
  /\ \A c \in Conns : Len(inflight[c]) <= 1
  /\ delivered \in [Conns -> Seq(Nat)]
  /\ since \in [Conns -> Nat]
  /\ published \in Nat

\* Publish sends to exactly the channels of registered Subs, and a send on a
\* closed channel panics in Go: a Sub is registered exactly while its channel
\* is open, whichever of Publish's drop, the handler's Close and Hub.Close
\* came first, and a closed hub has nobody registered.
RegisteredIffOpen ==
  /\ \A c \in Conns : c \in subs <=> chOpen[c]
  /\ closed => subs = {}

\* MaxClients counts live connections: there are never more of them than
\* MaxClients, and every slot in use belongs to a handler that has not
\* returned, so that a slot is always given back.
SlotsBelongToHandlers ==
  /\ Cardinality(subs) <= MaxClients
  /\ \A c \in subs : conn[c] \in Attached

\* A Sub that stays registered and is not about to be dropped has been handed
\* every row published since it subscribed, in order and without a gap: a
\* client that misses a row is one that loses its stream.
GaplessUntilDropped ==
  \A c \in subs :
    ~Condemned(c) =>
      Received(c) = [i \in 1..(published - since[c]) |-> since[c] + i]

\* The hub implements the fan-out promised to viewers: rows reach everyone in
\* one order, a gap is followed only by the end of the stream, and nothing is
\* handed to a viewer after its end.
FanoutPhase(c) ==
  IF c \in subs THEN IF Condemned(c) THEN "lagging" ELSE "live"
  ELSE IF conn[c] \in {"new", "refused"} THEN "out" ELSE "ended"

Fanout == INSTANCE LiveFanout WITH
  Viewers <- Conns,
  rows <- published,
  phase <- [c \in Conns |-> FanoutPhase(c)],
  from <- since,
  view <- [c \in Conns |-> Received(c)],
  open <- ~closed

ImplementsFanout == Fanout!FSpec

\* Once the hub is closed every handler returns, so that shutdown is not held
\* up by a hijacked connection.
CloseEndsHandlers ==
  \A c \in Conns : (closed /\ conn[c] \in Attached) ~> conn[c] = "done"

\* A client that was too slow is disconnected and its slot is free again.
SlowClientIsDisconnected ==
  \A c \in Conns : (c \in subs /\ Condemned(c)) ~> (c \notin subs /\ conn[c] = "done")
=============================================================================
