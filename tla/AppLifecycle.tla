---------------------------- MODULE AppLifecycle ----------------------------
(***************************************************************************)
(* The process: App.InitApp brings the units up in order, Wait blocks      *)
(* until Stop or a server failure, and Close takes the units down in       *)
(* reverse under one deadline.  Modelled with it are what the two servers  *)
(* and the WebSocket handlers do while that happens: HTTP requests, gRPC   *)
(* calls and live streams in flight.                                       *)
(*                                                                         *)
(* net/http and grpc are external: Shutdown, GracefulStop and Stop are     *)
(* modelled by what the units rely on.                                     *)
(***************************************************************************)
EXTENDS Naturals, Sequences, SequencesExt

CONSTANTS
  HTTPReqs,   \* HTTP requests that use the store (ingest and queries)
  RPCs,       \* OTLP/gRPC Export calls
  Sockets,    \* live streams: hijacked connections with a Sub of the hub
  Stoppers    \* goroutines that call Stop (signal watcher, context watcher)

\* DefaultUnits, and the ones that have a CloseFn.
Units == <<"config", "logger", "store", "stream", "otlp", "query", "logs", "http">>
Closable == {"store", "stream", "otlp", "http"}
Servers == {"otlp", "http"}
Requests == HTTPReqs \cup RPCs
ServerOf(q) == IF q \in HTTPReqs THEN "http" ELSE "otlp"

VARIABLES
  phase,      \* "init", "wait", "close", "drain", "returned", or "exit" (init failed)
  next,       \* index of the unit InitApp is at
  closeFns,   \* App.closeFns: names of the units to close, in order of Init
  aborted,    \* Close was called by a failing InitApp
  stopped,    \* App.stopCh is closed
  called,     \* the Stoppers that have called Stop
  closing,    \* the unit whose CloseFn is running, or "none"
  expired,    \* the shutdown deadline has passed
  resources,  \* units that are up: their resource exists and is not closed
  server,     \* server[s]: "down", "serving", "draining", "failed" or "ended"
  serveErr,   \* App.serveErr, a channel of capacity 4
  serveCount, \* App.serveCount
  serveTaken, \* App.serveTaken
  drained,    \* results drainServeErr has received
  waitErr,    \* App.waitServeErr: "nil" or "error"
  request,    \* request[q]: "none", "running", "ended"
  socket,     \* socket[w]: "none", "open", "hangup" (its channel was closed), "ended"
  closeLog    \* history: the units closed, in order

closeVars == <<closeFns, closing, resources, closeLog>>
waitVars == <<serveTaken, drained, waitErr>>
serveVars == <<server, serveErr, serveCount>>
workVars == <<request, socket>>
stopVars == <<stopped, called>>
vars == <<phase, next, aborted, expired, stopVars, closeVars, waitVars, serveVars, workVars>>

Init ==
  /\ phase = "init"
  /\ next = 1
  /\ closeFns = <<>>
  /\ aborted = FALSE
  /\ stopped = FALSE
  /\ called = {}
  /\ closing = "none"
  /\ expired = FALSE
  /\ resources = {}
  /\ server = [s \in Servers |-> "down"]
  /\ serveErr = <<>>
  /\ serveCount = 0
  /\ serveTaken = FALSE
  /\ drained = 0
  /\ waitErr = "nil"
  /\ request = [q \in Requests |-> "none"]
  /\ socket = [w \in Sockets |-> "none"]
  /\ closeLog = <<>>

-----------------------------------------------------------------------------
(* InitApp *)

\* startServe: count the server and run Serve in a goroutine.
StartServe(u) ==
  IF u \in Servers
  THEN /\ server' = [server EXCEPT ![u] = "serving"]
       /\ serveCount' = serveCount + 1
  ELSE UNCHANGED <<server, serveCount>>

\* Wrong: a nil CloseFn is registered too.
InitUnit_RegistersAll ==
  LET u == Units[next]
  IN /\ phase = "init"
     /\ StartServe(u)
     /\ resources' = resources \cup (Closable \cap {u})
     /\ closeFns' = Append(closeFns, u)
     /\ next' = next + 1
     /\ phase' = IF next = Len(Units) THEN "wait" ELSE "init"
     /\ UNCHANGED <<aborted, expired, stopVars, closing, closeLog, waitVars, serveErr, workVars>>

\* Wrong: a unit's CloseFn is put in front.
InitUnit_Prepends ==
  LET u == Units[next]
  IN /\ phase = "init"
     /\ StartServe(u)
     /\ resources' = resources \cup (Closable \cap {u})
     /\ closeFns' = IF u \in Closable THEN <<u>> \o closeFns ELSE closeFns
     /\ next' = next + 1
     /\ phase' = IF next = Len(Units) THEN "wait" ELSE "init"
     /\ UNCHANGED <<aborted, expired, stopVars, closing, closeLog, waitVars, serveErr, workVars>>

\* InitFn succeeds; only then is CloseFn registered.  After the last unit the
\* caller goes on to Wait.
InitUnit ==
  LET u == Units[next]
  IN /\ phase = "init"
     /\ StartServe(u)
     /\ resources' = resources \cup (Closable \cap {u})
     /\ closeFns' = IF u \in Closable THEN Append(closeFns, u) ELSE closeFns
     /\ next' = next + 1
     /\ phase' = IF next = Len(Units) THEN "wait" ELSE "init"
     /\ UNCHANGED <<aborted, expired, stopVars, closing, closeLog, waitVars, serveErr, workVars>>

\* InitFn fails, and has undone what it had opened itself (a failed Migrate
\* closes the store, a failed listen stops the gRPC server).
InitFails ==
  /\ phase = "init"
  /\ phase' = "close"
  /\ aborted' = TRUE
  /\ UNCHANGED <<next, expired, stopVars, closeVars, waitVars, serveVars, workVars>>

-----------------------------------------------------------------------------
(* Stop, Wait and Close *)

\* WatchShutdown or Run's watcher.  Both are started after InitApp.
Stop(g) ==
  /\ phase # "init"
  /\ ~aborted
  /\ g \notin called
  /\ called' = called \cup {g}
  /\ stopped' = TRUE
  /\ UNCHANGED <<phase, next, aborted, expired, closeVars, waitVars, serveVars, workVars>>

\* Wait's select: the first serve result, or stopCh.
WaitTakesResult ==
  /\ phase = "wait"
  /\ serveErr # <<>>
  /\ serveTaken' = TRUE
  /\ waitErr' = Head(serveErr)
  /\ serveErr' = Tail(serveErr)
  /\ phase' = "close"
  /\ UNCHANGED <<next, aborted, expired, stopVars, closeVars, drained, server, serveCount, workVars>>

WaitIsStopped ==
  /\ phase = "wait"
  /\ stopped
  /\ phase' = "close"
  /\ UNCHANGED <<next, aborted, expired, stopVars, closeVars, waitVars, serveVars, workVars>>

\* The context of stopUnitsBounded or closeWithTimeout, one for all units.
Expire ==
  /\ phase = "close"
  /\ ~expired
  /\ expired' = TRUE
  /\ UNCHANGED <<phase, next, aborted, stopVars, closeVars, waitVars, serveVars, workVars>>

\* Close's loop enters the next CloseFn, the last one registered first.  The
\* servers stop accepting: Serve of net/http returns at once, gRPC's Serve
\* returns when the stop is complete.
CloseBegin ==
  /\ phase = "close"
  /\ closing = "none"
  /\ closeFns # <<>>
  /\ closing' = Last(closeFns)
  /\ closeFns' = Front(closeFns)
  /\ server' = [s \in Servers |->
       IF s = Last(closeFns) /\ server[s] = "serving" THEN "draining" ELSE server[s]]
  /\ UNCHANGED <<phase, next, aborted, expired, stopVars, resources, closeLog, waitVars,
                 serveErr, serveCount, workVars>>

\* http.Server.Shutdown and grpc GracefulStop return when no request is left.
\* Once the deadline has passed Shutdown returns its error and leaves running
\* requests alone; GRPC.Shutdown calls Stop, which closes the connections, and
\* still waits for GracefulStop, and with it for the handlers.
Drained(u) == \A q \in Requests : ServerOf(q) = u => request[q] # "running"
MayClose(u) == u \in Servers => Drained(u) \/ (u = "http" /\ expired)

\* Stop has cancelled the context of this call's handler.
Cancelled(q) == ServerOf(q) = "otlp" /\ closing = "otlp" /\ expired

\* Hub.Close closes the channels; each WebSocket handler ends (StreamHub).
Hangup(u) ==
  IF u = "stream"
  THEN socket' = [w \in Sockets |-> IF socket[w] = "open" THEN "hangup" ELSE socket[w]]
  ELSE UNCHANGED socket

\* Wrong: the server's CloseFn does not wait for requests.
CloseEnd_NoDrain ==
  /\ closing # "none"
  /\ resources' = resources \ {closing}
  /\ closeLog' = Append(closeLog, closing)
  /\ Hangup(closing)
  /\ closing' = "none"
  /\ UNCHANGED <<phase, next, aborted, expired, stopVars, closeFns, waitVars, serveVars, request>>

\* Wrong: Shutdown of the servers ignores the deadline.
CloseEnd_IgnoresDeadline ==
  /\ closing # "none"
  /\ closing \in Servers => Drained(closing)
  /\ resources' = resources \ {closing}
  /\ closeLog' = Append(closeLog, closing)
  /\ Hangup(closing)
  /\ closing' = "none"
  /\ UNCHANGED <<phase, next, aborted, expired, stopVars, closeFns, waitVars, serveVars, request>>

\* Wrong: CloseStream forgets the hub.
CloseEnd_KeepsHub ==
  /\ closing # "none"
  /\ MayClose(closing)
  /\ resources' = resources \ {closing}
  /\ closeLog' = Append(closeLog, closing)
  /\ closing' = "none"
  /\ UNCHANGED <<phase, next, aborted, expired, stopVars, closeFns, waitVars, serveVars, workVars>>

\* The CloseFn returns; an error is logged and the loop goes on.
CloseEnd ==
  /\ closing # "none"
  /\ MayClose(closing)
  /\ resources' = resources \ {closing}
  /\ closeLog' = Append(closeLog, closing)
  /\ Hangup(closing)
  /\ closing' = "none"
  /\ UNCHANGED <<phase, next, aborted, expired, stopVars, closeFns, waitVars, serveVars, request>>

\* Close is done: InitApp returns its error, or Wait goes on to drainServeErr.
CloseDone ==
  /\ phase = "close"
  /\ closing = "none"
  /\ closeFns = <<>>
  /\ phase' = IF aborted THEN "exit" ELSE "drain"
  /\ UNCHANGED <<next, aborted, expired, stopVars, closeVars, waitVars, serveVars, workVars>>

\* How many results are still to come.
Outstanding == serveCount - (IF serveTaken THEN 1 ELSE 0)

\* Wrong: the results are not waited for.
DrainDone_AtOnce ==
  /\ phase = "drain"
  /\ phase' = "returned"
  /\ UNCHANGED <<next, aborted, expired, stopVars, closeVars, waitVars, serveVars, workVars>>

\* drainServeErr: receive what is outstanding, keep the first error.
DrainOne ==
  /\ phase = "drain"
  /\ drained < Outstanding
  /\ serveErr # <<>>
  /\ waitErr' = IF waitErr = "nil" THEN Head(serveErr) ELSE waitErr
  /\ serveErr' = Tail(serveErr)
  /\ drained' = drained + 1
  /\ UNCHANGED <<phase, next, aborted, expired, stopVars, closeVars, serveTaken, server,
                 serveCount, workVars>>

DrainDone ==
  /\ phase = "drain"
  /\ drained = Outstanding
  /\ phase' = "returned"
  /\ UNCHANGED <<next, aborted, expired, stopVars, closeVars, waitVars, serveVars, workVars>>

-----------------------------------------------------------------------------
(* The servers and what runs on them *)

ServeResult(s, result) ==
  /\ Len(serveErr) < 4
  /\ serveErr' = Append(serveErr, result)
  /\ UNCHANGED <<phase, next, aborted, expired, stopVars, closeVars, waitVars, serveCount, workVars>>

\* Serve returns an error of its own, such as a failing listener.
ServeFails(s) ==
  /\ server[s] = "serving"
  /\ server' = [server EXCEPT ![s] = "failed"]
  /\ ServeResult(s, "error")

\* Serve returns because it was shut down; the expected error becomes nil.
ServeEnds(s) ==
  /\ server[s] = "draining"
  /\ s = "otlp" => s \notin resources
  /\ server' = [server EXCEPT ![s] = "ended"]
  /\ ServeResult(s, "nil")

\* Connections outlive a failed accept loop.  GracefulStop lets calls begin
\* until it is complete.
Accepting(s) ==
  /\ s \in resources
  /\ closing # s \/ (s = "otlp" /\ ~expired)

Begin(q) ==
  /\ request[q] = "none"
  /\ Accepting(ServerOf(q))
  /\ request' = [request EXCEPT ![q] = "running"]
  /\ UNCHANGED <<phase, next, aborted, expired, stopVars, closeVars, waitVars, serveVars, socket>>

End(q) ==
  /\ request[q] = "running"
  /\ request' = [request EXCEPT ![q] = "ended"]
  /\ UNCHANGED <<phase, next, aborted, expired, stopVars, closeVars, waitVars, serveVars, socket>>

\* A browser opens a live stream: upgraded, and no longer the server's.
Open(w) ==
  /\ socket[w] = "none"
  /\ Accepting("http")
  /\ socket' = [socket EXCEPT ![w] = "open"]
  /\ UNCHANGED <<phase, next, aborted, expired, stopVars, closeVars, waitVars, serveVars, request>>

\* The handler notices that its channel is closed, or the browser leaves.
HandlerEnds(w) ==
  /\ socket[w] = "hangup"
  /\ socket' = [socket EXCEPT ![w] = "ended"]
  /\ UNCHANGED <<phase, next, aborted, expired, stopVars, closeVars, waitVars, serveVars, request>>

Leave(w) ==
  /\ socket[w] = "open"
  /\ socket' = [socket EXCEPT ![w] = "ended"]
  /\ UNCHANGED <<phase, next, aborted, expired, stopVars, closeVars, waitVars, serveVars, request>>

WaitStep == WaitTakesResult \/ WaitIsStopped \/ DrainOne \/ DrainDone
CloseStep == CloseBegin \/ CloseEnd \/ CloseDone

Next ==
  \/ InitUnit \/ InitFails \/ WaitStep \/ CloseStep \/ Expire
  \/ \E g \in Stoppers : Stop(g)
  \/ \E s \in Servers : ServeFails(s) \/ ServeEnds(s)
  \/ \E q \in Requests : Begin(q) \/ End(q)
  \/ \E w \in Sockets : Open(w) \/ HandlerEnds(w) \/ Leave(w)

Spec == Init /\ [][Next]_vars

(* The main goroutine, the Serve goroutines and the stream handlers run; time *)
(* passes.  Requests owe nothing, they may hang for ever, but for the gRPC    *)
(* calls that Stop has cancelled: Export gives its context to the insert,     *)
(* which returns when it is cancelled (ingest/http.go:151-153).               *)
FairSpec ==
  /\ Spec
  /\ WF_vars(InitUnit \/ InitFails)
  /\ WF_vars(WaitStep)
  /\ WF_vars(CloseStep)
  /\ WF_vars(Expire)
  /\ \A s \in Servers : WF_vars(ServeEnds(s))
  /\ \A q \in RPCs : WF_vars(Cancelled(q) /\ End(q))
  /\ \A w \in Sockets : WF_vars(HandlerEnds(w))

-----------------------------------------------------------------------------
(* Properties *)

Halted == phase \in {"returned", "exit"}

TypeOK ==
  /\ phase \in {"init", "wait", "close", "drain", "returned", "exit"}
  /\ next \in 1..(Len(Units) + 1)
  /\ closeFns \in Seq(Closable)
  /\ aborted \in BOOLEAN
  /\ stopped \in BOOLEAN
  /\ called \subseteq Stoppers
  /\ closing \in Closable \cup {"none"}
  /\ expired \in BOOLEAN
  /\ resources \subseteq Closable
  /\ server \in [Servers -> {"down", "serving", "draining", "failed", "ended"}]
  /\ serveErr \in Seq({"nil", "error"})
  /\ Len(serveErr) <= 4
  /\ serveCount \in 0..2
  /\ serveTaken \in BOOLEAN
  /\ drained \in 0..serveCount
  /\ waitErr \in {"nil", "error"}
  /\ request \in [Requests -> {"none", "running", "ended"}]
  /\ socket \in [Sockets -> {"none", "open", "hangup", "ended"}]
  /\ closeLog \in Seq(Closable)

\* Units are closed in the reverse of the order in which they came up, each
\* once, none skipped, and none that has not come up.  When the process is about
\* to exit none is left, also after a failed Init, and no live stream is being
\* served: the HTTP server no longer knows a hijacked connection, closing the hub
\* ends it.
Before(u, v) == \E i, j \in DOMAIN Units : i < j /\ Units[i] = u /\ Units[j] = v
CameUp == {Units[i] : i \in 1..(next - 1)} \cap Closable
Closed == {closeLog[i] : i \in DOMAIN closeLog}

ClosedInReverse ==
  /\ Closed \subseteq CameUp
  /\ \A i, j \in DOMAIN closeLog : i < j => Before(closeLog[j], closeLog[i])
  /\ \A i \in DOMAIN closeLog, u \in CameUp :
       Before(closeLog[i], u) => \E j \in 1..(i - 1) : closeLog[j] = u
  /\ Halted => /\ Closed = CameUp /\ resources = {}
               /\ \A w \in Sockets : socket[w] # "open"

\* A gRPC call never runs against a closed store, not even after the shutdown
\* deadline; an HTTP request only when that deadline passed while it ran: http
\* and otlp are drained before the store is closed.
StoreOutlivesRequests ==
  "store" \notin resources =>
    \A q \in Requests : request[q] = "running" => ServerOf(q) = "http" /\ expired

\* Wait reports an error exactly when a server failed, even if that happened at
\* the same time as Stop or after it, and no Serve goroutine outlives Wait.
ServerFailureIsReported ==
  phase = "returned" =>
    /\ \A s \in Servers : server[s] \in {"failed", "ended"}
    /\ waitErr = "error" <=> \E s \in Servers : server[s] = "failed"

\* Once asked to stop, once a server has failed or Init has failed, the process
\* ends, whatever failed first and however many servers had come up: HTTP
\* requests may hang for ever, and so may gRPC calls until they are cancelled.
StopTerminates ==
  (stopped \/ aborted \/ \E s \in Servers : server[s] = "failed") ~> Halted
=============================================================================
