------------------------- MODULE AppLifecycleProofs -------------------------
(***************************************************************************)
(* Theorems about AppLifecycle, for every set of requests, streams and     *)
(* callers of Stop.                                                        *)
(*                                                                         *)
(* The argument: the units that are up are those of the stack of CloseFns  *)
(* and the one that is closing, in their order (UpIsTheStack), so the      *)
(* store is up as long as anything is; and every result of a Serve         *)
(* goroutine is in the channel or was received (EveryResultCounts), so     *)
(* when as many were received as servers were started, no server is left   *)
(* and no error went unseen.  What is no longer on the stack was closed    *)
(* (LogIsTheRest), and an open stream has its hub (SocketsHaveTheHub).     *)
(***************************************************************************)
EXTENDS AppLifecycle, SequenceTheorems, TLAPS

\* The units with a CloseFn, in the order of Units.
StackOrder == <<"store", "stream", "otlp", "http">>

\* The stack of CloseFns, the unit taken off it, and what is up.
UpIsTheStack ==
  /\ closeFns \in Seq(Closable) /\ Len(closeFns) \in 0..4
  /\ \A i \in 1..Len(closeFns) : closeFns[i] = StackOrder[i]
  /\ closing = "none" \/ (Len(closeFns) < 4 /\ closing = StackOrder[Len(closeFns) + 1])
  /\ resources = {closeFns[i] : i \in 1..Len(closeFns)} \cup ({closing} \ {"none"})

\* How far InitApp is, and how many CloseFns there are then.
InitIsInOrder ==
  phase = "init" =>
    /\ next \in 1..8
    /\ closing = "none"
    /\ Len(closeFns) = IF next <= 3 THEN 0 ELSE IF next = 4 THEN 1 ELSE IF next = 5 THEN 2 ELSE 3

StackInv == next \in 1..9 /\ UpIsTheStack /\ InitIsInOrder

\* A request runs on a server that is up; only the HTTP server leaves some
\* behind, once the deadline has passed.
LeftBehind(q) == ServerOf(q) = "http" /\ expired
RunningOnServers ==
  \A q \in Requests : request[q] = "running" => ServerOf(q) \in resources \/ LeftBehind(q)

-----------------------------------------------------------------------------
(* The order of the units *)

LEMMA UnitFacts ==
  /\ Len(Units) = 8
  /\ Units[1] = "config" /\ Units[2] = "logger" /\ Units[3] = "store" /\ Units[4] = "stream"
  /\ Units[5] = "otlp" /\ Units[6] = "query" /\ Units[7] = "logs" /\ Units[8] = "http"
  BY DEF Units

LEMMA OrderFacts ==
  /\ StackOrder[1] = "store" /\ StackOrder[2] = "stream"
  /\ StackOrder[3] = "otlp" /\ StackOrder[4] = "http"
  /\ \A i, j \in 1..4 : StackOrder[i] = StackOrder[j] => i = j
  /\ \A i \in 1..4 : StackOrder[i] \in Closable /\ StackOrder[i] # "none"
  BY DEF StackOrder, Closable

LEMMA TakingTheLast ==
  ASSUME NEW S, NEW f \in Seq(S), f # <<>>
  PROVE  /\ Front(f) \in Seq(S) /\ Len(Front(f)) = Len(f) - 1 /\ Len(f) \in Nat \ {0}
         /\ \A i \in 1..(Len(f) - 1) : Front(f)[i] = f[i]
         /\ Last(f) = f[Len(f)]
<1> DEFINE n == Len(f) - 1
<1>1. n \in Nat /\ Len(f) = n + 1 /\ Len(f) \in Nat \ {0}
  OBVIOUS
<1>2. Front(f) = SubSeq(f, 1, n)
  BY DEF Front
<1>3. \A i \in 1..n : f[i] \in S
  BY <1>1
<1> HIDE DEF n
<1>4. /\ SubSeq(f, 1, n) \in Seq(S)
      /\ Len(SubSeq(f, 1, n)) = IF 1 <= n THEN n - 1 + 1 ELSE 0
      /\ \A i \in 1..(n - 1 + 1) : SubSeq(f, 1, n)[i] = f[1 + i - 1]
  BY <1>1, <1>3, SubSeqProperties
<1>5. n - 1 + 1 = n /\ \A i \in 1..n : 1 + i - 1 = i
  BY <1>1
<1>6. Len(SubSeq(f, 1, n)) = n /\ \A i \in 1..n : SubSeq(f, 1, n)[i] = f[i]
  BY <1>1, <1>4, <1>5
<1>7. Len(f) - 1 = n
  BY <1>1
<1> QED
  BY <1>1, <1>2, <1>4, <1>6, <1>7 DEF Last

LEMMA Pushing ==
  ASSUME NEW S, NEW f \in Seq(S), NEW u \in S
  PROVE  /\ Append(f, u) \in Seq(S) /\ Len(Append(f, u)) = Len(f) + 1 /\ Len(f) \in Nat
         /\ \A i \in 1..Len(f) : Append(f, u)[i] = f[i]
         /\ Append(f, u)[Len(f) + 1] = u
  OBVIOUS

\* Most steps leave the units alone, and InitApp is over after its last.
LEMMA StackFrame ==
  ASSUME StackInv, UNCHANGED <<closeFns, closing, resources, next>>, phase' = phase \/ phase' # "init"
  PROVE  StackInv'
  BY DEF StackInv, UpIsTheStack, InitIsInOrder

LEMMA StackInit ==
  ASSUME StackInv, InitUnit
  PROVE  StackInv'
<1>1. /\ phase = "init" /\ next \in 1..8 /\ closing = "none" /\ closing' = closing
      /\ next' = next + 1
      /\ resources' = resources \cup (Closable \cap {Units[next]})
      /\ closeFns' = IF Units[next] \in Closable THEN Append(closeFns, Units[next]) ELSE closeFns
      /\ phase' = IF next = 8 THEN "wait" ELSE "init"
      /\ Len(closeFns) = IF next <= 3 THEN 0 ELSE IF next = 4 THEN 1 ELSE IF next = 5 THEN 2 ELSE 3
  BY UnitFacts DEF InitUnit, StackInv, InitIsInOrder
<1>2. CASE next \in {1, 2, 6, 7}
  <2>1. Units[next] \notin Closable
    BY <1>2, UnitFacts DEF Closable
  <2>2. closeFns' = closeFns /\ resources' = resources
    BY <1>1, <2>1
  <2> QED
    <3>1. UpIsTheStack'
      BY <1>1, <2>2 DEF StackInv, UpIsTheStack
    <3>2. next' \in 2..8 /\ phase' = "init"
      BY <1>1, <1>2
    <3>3. Len(closeFns') =
            IF next' <= 3 THEN 0 ELSE IF next' = 4 THEN 1 ELSE IF next' = 5 THEN 2 ELSE 3
      <4>1. CASE next \in {1, 2}
        BY <1>1, <2>2, <4>1
      <4>2. CASE next = 6
        <5>1. next' = 7 /\ Len(closeFns) = 3
          BY <1>1, <4>2
        <5> QED
          BY <2>2, <5>1, SMTT(30)
      <4>3. CASE next = 7
        <5>1. next' = 8 /\ Len(closeFns) = 3
          BY <1>1, <4>3
        <5> QED
          BY <2>2, <5>1
      <4> QED
        BY <1>2, <4>1, <4>2, <4>3
    <3> QED
      BY <1>1, <3>1, <3>2, <3>3 DEF StackInv, InitIsInOrder
<1>3. CASE next \in {3, 4, 5, 8}
  <2>1. Units[next] \in Closable /\ Units[next] = StackOrder[Len(closeFns) + 1]
    BY <1>1, <1>3, UnitFacts, OrderFacts DEF Closable
  <2>2. closeFns \in Seq(Closable) /\ Len(closeFns) \in 0..3
    BY <1>1, <1>3 DEF StackInv, UpIsTheStack
  <2>3. closeFns' = Append(closeFns, Units[next])
    BY <1>1, <2>1
  <2>4. /\ closeFns' \in Seq(Closable) /\ Len(closeFns') = Len(closeFns) + 1
        /\ \A i \in 1..Len(closeFns) : closeFns'[i] = closeFns[i]
        /\ closeFns'[Len(closeFns) + 1] = Units[next]
    BY <2>1, <2>2, <2>3, Pushing
  <2>5. \A i \in 1..Len(closeFns') : closeFns'[i] = StackOrder[i]
    BY <2>1, <2>2, <2>4 DEF StackInv, UpIsTheStack
  <2>6. resources' = {closeFns'[i] : i \in 1..Len(closeFns')} \cup ({closing'} \ {"none"})
    <3>1. resources = {closeFns[i] : i \in 1..Len(closeFns)} /\ resources' = resources \cup {Units[next]}
      BY <1>1, <2>1 DEF StackInv, UpIsTheStack
    <3>2. 1..Len(closeFns') = 1..Len(closeFns) \cup {Len(closeFns) + 1}
      BY <2>2, <2>4
    <3> QED
      BY <1>1, <2>4, <3>1, <3>2
  <2>7. UpIsTheStack'
    BY <1>1, <2>2, <2>4, <2>5, <2>6 DEF UpIsTheStack
  <2>8. InitIsInOrder' /\ next' \in 1..9
    BY <1>1, <1>3, <2>4 DEF InitIsInOrder
  <2> QED
    BY <2>7, <2>8 DEF StackInv
<1> QED
  BY <1>1, <1>2, <1>3

LEMMA StackClose ==
  ASSUME StackInv, CloseBegin \/ CloseEnd
  PROVE  StackInv'
<1>1. CASE CloseBegin
  <2>1. /\ closing = "none" /\ closeFns # <<>> /\ phase = "close" /\ phase' = phase
        /\ closing' = Last(closeFns) /\ closeFns' = Front(closeFns)
        /\ resources' = resources /\ next' = next
    BY <1>1 DEF CloseBegin
  <2>2. closeFns \in Seq(Closable) /\ Len(closeFns) \in 0..4
    BY DEF StackInv, UpIsTheStack
  <2>3. /\ closeFns' \in Seq(Closable) /\ Len(closeFns') = Len(closeFns) - 1 /\ Len(closeFns) \in 1..4
        /\ \A i \in 1..Len(closeFns') : closeFns'[i] = closeFns[i]
        /\ closing' = closeFns[Len(closeFns)]
    BY <2>1, <2>2, TakingTheLast
  <2>4. /\ \A i \in 1..Len(closeFns) : closeFns[i] = StackOrder[i]
        /\ closing' = StackOrder[Len(closeFns)] /\ closing' # "none"
    BY <2>3, OrderFacts DEF StackInv, UpIsTheStack
  <2>5. resources' = {closeFns'[i] : i \in 1..Len(closeFns')} \cup ({closing'} \ {"none"})
    <3>1. resources' = {closeFns[i] : i \in 1..Len(closeFns)}
      BY <2>1 DEF StackInv, UpIsTheStack
    <3>2. 1..Len(closeFns) = 1..Len(closeFns') \cup {Len(closeFns)}
      BY <2>3, SMTT(30)
    <3> QED
      BY <2>3, <2>4, <3>1, <3>2, SMTT(30)
  <2>6. Len(closeFns') < 4 /\ Len(closeFns') + 1 = Len(closeFns) /\ Len(closeFns') \in 0..4
    BY <2>3
  <2>7. UpIsTheStack'
    BY <2>3, <2>4, <2>5, <2>6, SMTT(30) DEF UpIsTheStack
  <2> QED
    BY <2>1, <2>7 DEF StackInv, InitIsInOrder
<1>2. CASE CloseEnd
  <2>1. /\ closing # "none" /\ closing' = "none" /\ phase' = phase
        /\ resources' = resources \ {closing} /\ closeFns' = closeFns /\ next' = next
    BY <1>2 DEF CloseEnd
  <2>2. \A i \in 1..Len(closeFns) : closeFns[i] # closing
    BY <2>1, OrderFacts DEF StackInv, UpIsTheStack
  <2>3. resources' = {closeFns[i] : i \in 1..Len(closeFns)}
    BY <2>1, <2>2 DEF StackInv, UpIsTheStack
  <2>4. UpIsTheStack'
    BY <2>1, <2>3 DEF StackInv, UpIsTheStack
  <2> QED
    BY <2>1, <2>4 DEF StackInv, InitIsInOrder
<1> QED
  BY <1>1, <1>2

LEMMA StackStep ==
  ASSUME StackInv, [Next]_vars
  PROVE  StackInv'
<1> DEFINE Same == UNCHANGED <<closeFns, closing, resources, next>> /\ (phase' = phase \/ phase' # "init")
<1>1. CASE Same
  BY <1>1, StackFrame
<1>2. CASE InitUnit \/ CloseBegin \/ CloseEnd
  BY <1>2, StackInit, StackClose
<1>3. CASE InitFails \/ WaitStep \/ CloseDone \/ Expire
  BY <1>1, <1>3 DEF InitFails, WaitStep, WaitTakesResult, WaitIsStopped, DrainOne, DrainDone,
                    CloseDone, Expire, closeVars
<1>4. ASSUME NEW g \in Stoppers, Stop(g) PROVE Same
  BY <1>4 DEF Stop, closeVars
<1>5. ASSUME NEW s \in Servers, ServeFails(s) \/ ServeEnds(s) PROVE Same
  BY <1>5 DEF ServeFails, ServeEnds, ServeResult, closeVars
<1>6. ASSUME NEW q \in Requests, Begin(q) \/ End(q) PROVE Same
  BY <1>6 DEF Begin, End, closeVars
<1>7. ASSUME NEW w \in Sockets, Open(w) \/ HandlerEnds(w) \/ Leave(w) PROVE Same
  BY <1>7 DEF Open, HandlerEnds, Leave, closeVars
<1>8. CASE UNCHANGED vars
  BY <1>1, <1>8 DEF vars, closeVars
<1> QED
  BY <1>1, <1>2, <1>3, <1>4, <1>5, <1>6, <1>7, <1>8 DEF Next, CloseStep

-----------------------------------------------------------------------------
(* Requests *)

LEMMA StoreIsFirst ==
  ASSUME StackInv, resources # {}
  PROVE  "store" \in resources
<1>1. CASE Len(closeFns) >= 1
  BY <1>1, OrderFacts DEF StackInv, UpIsTheStack
<1>2. CASE Len(closeFns) = 0
  <2>1. closing \in resources /\ closing # "none"
    BY <1>2 DEF StackInv, UpIsTheStack
  <2>2. closing = "store"
    BY <1>2, <2>1, OrderFacts DEF StackInv, UpIsTheStack
  <2> QED
    BY <2>1, <2>2
<1> QED
  BY <1>1, <1>2 DEF StackInv, UpIsTheStack

LEMMA RunningStep ==
  ASSUME RunningOnServers, request \in [Requests -> {"none", "running", "ended"}], [Next]_vars
  PROVE  RunningOnServers'
<1> DEFINE Same == UNCHANGED request /\ resources \subseteq resources' /\ (expired => expired')
<1>1. CASE Same
  BY <1>1 DEF RunningOnServers, LeftBehind, ServerOf
<1>2. CASE CloseEnd
  <2>1. /\ MayClose(closing)
        /\ resources' = resources \ {closing} /\ request' = request /\ expired' = expired
    BY <1>2 DEF CloseEnd
  <2>2. \A q \in Requests : request[q] = "running" => ServerOf(q) # closing \/ LeftBehind(q)
    BY <2>1 DEF MayClose, Drained, LeftBehind, ServerOf, Servers
  <2> QED
    BY <2>1, <2>2 DEF RunningOnServers, LeftBehind, ServerOf
<1>3. ASSUME NEW q \in Requests, Begin(q) \/ End(q) PROVE RunningOnServers'
  <2>1. CASE Begin(q)
    <3>1. ServerOf(q) \in resources /\ resources' = resources /\ expired' = expired
      BY <2>1 DEF Begin, Accepting, closeVars
    <3>2. request' = [request EXCEPT ![q] = "running"]
      BY <2>1 DEF Begin
    <3> QED
      BY <3>1, <3>2 DEF RunningOnServers, LeftBehind, ServerOf
  <2>2. CASE End(q)
    <3>1. resources' = resources /\ expired' = expired
      BY <2>2 DEF End, closeVars
    <3>2. request' = [request EXCEPT ![q] = "ended"]
      BY <2>2 DEF End
    <3> QED
      BY <3>1, <3>2 DEF RunningOnServers, LeftBehind, ServerOf
  <2> QED
    BY <1>3, <2>1, <2>2
<1>4. CASE InitUnit
  BY <1>1, <1>4 DEF InitUnit, workVars
<1>5. CASE InitFails \/ WaitStep \/ CloseBegin \/ CloseDone \/ Expire
  BY <1>1, <1>5 DEF InitFails, WaitStep, WaitTakesResult, WaitIsStopped, DrainOne, DrainDone,
                    CloseBegin, CloseDone, Expire, closeVars, workVars
<1>6. ASSUME NEW g \in Stoppers, Stop(g) PROVE Same
  BY <1>6 DEF Stop, closeVars, workVars
<1>7. ASSUME NEW s \in Servers, ServeFails(s) \/ ServeEnds(s) PROVE Same
  BY <1>7 DEF ServeFails, ServeEnds, ServeResult, closeVars, workVars
<1>8. ASSUME NEW w \in Sockets, Open(w) \/ HandlerEnds(w) \/ Leave(w) PROVE Same
  BY <1>8 DEF Open, HandlerEnds, Leave, closeVars
<1>9. CASE UNCHANGED vars
  BY <1>1, <1>9 DEF vars, closeVars, workVars
<1> QED
  BY <1>1, <1>2, <1>3, <1>4, <1>5, <1>6, <1>7, <1>8, <1>9 DEF Next, CloseStep

-----------------------------------------------------------------------------
(* The results of the servers *)

Up(s) == IF server[s] = "down" THEN 0 ELSE 1
Done(s) == IF server[s] \in {"failed", "ended"} THEN 1 ELSE 0
Taken == IF serveTaken THEN 1 ELSE 0
HasError(q) == \E i \in 1..Len(q) : q[i] = "error"

EveryResultCounts ==
  /\ serveCount = Up("otlp") + Up("http")
  /\ Len(serveErr) + drained + Taken = Done("otlp") + Done("http")
  /\ waitErr = "error" \/ HasError(serveErr) <=> \E s \in Servers : server[s] = "failed"

\* What each phase has behind it.
ServersInOrder ==
  /\ aborted => phase \in {"close", "exit"}
  /\ phase = "init" => /\ server["otlp"] = "down" <=> next <= 5
                       /\ server["http"] = "down"
  /\ phase # "init" /\ ~aborted => \A s \in Servers : server[s] # "down"
  /\ phase \in {"init", "wait"} => ~serveTaken /\ waitErr = "nil"
  /\ phase \in {"init", "wait", "close"} => drained = 0
  /\ phase = "returned" => drained = Outstanding

ServeTypes ==
  /\ server \in [Servers -> {"down", "serving", "draining", "failed", "ended"}]
  /\ serveErr \in Seq({"nil", "error"}) /\ Len(serveErr) <= 4
  /\ serveTaken \in BOOLEAN
  /\ drained \in Nat
  /\ waitErr \in {"nil", "error"}
  /\ aborted \in BOOLEAN
  /\ phase \in {"init", "wait", "close", "drain", "returned", "exit"}

ServeInv == ServeTypes /\ EveryResultCounts /\ ServersInOrder

LEMMA AppendError ==
  ASSUME NEW q \in Seq({"nil", "error"}), NEW x \in {"nil", "error"}
  PROVE  /\ Append(q, x) \in Seq({"nil", "error"})
         /\ Len(Append(q, x)) = Len(q) + 1 /\ Len(q) \in Nat
         /\ HasError(Append(q, x)) <=> x = "error" \/ HasError(q)
<1>1. /\ Append(q, x) \in Seq({"nil", "error"})
      /\ Len(Append(q, x)) = Len(q) + 1 /\ Len(q) \in Nat
      /\ \A i \in 1..Len(q) : Append(q, x)[i] = q[i]
      /\ Append(q, x)[Len(q) + 1] = x
  BY Pushing
<1>2. 1..(Len(q) + 1) = 1..Len(q) \cup {Len(q) + 1}
  BY <1>1
<1> QED
  BY <1>1, <1>2 DEF HasError

LEMMA TailError ==
  ASSUME NEW q \in Seq({"nil", "error"}), q # <<>>
  PROVE  /\ Tail(q) \in Seq({"nil", "error"})
         /\ Len(Tail(q)) = Len(q) - 1 /\ Len(q) \in Nat \ {0}
         /\ Head(q) \in {"nil", "error"}
         /\ HasError(q) <=> Head(q) = "error" \/ HasError(Tail(q))
<1>1. /\ Tail(q) \in Seq({"nil", "error"})
      /\ Len(Tail(q)) = Len(q) - 1 /\ Len(q) \in Nat \ {0}
      /\ \A i \in 1..(Len(q) - 1) : Tail(q)[i] = q[i + 1]
      /\ Head(q) = q[1] /\ Head(q) \in {"nil", "error"}
  OBVIOUS
<1>2. ASSUME HasError(q) PROVE Head(q) = "error" \/ HasError(Tail(q))
  <2>1. PICK i \in 1..Len(q) : q[i] = "error"
    BY <1>2 DEF HasError
  <2>2. CASE i = 1
    BY <1>1, <2>1, <2>2
  <2>3. CASE i # 1
    <3>1. i - 1 \in 1..(Len(q) - 1) /\ (i - 1) + 1 = i
      BY <1>1, <2>3
    <3>2. Tail(q)[i - 1] = "error"
      BY <1>1, <2>1, <3>1
    <3> QED
      BY <1>1, <3>1, <3>2 DEF HasError
  <2> QED
    BY <2>2, <2>3
<1>3. ASSUME Head(q) = "error" PROVE HasError(q)
  BY <1>1, <1>3 DEF HasError
<1>4. ASSUME HasError(Tail(q)) PROVE HasError(q)
  <2>1. PICK i \in 1..(Len(q) - 1) : Tail(q)[i] = "error"
    BY <1>1, <1>4 DEF HasError
  <2>2. i + 1 \in 1..Len(q) /\ q[i + 1] = "error"
    BY <1>1, <2>1
  <2> QED
    BY <2>2 DEF HasError
<1> QED
  BY <1>1, <1>2, <1>3, <1>4

LEMMA ServeInitUnit ==
  ASSUME ServeInv, StackInv, InitUnit
  PROVE  ServeInv'
<1>1. /\ phase = "init" /\ next \in 1..8 /\ next' = next + 1 /\ StartServe(Units[next])
      /\ phase' = IF next = 8 THEN "wait" ELSE "init"
      /\ UNCHANGED <<aborted, serveErr, serveTaken, drained, waitErr>>
  BY UnitFacts DEF InitUnit, StackInv, InitIsInOrder, waitVars
<1>2. /\ ~aborted
      /\ server["otlp"] = "down" <=> next <= 5
      /\ server["http"] = "down" /\ ~serveTaken /\ waitErr = "nil" /\ drained = 0
  BY <1>1 DEF ServeInv, ServersInOrder
<1>3. /\ server \in [Servers -> {"down", "serving", "draining", "failed", "ended"}]
      /\ serveCount = Up("otlp") + Up("http")
  BY DEF ServeInv, ServeTypes, EveryResultCounts
<1>4. CASE next = 5
  <2>1. server' = [server EXCEPT !["otlp"] = "serving"] /\ serveCount' = serveCount + 1
    BY <1>1, <1>4, UnitFacts DEF StartServe, Servers
  <2>2. server["otlp"] = "down"
    BY <1>2, <1>4
  <2>3. server'["otlp"] = "serving" /\ server'["http"] = server["http"]
    BY <1>3, <2>1 DEF Servers
  <2>4. ServeTypes'
    BY <1>1, <2>1 DEF ServeInv, ServeTypes, Servers
  <2>5. EveryResultCounts'
    BY <1>1, <1>2, <1>3, <2>1, <2>2, <2>3
       DEF ServeInv, EveryResultCounts, Up, Done, Taken, HasError, Servers
  <2>6. ServersInOrder'
    BY <1>1, <1>2, <1>4, <2>3 DEF ServeInv, ServersInOrder
  <2> QED
    BY <2>4, <2>5, <2>6 DEF ServeInv
<1>5. CASE next = 8
  <2>1. server' = [server EXCEPT !["http"] = "serving"] /\ serveCount' = serveCount + 1
    BY <1>1, <1>5, UnitFacts DEF StartServe, Servers
  <2>2. server["otlp"] # "down" /\ phase' = "wait"
    BY <1>1, <1>2, <1>5
  <2>3. server'["http"] = "serving" /\ server'["otlp"] = server["otlp"]
    BY <1>3, <2>1 DEF Servers
  <2>4. ServeTypes'
    BY <1>1, <2>1 DEF ServeInv, ServeTypes, Servers
  <2>5. EveryResultCounts'
    <3>1. /\ Up("http") = 0 /\ Up("http")' = 1 /\ Up("otlp") = 1 /\ Up("otlp")' = 1
          /\ Done("http")' = Done("http") /\ Done("otlp")' = Done("otlp") /\ Taken' = Taken
      BY <1>1, <1>2, <2>2, <2>3 DEF Up, Done, Taken
    <3>2. (\E s \in Servers : server'[s] = "failed") <=> \E s \in Servers : server[s] = "failed"
      BY <1>2, <2>3 DEF Servers
    <3> QED
      BY <1>1, <1>3, <2>1, <3>1, <3>2 DEF ServeInv, EveryResultCounts, HasError
  <2>6. ServersInOrder'
    BY <1>1, <1>2, <2>2, <2>3 DEF ServeInv, ServersInOrder, Servers
  <2> QED
    BY <2>4, <2>5, <2>6 DEF ServeInv
<1>6. CASE next \notin {5, 8}
  <2>1. Units[next] \notin Servers
    BY <1>1, <1>6, UnitFacts DEF Servers
  <2>2. UNCHANGED <<server, serveCount>> /\ phase' = phase
    BY <1>1, <1>6, <2>1 DEF StartServe
  <2>3. next <= 5 <=> next' <= 5
    BY <1>1, <1>6
  <2>4. ServeTypes' /\ EveryResultCounts'
    BY <1>1, <2>2 DEF ServeInv, ServeTypes, EveryResultCounts, Up, Done, Taken, HasError
  <2>5. ServersInOrder'
    BY <1>1, <1>2, <2>2, <2>3 DEF ServeInv, ServersInOrder
  <2> QED
    BY <2>4, <2>5 DEF ServeInv
<1> QED
  BY <1>4, <1>5, <1>6

LEMMA ServeResults ==
  ASSUME ServeInv, NEW s \in Servers, ServeFails(s) \/ ServeEnds(s)
  PROVE  ServeInv'
<1> DEFINE other == IF s = "otlp" THEN "http" ELSE "otlp"
<1>1. PICK r \in {"nil", "error"} :
        /\ server' = [server EXCEPT ![s] = IF r = "error" THEN "failed" ELSE "ended"]
        /\ server[s] \in {"serving", "draining"}
        /\ ServeResult(s, r)
  BY DEF ServeFails, ServeEnds
<1>2. /\ Len(serveErr) < 4 /\ serveErr' = Append(serveErr, r)
      /\ UNCHANGED <<phase, next, aborted, serveTaken, drained, waitErr, serveCount>>
  BY <1>1 DEF ServeResult, waitVars
<1>3. /\ server \in [Servers -> {"down", "serving", "draining", "failed", "ended"}]
      /\ serveErr \in Seq({"nil", "error"}) /\ drained \in Nat
  BY DEF ServeInv, ServeTypes
<1>4. /\ Len(serveErr') = Len(serveErr) + 1 /\ Len(serveErr) \in Nat
      /\ serveErr' \in Seq({"nil", "error"})
      /\ HasError(serveErr') <=> r = "error" \/ HasError(serveErr)
  BY <1>2, <1>3, AppendError
<1>5. /\ other \in Servers /\ other # s /\ server'[other] = server[other]
      /\ Servers = {s, other}
      /\ server'[s] = IF r = "error" THEN "failed" ELSE "ended"
  BY <1>1, <1>3 DEF Servers
<1> HIDE DEF other
<1>6. ServeTypes'
  BY <1>1, <1>2, <1>3, <1>4 DEF ServeInv, ServeTypes
<1>7. /\ Up("otlp") + Up("http") = Up(s) + Up(other)
      /\ Done("otlp") + Done("http") = Done(s) + Done(other)
      /\ (Up("otlp") + Up("http"))' = Up(s)' + Up(other)'
      /\ (Done("otlp") + Done("http"))' = Done(s)' + Done(other)'
  BY <1>5 DEF Servers, Up, Done
<1>8. /\ Up(s)' = Up(s) /\ Up(other)' = Up(other)
      /\ Done(s)' = 1 /\ Done(s) = 0 /\ Done(other)' = Done(other) /\ Done(other) \in Nat
  BY <1>1, <1>5 DEF Up, Done
<1>9. (\E q \in Servers : server'[q] = "failed") <=> r = "error" \/ \E q \in Servers : server[q] = "failed"
  BY <1>1, <1>5
<1>10. EveryResultCounts'
  <2>1. serveCount' = Up("otlp")' + Up("http")'
    BY <1>2, <1>7, <1>8 DEF ServeInv, EveryResultCounts
  <2>2. Len(serveErr') + drained' + Taken' = Done("otlp")' + Done("http")'
    <3>1. Len(serveErr) + drained + Taken = Done(s) + Done(other)
      BY <1>7 DEF ServeInv, EveryResultCounts
    <3>2. Taken' = Taken /\ Taken \in Nat
      BY <1>2 DEF Taken
    <3> QED
      BY <1>2, <1>3, <1>4, <1>7, <1>8, <3>1, <3>2
  <2>3. waitErr' = "error" \/ HasError(serveErr') <=> \E q \in Servers : server'[q] = "failed"
    BY <1>2, <1>4, <1>9 DEF ServeInv, EveryResultCounts
  <2> QED
    BY <2>1, <2>2, <2>3 DEF EveryResultCounts, HasError
<1>11. ServersInOrder'
  BY <1>1, <1>2, <1>5 DEF ServeInv, ServersInOrder, Outstanding, Servers
<1> QED
  BY <1>6, <1>10, <1>11 DEF ServeInv

LEMMA ServeTaken ==
  ASSUME ServeInv, WaitTakesResult \/ DrainOne
  PROVE  ServeInv'
<1>1. /\ serveErr # <<>> /\ serveErr' = Tail(serveErr)
      /\ UNCHANGED <<next, aborted, server, serveCount>>
  BY DEF WaitTakesResult, DrainOne
<1>2. /\ serveErr \in Seq({"nil", "error"}) /\ Len(serveErr) <= 4 /\ drained \in Nat
      /\ waitErr \in {"nil", "error"}
  BY DEF ServeInv, ServeTypes
<1>3. /\ Len(serveErr') = Len(serveErr) - 1 /\ Len(serveErr) \in Nat \ {0}
      /\ serveErr' \in Seq({"nil", "error"}) /\ Head(serveErr) \in {"nil", "error"}
      /\ HasError(serveErr) <=> Head(serveErr) = "error" \/ HasError(serveErr')
  BY <1>1, <1>2, TailError
<1>4. /\ waitErr' \in {"nil", "error"}
      /\ waitErr' = "error" <=> waitErr = "error" \/ Head(serveErr) = "error"
  BY <1>2, <1>3 DEF WaitTakesResult, DrainOne, ServeInv, ServersInOrder
<1>5. drained' \in Nat /\ drained' + Taken' = drained + Taken + 1
  <2>1. CASE WaitTakesResult
    BY <1>2, <2>1 DEF WaitTakesResult, ServeInv, ServersInOrder, Taken
  <2>2. CASE DrainOne
    BY <1>2, <2>2 DEF DrainOne, Taken
  <2> QED
    BY <2>1, <2>2
<1>6. ServeTypes'
  <2>1. phase' \in {"close", phase} /\ serveTaken' \in {TRUE, serveTaken}
    BY DEF WaitTakesResult, DrainOne
  <2>2. Len(serveErr') <= 4
    BY <1>2, <1>3
  <2> QED
    BY <1>1, <1>3, <1>4, <1>5, <2>1, <2>2 DEF ServeInv, ServeTypes
<1>7. EveryResultCounts'
  <2>1. serveCount' = Up("otlp")' + Up("http")'
    BY <1>1 DEF ServeInv, EveryResultCounts, Up
  <2>2. Len(serveErr') + drained' + Taken' = Done("otlp")' + Done("http")'
    <3>1. Len(serveErr) + drained + Taken = Done("otlp") + Done("http")
      BY DEF ServeInv, EveryResultCounts
    <3>2. Done("otlp")' = Done("otlp") /\ Done("http")' = Done("http")
      BY <1>1 DEF Done
    <3>3. Taken \in Nat /\ Taken' \in Nat /\ Done("otlp") \in Nat /\ Done("http") \in Nat
      BY DEF Taken, Done
    <3>4. Len(serveErr') \in Nat /\ Len(serveErr') + 1 = Len(serveErr) /\ Len(serveErr) \in Nat
      BY <1>3
    <3>5. drained \in Nat /\ drained' \in Nat /\ drained' + Taken' = drained + Taken + 1
      BY <1>2, <1>5
    <3> DEFINE l == Len(serveErr)  k == Len(serveErr')  d == drained  e == drained'
               t == Taken  u == Taken'  o == Done("otlp")  h == Done("http")
    <3>6. k \in Nat /\ l \in Nat /\ d \in Nat /\ e \in Nat /\ t \in Nat /\ u \in Nat /\ o \in Nat /\ h \in Nat
      BY <3>3, <3>4, <3>5
    <3>7. k + 1 = l /\ e + u = d + t + 1 /\ l + d + t = o + h
      BY <3>1, <3>4, <3>5
    <3> HIDE DEF l, k, d, e, t, u, o, h
    <3>8. k + e + u = o + h
      BY ONLY <3>6, <3>7
    <3> QED
      BY <3>2, <3>8 DEF k, e, u, o, h
  <2>3. waitErr' = "error" \/ HasError(serveErr') <=> \E q \in Servers : server'[q] = "failed"
    BY <1>1, <1>3, <1>4 DEF ServeInv, EveryResultCounts
  <2> QED
    BY <2>1, <2>2, <2>3 DEF EveryResultCounts, HasError
<1>8. ServersInOrder'
  <2>1. CASE WaitTakesResult
    BY <1>1, <2>1 DEF WaitTakesResult, ServeInv, ServersInOrder
  <2>2. CASE DrainOne
    BY <1>1, <2>2 DEF DrainOne, ServeInv, ServersInOrder
  <2> QED
    BY <2>1, <2>2
<1> QED
  BY <1>6, <1>7, <1>8 DEF ServeInv

\* Steps that neither serve nor receive: the phase goes on.
LEMMA ServePhase ==
  ASSUME ServeInv, InitFails \/ WaitIsStopped \/ CloseDone \/ DrainDone \/ CloseBegin \/ CloseEnd \/ Expire
  PROVE  ServeInv'
<1>1. UNCHANGED <<next, serveErr, serveCount, serveTaken, drained, waitErr>>
  BY DEF InitFails, WaitIsStopped, CloseDone, DrainDone, CloseBegin, CloseEnd, Expire, waitVars,
         serveVars
<1>2. /\ server \in [Servers -> {"down", "serving", "draining", "failed", "ended"}]
      /\ server' \in [Servers -> {"down", "serving", "draining", "failed", "ended"}]
      /\ \A s \in Servers : \/ server'[s] = server[s]
                            \/ server[s] = "serving" /\ server'[s] = "draining"
  <2>1. server \in [Servers -> {"down", "serving", "draining", "failed", "ended"}]
    BY DEF ServeInv, ServeTypes
  <2>2. CASE server' = server
    BY <2>1, <2>2
  <2>3. CASE CloseBegin
    <3>1. server' = [s \in Servers |->
             IF s = Last(closeFns) /\ server[s] = "serving" THEN "draining" ELSE server[s]]
      BY <2>3 DEF CloseBegin
    <3> QED
      BY <2>1, <3>1
  <2> QED
    BY <2>1, <2>2, <2>3 DEF InitFails, WaitIsStopped, CloseDone, DrainDone, CloseEnd, Expire, serveVars
<1>3. \A s \in Servers : /\ Up(s)' = Up(s) /\ Done(s)' = Done(s)
                         /\ server'[s] = "failed" <=> server[s] = "failed"
                         /\ server'[s] = "down" <=> server[s] = "down"
  BY <1>2 DEF Up, Done
<1>4. "otlp" \in Servers /\ "http" \in Servers
  BY DEF Servers
<1>5. EveryResultCounts'
  BY <1>1, <1>3, <1>4 DEF ServeInv, EveryResultCounts, HasError, Taken
<1>6. ServeTypes'
  <2>1. /\ phase' \in {"init", "wait", "close", "drain", "returned", "exit"}
        /\ aborted' \in BOOLEAN
    BY DEF InitFails, WaitIsStopped, CloseDone, DrainDone, CloseBegin, CloseEnd, Expire, ServeInv,
           ServeTypes
  <2> QED
    BY <1>1, <1>2, <2>1 DEF ServeInv, ServeTypes
<1>7. ServersInOrder'
  <2>1. CASE InitFails
    BY <1>1, <1>3, <1>4, <2>1 DEF InitFails, ServeInv, ServersInOrder
  <2>2. CASE WaitIsStopped
    BY <1>1, <1>3, <1>4, <2>2 DEF WaitIsStopped, ServeInv, ServersInOrder
  <2>3. CASE CloseDone
    BY <1>1, <1>3, <1>4, <2>3 DEF CloseDone, ServeInv, ServersInOrder
  <2>4. CASE DrainDone
    BY <1>1, <1>3, <1>4, <2>4 DEF DrainDone, ServeInv, ServersInOrder, Outstanding
  <2>5. CASE CloseBegin \/ CloseEnd \/ Expire
    <3>1. phase' = phase /\ aborted' = aborted
      BY <2>5 DEF CloseBegin, CloseEnd, Expire
    <3> QED
      BY <1>1, <1>3, <1>4, <3>1 DEF ServeInv, ServersInOrder, Outstanding
  <2> QED
    BY <2>1, <2>2, <2>3, <2>4, <2>5
<1> QED
  BY <1>5, <1>6, <1>7 DEF ServeInv

LEMMA ServeStep ==
  ASSUME ServeInv, StackInv, [Next]_vars
  PROVE  ServeInv'
<1> DEFINE Same == UNCHANGED <<phase, next, aborted, server, serveErr, serveCount, serveTaken, drained, waitErr>>
<1>1. CASE Same
  BY <1>1 DEF ServeInv, ServeTypes, EveryResultCounts, ServersInOrder, Up, Done, Taken, HasError,
              Outstanding
<1>2. CASE InitUnit
  BY <1>2, ServeInitUnit
<1>3. CASE WaitTakesResult \/ DrainOne
  BY <1>3, ServeTaken
<1>4. CASE InitFails \/ WaitIsStopped \/ CloseDone \/ DrainDone \/ CloseBegin \/ CloseEnd \/ Expire
  BY <1>4, ServePhase
<1>5. ASSUME NEW s \in Servers, ServeFails(s) \/ ServeEnds(s) PROVE ServeInv'
  BY <1>5, ServeResults
<1>6. ASSUME NEW g \in Stoppers, Stop(g) PROVE Same
  BY <1>6 DEF Stop, waitVars, serveVars
<1>7. ASSUME NEW q \in Requests, Begin(q) \/ End(q) PROVE Same
  BY <1>7 DEF Begin, End, waitVars, serveVars
<1>8. ASSUME NEW w \in Sockets, Open(w) \/ HandlerEnds(w) \/ Leave(w) PROVE Same
  BY <1>8 DEF Open, HandlerEnds, Leave, waitVars, serveVars
<1>9. CASE UNCHANGED vars
  BY <1>1, <1>9 DEF vars, waitVars, serveVars
<1> QED
  BY <1>1, <1>2, <1>3, <1>4, <1>5, <1>6, <1>7, <1>8, <1>9 DEF Next, CloseStep, WaitStep

-----------------------------------------------------------------------------
(* The remaining variables *)

RestTypes ==
  /\ stopped \in BOOLEAN
  /\ called \subseteq Stoppers
  /\ expired \in BOOLEAN
  /\ request \in [Requests -> {"none", "running", "ended"}]
  /\ socket \in [Sockets -> {"none", "open", "hangup", "ended"}]
  /\ closeLog \in Seq(Closable)
  /\ drained <= serveCount

LEMMA RestStep ==
  ASSUME RestTypes, ServeInv, StackInv, [Next]_vars
  PROVE  RestTypes'
<1> USE DEF RestTypes
<1>1. CASE InitUnit
  <2>1. serveCount' \in {serveCount, serveCount + 1} /\ serveCount \in Nat /\ drained \in Nat
    BY <1>1 DEF InitUnit, StartServe, ServeInv, ServeTypes, EveryResultCounts, Up
  <2>2. drained' = drained
    BY <1>1 DEF InitUnit, waitVars
  <2>3. drained' <= serveCount'
    BY <2>1, <2>2
  <2> QED
    BY <1>1, <2>3 DEF InitUnit, stopVars, workVars
<1>2. CASE DrainOne
  <2>1. drained + 1 <= serveCount
    BY <1>2 DEF DrainOne, Outstanding, ServeInv, ServeTypes, EveryResultCounts, Up
  <2> QED
    BY <1>2, <2>1 DEF DrainOne, stopVars, workVars, closeVars
<1>3. CASE CloseEnd
  <2>1. closing \in Closable
    BY <1>3, OrderFacts DEF CloseEnd, StackInv, UpIsTheStack
  <2>2. closeLog' \in Seq(Closable)
    BY <1>3, <2>1 DEF CloseEnd
  <2>3. socket' \in [Sockets -> {"none", "open", "hangup", "ended"}]
    BY <1>3 DEF CloseEnd, Hangup
  <2> QED
    BY <1>3, <2>2, <2>3 DEF CloseEnd, stopVars, waitVars, serveVars
<1>4. CASE InitFails \/ WaitTakesResult \/ WaitIsStopped \/ CloseDone \/ DrainDone \/ CloseBegin \/ Expire
  BY <1>4 DEF InitFails, WaitTakesResult, WaitIsStopped, CloseDone, DrainDone, CloseBegin, Expire,
              stopVars, workVars, waitVars, serveVars, closeVars
<1>5. ASSUME NEW s \in Servers, ServeFails(s) \/ ServeEnds(s) PROVE RestTypes'
  BY <1>5 DEF ServeFails, ServeEnds, ServeResult, stopVars, workVars, waitVars, closeVars
<1>6. ASSUME NEW g \in Stoppers, Stop(g) PROVE RestTypes'
  BY <1>6 DEF Stop, workVars, waitVars, serveVars, closeVars
<1>7. ASSUME NEW q \in Requests, Begin(q) \/ End(q) PROVE RestTypes'
  BY <1>7 DEF Begin, End, stopVars, waitVars, serveVars, closeVars
<1>8. ASSUME NEW w \in Sockets, Open(w) \/ HandlerEnds(w) \/ Leave(w) PROVE RestTypes'
  BY <1>8 DEF Open, HandlerEnds, Leave, stopVars, waitVars, serveVars, closeVars
<1>9. CASE UNCHANGED vars
  BY <1>9 DEF vars, stopVars, workVars, waitVars, serveVars, closeVars
<1> QED
  BY <1>1, <1>2, <1>3, <1>4, <1>5, <1>6, <1>7, <1>8, <1>9 DEF Next, CloseStep, WaitStep

-----------------------------------------------------------------------------
(* The units that were closed *)

\* How many units with a CloseFn precede the n-th unit.
Came(n) == IF n <= 3 THEN 0 ELSE IF n = 4 THEN 1 ELSE IF n = 5 THEN 2 ELSE IF n <= 8 THEN 3 ELSE 4

Busy == IF closing = "none" THEN 0 ELSE 1

\* What has come up is on the stack, closing, or was closed, in that order.
LogIsTheRest ==
  /\ closeLog \in Seq(Closable)
  /\ Len(closeLog) + Len(closeFns) + Busy = Came(next)
  /\ \A i \in 1..Len(closeLog) : closeLog[i] = StackOrder[Came(next) + 1 - i]
  /\ phase = "init" => closeLog = <<>>
  /\ phase \in {"drain", "returned", "exit"} => closeFns = <<>> /\ closing = "none"

\* An open stream has its hub.
SocketsHaveTheHub == \A w \in Sockets : socket[w] = "open" => "stream" \in resources

LEMMA CameFacts ==
  ASSUME NEW n \in 1..9
  PROVE  Came(n) \in 0..4
  BY DEF Came

LEMMA LogInit ==
  ASSUME StackInv, LogIsTheRest, InitUnit
  PROVE  LogIsTheRest'
<1>1. /\ phase = "init" /\ closing' = closing /\ next' = next + 1 /\ next \in 1..8
      /\ closeLog' = closeLog /\ phase' \in {"init", "wait"}
      /\ closeFns' = IF Units[next] \in Closable THEN Append(closeFns, Units[next]) ELSE closeFns
  BY UnitFacts DEF InitUnit, StackInv, InitIsInOrder
<1>2. closeLog = <<>> /\ Len(closeLog) = 0
  BY <1>1 DEF LogIsTheRest
<1>3. Units[next] \in Closable <=> next \in {3, 4, 5, 8}
  BY <1>1, UnitFacts DEF Closable
<1>4. Came(next + 1) = Came(next) + (IF next \in {3, 4, 5, 8} THEN 1 ELSE 0)
  BY <1>1, SMTT(30) DEF Came
<1>5. Len(closeFns') = Len(closeFns) + (IF next \in {3, 4, 5, 8} THEN 1 ELSE 0) /\ Len(closeFns) \in Nat
  BY <1>1, <1>3, Pushing DEF StackInv, UpIsTheStack
<1>6. Busy' = Busy /\ Busy \in {0, 1} /\ Came(next) \in Nat
  BY <1>1, CameFacts DEF Busy
<1>7. Len(closeLog') + Len(closeFns') + Busy' = Came(next')
  <2>1. Len(closeLog) + Len(closeFns) + Busy = Came(next)
    BY DEF LogIsTheRest
  <2> QED
    BY <1>1, <1>2, <1>4, <1>5, <1>6, <2>1
<1>8. closeLog' \in Seq(Closable) /\ 1..Len(closeLog') = {}
  BY <1>1, <1>2 DEF LogIsTheRest
<1>9. phase' \notin {"drain", "returned", "exit"} /\ closeLog' = <<>>
  BY <1>1, <1>2
<1> QED
  BY <1>7, <1>8, <1>9 DEF LogIsTheRest

LEMMA LogCloseBegin ==
  ASSUME StackInv, LogIsTheRest, CloseBegin
  PROVE  LogIsTheRest'
<1>1. /\ phase = "close" /\ closing = "none" /\ closeFns # <<>> /\ closing' = Last(closeFns)
      /\ closeFns' = Front(closeFns) /\ UNCHANGED <<next, phase, closeLog>>
  BY DEF CloseBegin
<1>2. /\ Len(closeFns') = Len(closeFns) - 1 /\ Len(closeFns) \in 1..4
      /\ closing' = closeFns[Len(closeFns)]
  BY <1>1, TakingTheLast DEF StackInv, UpIsTheStack
<1>3. closing' # "none"
  BY <1>2, OrderFacts DEF StackInv, UpIsTheStack
<1>4. Busy = 0 /\ Busy' = 1
  BY <1>1, <1>3 DEF Busy
<1>5. Len(closeLog') + Len(closeFns') + Busy' = Came(next')
  <2>1. Len(closeLog) + Len(closeFns) + Busy = Came(next) /\ Len(closeLog) \in Nat
    BY DEF LogIsTheRest
  <2> QED
    BY <1>1, <1>2, <1>4, <2>1
<1> QED
  BY <1>1, <1>5 DEF LogIsTheRest, Busy

LEMMA LogCloseEnd ==
  ASSUME StackInv, LogIsTheRest, CloseEnd
  PROVE  LogIsTheRest'
<1>1. /\ closing # "none" /\ closing' = "none" /\ closeLog' = Append(closeLog, closing)
      /\ UNCHANGED <<phase, next, closeFns>>
  BY DEF CloseEnd
<1>2. phase \notin {"init", "drain", "returned", "exit"}
  BY <1>1 DEF LogIsTheRest, StackInv, InitIsInOrder
<1>3. /\ closing = StackOrder[Len(closeFns) + 1] /\ closing \in Closable /\ Len(closeFns) \in 0..3
  <2>1. closing = StackOrder[Len(closeFns) + 1] /\ Len(closeFns) < 4 /\ Len(closeFns) \in 0..4
    BY <1>1 DEF StackInv, UpIsTheStack
  <2>2. Len(closeFns) \in 0..3 /\ Len(closeFns) + 1 \in 1..4
    BY <2>1
  <2> QED
    BY <2>1, <2>2, OrderFacts
<1>4. /\ closeLog' \in Seq(Closable) /\ Len(closeLog') = Len(closeLog) + 1 /\ Len(closeLog) \in Nat
      /\ \A i \in 1..Len(closeLog) : closeLog'[i] = closeLog[i]
      /\ closeLog'[Len(closeLog) + 1] = closing
  BY <1>1, <1>3, Pushing DEF LogIsTheRest
<1>5. Len(closeLog) + Len(closeFns) + 1 = Came(next) /\ Busy' = 0
  BY <1>1 DEF LogIsTheRest, Busy
<1>6. Came(next) + 1 - (Len(closeLog) + 1) = Len(closeFns) + 1
  BY <1>3, <1>4, <1>5
<1>7. \A i \in 1..Len(closeLog') : closeLog'[i] = StackOrder[Came(next') + 1 - i]
  <2> TAKE i \in 1..Len(closeLog')
  <2>1. CASE i \in 1..Len(closeLog)
    BY <1>1, <1>4, <2>1 DEF LogIsTheRest
  <2>2. CASE i = Len(closeLog) + 1
    BY <1>1, <1>3, <1>4, <1>6, <2>2
  <2> QED
    BY <1>4, <2>1, <2>2
<1>8. Len(closeLog') + Len(closeFns') + Busy' = Came(next')
  BY <1>1, <1>3, <1>4, <1>5
<1> QED
  BY <1>1, <1>2, <1>4, <1>7, <1>8 DEF LogIsTheRest

LEMMA LogFrame ==
  ASSUME LogIsTheRest, UNCHANGED <<closeFns, closing, closeLog, next>>,
         \/ phase' = phase
         \/ phase' = "close"
         \/ phase' \in {"drain", "exit"} /\ closeFns = <<>> /\ closing = "none"
         \/ phase = "drain" /\ phase' = "returned"
  PROVE  LogIsTheRest'
  BY DEF LogIsTheRest, Busy

LEMMA LogStep ==
  ASSUME StackInv, LogIsTheRest, [Next]_vars
  PROVE  LogIsTheRest'
<1>1. CASE InitUnit \/ CloseBegin \/ CloseEnd
  BY <1>1, LogInit, LogCloseBegin, LogCloseEnd
<1>2. CASE InitFails \/ Expire \/ WaitTakesResult \/ WaitIsStopped
  BY <1>2, LogFrame DEF InitFails, Expire, WaitTakesResult, WaitIsStopped, closeVars
<1>3. CASE DrainOne \/ DrainDone
  BY <1>3, LogFrame DEF DrainOne, DrainDone, closeVars
<1>4. CASE CloseDone
  BY <1>4, LogFrame DEF CloseDone, closeVars
<1>5. ASSUME NEW g \in Stoppers, Stop(g) PROVE LogIsTheRest'
  BY <1>5, LogFrame DEF Stop, closeVars
<1>6. ASSUME NEW s \in Servers, ServeFails(s) \/ ServeEnds(s) PROVE LogIsTheRest'
  BY <1>6, LogFrame DEF ServeFails, ServeEnds, ServeResult, closeVars
<1>7. ASSUME NEW q \in Requests, Begin(q) \/ End(q) PROVE LogIsTheRest'
  BY <1>7, LogFrame DEF Begin, End, closeVars
<1>8. ASSUME NEW w \in Sockets, Open(w) \/ HandlerEnds(w) \/ Leave(w) PROVE LogIsTheRest'
  BY <1>8, LogFrame DEF Open, HandlerEnds, Leave, closeVars
<1>9. CASE UNCHANGED vars
  BY <1>9, LogFrame DEF vars, closeVars
<1> QED
  BY <1>1, <1>2, <1>3, <1>4, <1>5, <1>6, <1>7, <1>8, <1>9 DEF Next, CloseStep, WaitStep

LEMMA HubIsBeforeHTTP ==
  ASSUME StackInv, "http" \in resources
  PROVE  "stream" \in resources
<1>1. CASE Len(closeFns) >= 2
  BY <1>1, OrderFacts DEF StackInv, UpIsTheStack
<1>2. CASE Len(closeFns) < 2
  <2>1. \A i \in 1..Len(closeFns) : closeFns[i] # "http"
    BY <1>2, OrderFacts DEF StackInv, UpIsTheStack
  <2>2. closing # "http"
    BY <1>2, OrderFacts DEF StackInv, UpIsTheStack
  <2> QED
    BY <2>1, <2>2 DEF StackInv, UpIsTheStack
<1> QED
  BY <1>1, <1>2 DEF StackInv, UpIsTheStack

LEMMA SocketStep ==
  ASSUME StackInv, SocketsHaveTheHub, socket \in [Sockets -> {"none", "open", "hangup", "ended"}], [Next]_vars
  PROVE  SocketsHaveTheHub'
<1> DEFINE Same == UNCHANGED socket /\ resources \subseteq resources'
<1>1. CASE Same
  BY <1>1 DEF SocketsHaveTheHub
<1>2. CASE CloseEnd
  <2>1. resources' = resources \ {closing}
    BY <1>2 DEF CloseEnd
  <2>2. CASE closing = "stream"
    BY <1>2, <2>2 DEF CloseEnd, Hangup, SocketsHaveTheHub
  <2>3. CASE closing # "stream"
    BY <1>2, <2>1, <2>3 DEF CloseEnd, Hangup, SocketsHaveTheHub
  <2> QED
    BY <2>2, <2>3
<1>3. ASSUME NEW w \in Sockets, Open(w) PROVE SocketsHaveTheHub'
  <2>1. "stream" \in resources /\ resources' = resources
    BY <1>3, HubIsBeforeHTTP DEF Open, Accepting, closeVars
  <2> QED
    BY <2>1 DEF SocketsHaveTheHub
<1>4. ASSUME NEW w \in Sockets, HandlerEnds(w) \/ Leave(w) PROVE SocketsHaveTheHub'
  <2>1. socket' = [socket EXCEPT ![w] = "ended"] /\ resources' = resources
    BY <1>4 DEF HandlerEnds, Leave, closeVars
  <2> QED
    BY <2>1 DEF SocketsHaveTheHub
<1>5. CASE InitUnit \/ InitFails \/ WaitStep \/ CloseBegin \/ CloseDone \/ Expire
  BY <1>1, <1>5 DEF InitUnit, InitFails, WaitStep, WaitTakesResult, WaitIsStopped, DrainOne, DrainDone,
                    CloseBegin, CloseDone, Expire, closeVars, workVars
<1>6. ASSUME NEW g \in Stoppers, Stop(g) PROVE Same
  BY <1>6 DEF Stop, closeVars, workVars
<1>7. ASSUME NEW s \in Servers, ServeFails(s) \/ ServeEnds(s) PROVE Same
  BY <1>7 DEF ServeFails, ServeEnds, ServeResult, closeVars, workVars
<1>8. ASSUME NEW q \in Requests, Begin(q) \/ End(q) PROVE Same
  BY <1>8 DEF Begin, End, closeVars
<1>9. CASE UNCHANGED vars
  BY <1>1, <1>9 DEF vars, closeVars, workVars
<1> QED
  BY <1>1, <1>2, <1>3, <1>4, <1>5, <1>6, <1>7, <1>8, <1>9 DEF Next, CloseStep

\* The units that came up, and their order, in terms of the stack's.
LEMMA CameUpFacts ==
  ASSUME next \in 1..9
  PROVE  CameUp = {StackOrder[i] : i \in 1..Came(next)}
<1>1. \A m \in 0..4 : {StackOrder[i] : i \in 1..m} =
        (IF m >= 1 THEN {"store"} ELSE {}) \cup (IF m >= 2 THEN {"stream"} ELSE {})
          \cup (IF m >= 3 THEN {"otlp"} ELSE {}) \cup (IF m >= 4 THEN {"http"} ELSE {})
  BY OrderFacts
<1>2. CameUp =
        (IF next >= 4 THEN {"store"} ELSE {}) \cup (IF next >= 5 THEN {"stream"} ELSE {})
          \cup (IF next >= 6 THEN {"otlp"} ELSE {}) \cup (IF next >= 9 THEN {"http"} ELSE {})
  BY UnitFacts DEF CameUp, Closable
<1>3. /\ Came(next) \in 0..4
      /\ next >= 4 <=> Came(next) >= 1
      /\ next >= 5 <=> Came(next) >= 2
      /\ next >= 6 <=> Came(next) >= 3
      /\ next >= 9 <=> Came(next) >= 4
  BY DEF Came
<1> QED
  BY <1>1, <1>2, <1>3

LEMMA BeforeFacts ==
  ASSUME NEW i \in 1..4, NEW j \in 1..4
  PROVE  Before(StackOrder[i], StackOrder[j]) <=> i < j
<1> DEFINE At(k) == IF k = 4 THEN 8 ELSE k + 2
<1>1. DOMAIN Units = 1..8
  BY DEF Units
<1>2. \A k \in 1..4, n \in 1..8 : Units[n] = StackOrder[k] <=> n = At(k)
  BY UnitFacts, OrderFacts
<1>3. Before(StackOrder[i], StackOrder[j]) <=> At(i) < At(j)
  <2>1. At(i) \in 1..8 /\ At(j) \in 1..8
    OBVIOUS
  <2> HIDE DEF At
  <2> QED
    BY <1>1, <1>2, <2>1 DEF Before
<1> QED
  BY <1>3

LEMMA ReverseOrder ==
  ASSUME StackInv, LogIsTheRest, SocketsHaveTheHub
  PROVE  ClosedInReverse
<1> DEFINE m == Came(next)
<1>1. m \in 0..4 /\ CameUp = {StackOrder[i] : i \in 1..m}
  BY CameFacts, CameUpFacts DEF StackInv
<1>2. /\ Len(closeLog) \in Nat /\ Len(closeLog) + Len(closeFns) + Busy = m /\ DOMAIN closeLog = 1..Len(closeLog)
      /\ \A i \in 1..Len(closeLog) : closeLog[i] = StackOrder[m + 1 - i]
  BY DEF LogIsTheRest
<1> HIDE DEF m
<1>3. Len(closeLog) <= m
  BY <1>1, <1>2 DEF Busy, StackInv, UpIsTheStack
<1>4. \A i \in 1..Len(closeLog) : m + 1 - i \in 1..m /\ m + 1 - i \in 1..4
  BY <1>1, <1>2, <1>3
<1>5. Closed \subseteq CameUp
  BY <1>1, <1>2, <1>4 DEF Closed
<1>6. ASSUME NEW i \in DOMAIN closeLog, NEW j \in DOMAIN closeLog, i < j
      PROVE  Before(closeLog[j], closeLog[i])
  <2>1. m + 1 - j < m + 1 - i
    BY <1>1, <1>2, <1>6
  <2> QED
    BY <1>2, <1>4, <2>1, BeforeFacts
<1>7. ASSUME NEW i \in DOMAIN closeLog, NEW u \in CameUp, Before(closeLog[i], u)
      PROVE  \E j \in 1..(i - 1) : closeLog[j] = u
  <2>1. PICK k \in 1..m : u = StackOrder[k]
    BY <1>1
  <2>2. m + 1 - i < k
    <3>1. k \in 1..4 /\ m + 1 - i \in 1..4
      BY <1>1, <1>2, <1>4
    <3>2. closeLog[i] = StackOrder[m + 1 - i]
      BY <1>2
    <3> QED
      BY <1>7, <2>1, <3>1, <3>2, BeforeFacts
  <2>3. /\ m + 1 - k \in 1..(i - 1) /\ m + 1 - k \in 1..Len(closeLog)
        /\ m + 1 - (m + 1 - k) = k
    BY <1>1, <1>2, <2>2
  <2>4. closeLog[m + 1 - k] = StackOrder[k]
    BY <1>2, <2>3
  <2> QED
    BY <2>1, <2>3, <2>4
<1>8. ASSUME Halted
      PROVE  Closed = CameUp /\ resources = {} /\ \A w \in Sockets : socket[w] # "open"
  <2>1. closeFns = <<>> /\ Len(closeFns) = 0 /\ closing = "none"
    BY <1>8 DEF Halted, LogIsTheRest
  <2>2. resources = {}
    BY <2>1 DEF StackInv, UpIsTheStack
  <2>3. Len(closeLog) = m
    BY <1>2, <2>1 DEF Busy
  <2>4. \A k \in 1..m : m + 1 - k \in 1..Len(closeLog) /\ m + 1 - (m + 1 - k) = k
    BY <1>1, <2>3
  <2>5. \A k \in 1..m : StackOrder[k] \in Closed
    BY <1>2, <2>4 DEF Closed
  <2> QED
    BY <1>1, <1>5, <2>2, <2>5 DEF SocketsHaveTheHub
<1> QED
  BY <1>5, <1>6, <1>7, <1>8 DEF ClosedInReverse

-----------------------------------------------------------------------------
(* The theorems *)

LifeInv ==
  /\ StackInv /\ ServeInv /\ RestTypes
  /\ RunningOnServers /\ LogIsTheRest /\ SocketsHaveTheHub

LEMMA LifeInvHolds == Spec => []LifeInv
<1>1. Init => LifeInv
  <2> SUFFICES ASSUME Init PROVE LifeInv
    OBVIOUS
  <2>1. StackInv
    BY DEF Init, StackInv, UpIsTheStack, InitIsInOrder
  <2>2. ServeInv
    <3>1. Up("otlp") = 0 /\ Up("http") = 0 /\ Done("otlp") = 0 /\ Done("http") = 0 /\ Taken = 0
      BY DEF Init, Up, Done, Taken, Servers
    <3>2. ~HasError(serveErr) /\ \A s \in Servers : server[s] = "down"
      BY DEF Init, HasError
    <3>3. EveryResultCounts
      BY <3>1, <3>2 DEF Init, EveryResultCounts
    <3>4. ServeTypes
      <4>1. serveErr \in Seq({"nil", "error"}) /\ Len(serveErr) = 0
        BY EmptySeq DEF Init
      <4>2. Len(serveErr) <= 4
        BY <4>1
      <4>3. server \in [Servers -> {"down", "serving", "draining", "failed", "ended"}]
        BY DEF Init
      <4>4. /\ serveTaken \in BOOLEAN /\ drained \in Nat /\ waitErr \in {"nil", "error"}
            /\ aborted \in BOOLEAN
            /\ phase \in {"init", "wait", "close", "drain", "returned", "exit"}
        BY DEF Init
      <4> QED
        BY <4>1, <4>2, <4>3, <4>4 DEF ServeTypes
    <3>5. ServersInOrder
      BY <3>2 DEF Init, ServersInOrder, Servers
    <3> QED
      BY <3>3, <3>4, <3>5 DEF ServeInv
  <2>3. RestTypes
    <3>1. closeLog \in Seq(Closable)
      BY EmptySeq DEF Init
    <3>2. stopped \in BOOLEAN /\ called \subseteq Stoppers /\ expired \in BOOLEAN
      BY DEF Init
    <3>3. request \in [Requests -> {"none", "running", "ended"}]
      BY DEF Init
    <3>4. socket \in [Sockets -> {"none", "open", "hangup", "ended"}]
      BY DEF Init
    <3>5. drained = 0 /\ serveCount = 0
      BY DEF Init
    <3>6. drained <= serveCount
      BY <3>5
    <3> QED
      BY <3>1, <3>2, <3>3, <3>4, <3>6 DEF RestTypes
  <2>4. RunningOnServers
    BY DEF Init, RunningOnServers
  <2>5. LogIsTheRest
    <3>1. closeLog = <<>> /\ closeLog \in Seq(Closable) /\ Len(closeLog) = 0 /\ Len(closeFns) = 0
      BY EmptySeq DEF Init
    <3>2. Busy = 0 /\ Came(next) = 0 /\ phase = "init"
      BY DEF Init, Busy, Came
    <3> QED
      BY <3>1, <3>2 DEF LogIsTheRest
  <2>6. SocketsHaveTheHub
    BY DEF Init, SocketsHaveTheHub
  <2> QED
    BY <2>1, <2>2, <2>3, <2>4, <2>5, <2>6 DEF LifeInv
<1>2. LifeInv /\ [Next]_vars => LifeInv'
  BY StackStep, ServeStep, RestStep, RunningStep, LogStep, SocketStep DEF LifeInv, RestTypes
<1> QED
  BY <1>1, <1>2, PTL DEF Spec

\* The state is well-typed: the channel of serve results never overflows and no
\* more results are waited for than servers were started.
THEOREM LifecycleTypeCorrect == Spec => []TypeOK
<1>1. LifeInv => TypeOK
  <2> SUFFICES ASSUME LifeInv PROVE TypeOK
    OBVIOUS
  <2>1. closeFns \in Seq(Closable) /\ closing \in Closable \cup {"none"} /\ resources \subseteq Closable
    <3>1. closeFns \in Seq(Closable) /\ closing \in Closable \cup {"none"}
      BY OrderFacts DEF LifeInv, StackInv, UpIsTheStack
    <3>2. resources = {closeFns[i] : i \in 1..Len(closeFns)} \cup ({closing} \ {"none"})
      BY DEF LifeInv, StackInv, UpIsTheStack
    <3> QED
      BY <3>1, <3>2
  <2>2. next \in 1..(Len(Units) + 1)
    BY UnitFacts DEF LifeInv, StackInv
  <2>3. serveCount \in 0..2 /\ drained \in 0..serveCount
    BY DEF LifeInv, ServeInv, ServeTypes, EveryResultCounts, RestTypes, Up
  <2> QED
    BY <2>1, <2>2, <2>3 DEF LifeInv, ServeInv, ServeTypes, RestTypes, TypeOK
<1> QED
  BY <1>1, LifeInvHolds, PTL

\* Units are closed in the reverse of their start, none is skipped or left, and
\* no stream outlives the hub.
THEOREM UnitsCloseInReverse == Spec => []ClosedInReverse
<1>1. LifeInv => ClosedInReverse
  BY ReverseOrder DEF LifeInv
<1> QED
  BY <1>1, LifeInvHolds, PTL

\* A gRPC call always runs against an open store, an HTTP request unless the
\* shutdown deadline has passed.
THEOREM RequestsHaveAStore == Spec => []StoreOutlivesRequests
<1>1. LifeInv => StoreOutlivesRequests
  BY StoreIsFirst DEF LifeInv, RunningOnServers, LeftBehind, StoreOutlivesRequests
<1> QED
  BY <1>1, LifeInvHolds, PTL

\* Wait returns after every Serve goroutine, with an error if and only if one of
\* them failed.
THEOREM WaitReportsFailures == Spec => []ServerFailureIsReported
<1>1. LifeInv => ServerFailureIsReported
  <2> SUFFICES ASSUME LifeInv, phase = "returned"
               PROVE  /\ \A s \in Servers : server[s] \in {"failed", "ended"}
                      /\ waitErr = "error" <=> \E s \in Servers : server[s] = "failed"
    BY DEF ServerFailureIsReported
  <2>1. /\ \A s \in Servers : server[s] # "down"
        /\ drained = serveCount - Taken
    BY DEF LifeInv, ServeInv, ServersInOrder, Outstanding, Taken
  <2>2. serveCount = 2
    BY <2>1 DEF LifeInv, ServeInv, EveryResultCounts, Up, Servers
  <2>3. Len(serveErr) + drained + Taken = Done("otlp") + Done("http")
    BY DEF LifeInv, ServeInv, EveryResultCounts
  <2>4. serveErr \in Seq({"nil", "error"}) /\ drained \in Nat /\ Taken \in Nat
    BY DEF LifeInv, ServeInv, ServeTypes, Taken
  <2>5. Len(serveErr) \in Nat /\ Len(serveErr) + 2 = Done("otlp") + Done("http")
    BY <2>1, <2>2, <2>3, <2>4
  <2>6. Len(serveErr) = 0 /\ Done("otlp") = 1 /\ Done("http") = 1
    BY <2>5 DEF Done
  <2>7. ~HasError(serveErr)
    BY <2>6 DEF HasError
  <2>8. \A s \in Servers : server[s] \in {"failed", "ended"}
    BY <2>6 DEF Done, Servers
  <2> QED
    BY <2>7, <2>8 DEF LifeInv, ServeInv, EveryResultCounts
<1> QED
  BY <1>1, LifeInvHolds, PTL
=============================================================================
