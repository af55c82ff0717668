---------------------------- MODULE TraceIngest -----------------------------
(***************************************************************************)
(* The write path from an OTLP (HTTP or gRPC) or JSON log request to       *)
(* ClickHouse, the live stream and the answer, and the reader that loads   *)
(* a trace while writes are in flight.                                     *)
(*                                                                         *)
(* A batch is one request body after flattening or decoding.  Its content  *)
(* is the sequence of tables it has rows for, in the order the store       *)
(* inserts them: spans, span_events, span_links for traces, logs for logs. *)
(* ClickHouse has no transaction over tables, an insert that reports an    *)
(* error may have been applied, and an exporter repeats a request that was *)
(* not acknowledged.                                                       *)
(***************************************************************************)
EXTENDS Naturals, Sequences, FiniteSets

CONSTANTS
  Batches,      \* what exporters have to deliver
  Content,      \* Content[b]: the tables b has rows for, in insertion order
  TraceOf,      \* TraceOf[b]: the trace b's rows belong to
  LiveRows,     \* LiveRows[b]: how many rows b is summarised to
  Oversized,    \* batches FlattenTraces or decodeBody refuses
  Handlers,     \* request goroutines of the HTTP and gRPC servers
  Readers,      \* GetTrace calls
  MaxAttempts,  \* bound: MaxAttempts[b] is how often an exporter sends b
  MaxCrashes    \* bound: restarts of the process

Tables == {"spans", "span_events", "span_links", "logs"}

\* A span comes with its events and links: no flattened batch has children only.
TableOrders ==
  {<<>>, <<"spans">>, <<"spans", "span_events">>, <<"spans", "span_links">>,
   <<"spans", "span_events", "span_links">>, <<"logs">>}

ASSUME BatchesAssumption == Batches # {}
ASSUME ContentAssumption == Content \in [Batches -> TableOrders]
ASSUME HandlersAssumption == IsFiniteSet(Handlers)
ASSUME OversizedAssumption == Oversized \subseteq Batches
ASSUME LiveRowsAssumption == LiveRows \in [Batches -> Nat]

VARIABLES
  exporter,  \* exporter[b]: "unsent", "waiting", "acked" or "refused"
  attempts,  \* attempts[b]: how often b was sent
  copies,    \* copies[b][t]: how often b's rows for table t were inserted
  services,  \* batches whose span insert has fed services_mv
  live,      \* batches with at least one row published to the hub
  pc,        \* pc[h]: "idle", "insert", "publish" or "respond"
  job,       \* job[h]: the batch h works on (of no meaning while idle)
  step,      \* step[h]: position in Content[job[h]]
  todo,      \* todo[h]: rows AfterWrite has still to publish
  client,    \* client[h]: h's client still waits for the answer
  outcome,   \* outcome[h]: the answer: "ok", "unavailable" or "refused"
  crashes,   \* restarts so far
  rpc,       \* rpc[r]: "start", "spans", "span_events", "span_links", "done", ...
  target,    \* target[r]: the trace r loads
  known,     \* history: batches of target[r] acknowledged or live when r began
  seen       \* seen[r][t]: batches whose rows r's SELECT on table t returned

exporterVars == <<exporter, attempts>>
storeVars == <<copies, services>>
handlerVars == <<pc, job, step, todo, client, outcome>>
readerVars == <<rpc, target, known, seen>>
vars == <<exporterVars, storeVars, live, handlerVars, crashes, readerVars>>

Parts(b) == {Content[b][i] : i \in DOMAIN Content[b]}

\* Every row of b is in ClickHouse.
Stored(b) == \A t \in Parts(b) : copies[b][t] > 0

AnyBatch == CHOOSE b \in Batches : TRUE
AnyTrace == TraceOf[AnyBatch]

Init ==
  /\ exporter = [b \in Batches |-> "unsent"]
  /\ attempts = [b \in Batches |-> 0]
  /\ copies = [b \in Batches |-> [t \in Tables |-> 0]]
  /\ services = {}
  /\ live = {}
  /\ pc = [h \in Handlers |-> "idle"]
  /\ job = [h \in Handlers |-> AnyBatch]
  /\ step = [h \in Handlers |-> 1]
  /\ todo = [h \in Handlers |-> 0]
  /\ client = [h \in Handlers |-> FALSE]
  /\ outcome = [h \in Handlers |-> "ok"]
  /\ crashes = 0
  /\ rpc = [r \in Readers |-> "start"]
  /\ target = [r \in Readers |-> AnyTrace]
  /\ known = [r \in Readers |-> {}]
  /\ seen = [r \in Readers |-> [t \in Tables |-> {}]]

-----------------------------------------------------------------------------
(* Exporters: an OTLP exporter or log shipper, outside this repository.     *)

\* The request reaches handler h, which flattens it: refused when it has too
\* many spans or rows, nothing to insert when it is empty.
Send(b, h) ==
  /\ exporter[b] = "unsent"
  /\ attempts[b] < MaxAttempts[b]
  /\ pc[h] = "idle"
  /\ exporter' = [exporter EXCEPT ![b] = "waiting"]
  /\ attempts' = [attempts EXCEPT ![b] = @ + 1]
  /\ job' = [job EXCEPT ![h] = b]
  /\ step' = [step EXCEPT ![h] = 1]
  /\ client' = [client EXCEPT ![h] = TRUE]
  /\ \/ /\ b \in Oversized
        /\ pc' = [pc EXCEPT ![h] = "respond"]
        /\ outcome' = [outcome EXCEPT ![h] = "refused"]
        /\ UNCHANGED todo
     \/ /\ b \notin Oversized
        /\ pc' = [pc EXCEPT ![h] = IF Content[b] = <<>> THEN "publish" ELSE "insert"]
        /\ todo' = [todo EXCEPT ![h] = LiveRows[b]]
        /\ UNCHANGED outcome
  /\ UNCHANGED <<storeVars, live, crashes, readerVars>>

\* The exporter stops waiting and will send the batch again.  The request's
\* context is cancelled when the server notices, which lets the insert that is
\* under way and every later one fail; until then the handler goes on.
GiveUp(h) ==
  /\ pc[h] # "idle"
  /\ client[h]
  /\ client' = [client EXCEPT ![h] = FALSE]
  /\ exporter' = [exporter EXCEPT ![job[h]] = "unsent"]
  /\ UNCHANGED <<attempts, storeVars, live, pc, job, step, todo, outcome, crashes, readerVars>>

-----------------------------------------------------------------------------
(* Store.WriteTraceBatch and WriteLogBatch: one send per table.             *)

Applied(h, t) ==
  copies' = [copies EXCEPT ![job[h]][t] = @ + 1]

Answer(h, result) ==
  /\ pc' = [pc EXCEPT ![h] = "respond"]
  /\ outcome' = [outcome EXCEPT ![h] = result]

\* Wrong: the table index runs past the last table.
InsertOk_NoEnd(h) ==
  /\ pc[h] = "insert"
  /\ Applied(h, Content[job[h]][step[h]])
  /\ services' = services \cup {job[h]}
  /\ step' = [step EXCEPT ![h] = @ + 1]
  /\ UNCHANGED <<exporterVars, live, pc, job, todo, client, outcome, crashes, readerVars>>

\* Wrong: the write is taken for complete after the first table.
InsertOk_SpansOnly(h) ==
  /\ pc[h] = "insert"
  /\ Applied(h, Content[job[h]][step[h]])
  /\ services' = services \cup {job[h]}
  /\ pc' = [pc EXCEPT ![h] = "publish"]
  /\ UNCHANGED <<exporterVars, live, job, step, todo, client, outcome, crashes, readerVars>>

\* send succeeds; the materialized view has run as part of the insert.  The
\* handler goes on to the next table that has rows, or to AfterWrite.
InsertOk(h) ==
  LET b == job[h]
      t == Content[b][step[h]]
  IN /\ pc[h] = "insert"
     /\ Applied(h, t)
     /\ services' = IF t = "spans" THEN services \cup {b} ELSE services
     /\ IF step[h] < Len(Content[b])
        THEN step' = [step EXCEPT ![h] = @ + 1] /\ UNCHANGED pc
        ELSE pc' = [pc EXCEPT ![h] = "publish"] /\ UNCHANGED step
     /\ UNCHANGED <<exporterVars, live, job, todo, client, outcome, crashes, readerVars>>

\* Wrong: an error of send is taken for success.
InsertFails_Ignored(h) ==
  /\ pc[h] = "insert"
  /\ Answer(h, "ok")
  /\ UNCHANGED <<exporterVars, storeVars, live, job, step, todo, client, crashes, readerVars>>

\* Wrong: the tables after the failed one are written all the same.
InsertFails_Continues(h) ==
  /\ pc[h] = "insert"
  /\ step[h] < Len(Content[job[h]])
  /\ step' = [step EXCEPT ![h] = @ + 1]
  /\ UNCHANGED <<exporterVars, storeVars, live, pc, job, todo, client, outcome, crashes, readerVars>>

\* send fails and nothing was applied: PrepareBatch, Append or Send failed, or
\* the request's context is cancelled or timed out.  The batch is aborted and
\* the tables after this one are not tried.
InsertFails(h) ==
  /\ pc[h] = "insert"
  /\ Answer(h, "unavailable")
  /\ UNCHANGED <<exporterVars, storeVars, live, job, step, todo, client, crashes, readerVars>>

\* Wrong: an insert without an answer is repeated within the request.
InsertLost_Repeats(h) ==
  /\ pc[h] = "insert"
  /\ copies[job[h]][Content[job[h]][step[h]]] < 3
  /\ Applied(h, Content[job[h]][step[h]])
  /\ UNCHANGED <<exporterVars, services, live, handlerVars, crashes, readerVars>>

\* send reports an error although ClickHouse applied the insert: the answer
\* was lost or late, or the view failed after the rows were written.
InsertLost(h) ==
  LET t == Content[job[h]][step[h]]
  IN /\ pc[h] = "insert"
     /\ Applied(h, t)
     /\ \/ UNCHANGED services
        \/ t = "spans" /\ services' = services \cup {job[h]}
     /\ Answer(h, "unavailable")
     /\ UNCHANGED <<exporterVars, live, job, step, todo, client, crashes, readerVars>>

-----------------------------------------------------------------------------
(* AfterWrite, AfterLogWrite and the answer                                 *)

\* One row: published, or skipped by the rate limit.
Publish(h) ==
  /\ pc[h] = "publish"
  /\ todo[h] > 0
  /\ todo' = [todo EXCEPT ![h] = @ - 1]
  /\ live' = live \cup {job[h]} \/ UNCHANGED live
  /\ UNCHANGED <<exporterVars, storeVars, pc, job, step, client, outcome, crashes, readerVars>>

\* WriteTraceBatch returns nil.
WriteDone(h) ==
  /\ pc[h] = "publish"
  /\ todo[h] = 0
  /\ Answer(h, "ok")
  /\ UNCHANGED <<exporterVars, storeVars, live, job, step, todo, client, crashes, readerVars>>

\* The status of the answer, as a conforming exporter reads it: 200 / OK,
\* 413 / ResourceExhausted (do not repeat), 503 / Unavailable (repeat).
Verdict(result) ==
  CASE result = "ok" -> "acked"
    [] result = "refused" -> "refused"
    [] result = "unavailable" -> "unsent"

\* The handler answers and returns.  The answer may get lost.
Respond(h) ==
  /\ pc[h] = "respond"
  /\ pc' = [pc EXCEPT ![h] = "idle"]
  /\ client' = [client EXCEPT ![h] = FALSE]
  /\ \/ /\ client[h]
        /\ exporter' = [exporter EXCEPT ![job[h]] = Verdict(outcome[h])]
     \/ /\ client[h]
        /\ exporter' = [exporter EXCEPT ![job[h]] = "unsent"]
     \/ /\ ~client[h]
        /\ UNCHANGED exporter
  /\ job' = [job EXCEPT ![h] = AnyBatch]
  /\ step' = [step EXCEPT ![h] = 1]
  /\ todo' = [todo EXCEPT ![h] = 0]
  /\ outcome' = [outcome EXCEPT ![h] = "ok"]
  /\ UNCHANGED <<attempts, storeVars, live, crashes, readerVars>>

\* The process stops between any two steps and starts again: its goroutines
\* are gone, exporters see broken connections, ClickHouse keeps its rows.
Crash ==
  /\ crashes < MaxCrashes
  /\ crashes' = crashes + 1
  /\ exporter' = [b \in Batches |-> IF exporter[b] = "waiting" THEN "unsent" ELSE exporter[b]]
  /\ pc' = [h \in Handlers |-> "idle"]
  /\ client' = [h \in Handlers |-> FALSE]
  /\ job' = [h \in Handlers |-> AnyBatch]
  /\ step' = [h \in Handlers |-> 1]
  /\ todo' = [h \in Handlers |-> 0]
  /\ outcome' = [h \in Handlers |-> "ok"]
  /\ rpc' = [r \in Readers |-> IF rpc[r] \in Tables THEN "failed" ELSE rpc[r]]
  /\ UNCHANGED <<attempts, storeVars, live, target, known, seen>>

-----------------------------------------------------------------------------
(* Store.GetTrace: three SELECTs, one per table, at three moments           *)

StartRead(r, trace) ==
  /\ rpc[r] = "start"
  /\ rpc' = [rpc EXCEPT ![r] = "spans"]
  /\ target' = [target EXCEPT ![r] = trace]
  /\ known' = [known EXCEPT ![r] =
       {b \in Batches : TraceOf[b] = trace /\ (exporter[b] = "acked" \/ b \in live)}]
  /\ UNCHANGED <<exporterVars, storeVars, live, handlerVars, crashes, seen>>

\* The rows of the trace in a table.  Its time window and the limits on spans,
\* events and links (get.go:138-192) are left out: a read is of what they admit.
Select(r, t) ==
  {b \in Batches : TraceOf[b] = target[r] /\ copies[b][t] > 0}

ReadStep(r, t, next) ==
  /\ rpc[r] = t
  /\ seen' = [seen EXCEPT ![r][t] = Select(r, t)]
  /\ rpc' = [rpc EXCEPT ![r] = next]
  /\ UNCHANGED <<exporterVars, storeVars, live, handlerVars, crashes, target, known>>

\* ErrNotFound when the trace has no span in the window.
SelectSpans(r) ==
  \/ Select(r, "spans") # {} /\ ReadStep(r, "spans", "span_events")
  \/ Select(r, "spans") = {} /\ ReadStep(r, "spans", "not found")

SelectEvents(r) == ReadStep(r, "span_events", "span_links")

SelectLinks(r) == ReadStep(r, "span_links", "done")

\* A SELECT fails or times out: the answer is 503 and no trace.
ReadFails(r) ==
  /\ rpc[r] \in Tables
  /\ rpc' = [rpc EXCEPT ![r] = "failed"]
  /\ UNCHANGED <<exporterVars, storeVars, live, handlerVars, crashes, target, known, seen>>

\* assembleTrace hangs events and links under the spans that were read: rows
\* of a span that was not read are left out.
Assembled(r, t) == seen[r][t] \cap seen[r]["spans"]

-----------------------------------------------------------------------------

HandlerStep(h) ==
  \/ InsertOk(h) \/ InsertFails(h) \/ InsertLost(h)
  \/ Publish(h) \/ WriteDone(h) \/ Respond(h)

Next ==
  \/ \E h \in Handlers : GiveUp(h) \/ HandlerStep(h) \/ (\E b \in Batches : Send(b, h))
  \/ Crash
  \/ \E r \in Readers :
       \/ \E b \in Batches : StartRead(r, TraceOf[b])
       \/ SelectSpans(r) \/ SelectEvents(r) \/ SelectLinks(r) \/ ReadFails(r)

Spec == Init /\ [][Next]_vars

-----------------------------------------------------------------------------
(* Properties *)

TypeOK ==
  /\ exporter \in [Batches -> {"unsent", "waiting", "acked", "refused"}]
  /\ attempts \in [Batches -> Nat]
  /\ copies \in [Batches -> [Tables -> Nat]]
  /\ services \subseteq Batches
  /\ live \subseteq Batches
  /\ pc \in [Handlers -> {"idle", "insert", "publish", "respond"}]
  /\ job \in [Handlers -> Batches]
  /\ step \in [Handlers -> Nat]
  /\ \A h \in Handlers : pc[h] = "insert" => step[h] \in DOMAIN Content[job[h]]
  /\ todo \in [Handlers -> Nat]
  /\ client \in [Handlers -> BOOLEAN]
  /\ outcome \in [Handlers -> {"ok", "unavailable", "refused"}]
  /\ crashes \in Nat
  /\ rpc \in [Readers -> Tables \cup {"start", "done", "not found", "failed"}]
  /\ target \in [Readers -> {TraceOf[b] : b \in Batches}]
  /\ known \in [Readers -> SUBSET Batches]
  /\ seen \in [Readers -> [Tables -> SUBSET Batches]]

\* An exporter that got a success may forget the batch: every row of it is in
\* ClickHouse, its service is listed, and no crash, cancelled request, lost
\* answer or failed insert on the way changes that.
AckedIsStored ==
  \A b \in Batches : exporter[b] = "acked" =>
    /\ Stored(b)
    /\ "spans" \in Parts(b) => b \in services

\* Nothing is shown live before all of it can be loaded: AfterWrite publishes
\* only after the last insert (after.go: "after a successful persist").
LiveIsStored == \A b \in live : Stored(b)

\* Rows are duplicated by exporters' retries and by nothing else, a refused batch
\* leaves no row at all, and inserts go spans, events, links: a table never holds
\* more copies of a batch than the one before it, so no child row lacks its span.
CopiesComeFromAttempts ==
  \A b \in Batches :
    /\ \A t \in Tables : /\ copies[b][t] <= attempts[b]
                         /\ exporter[b] = "refused" => copies[b][t] = 0
    /\ \A i \in 1..(Len(Content[b]) - 1) :
         copies[b][Content[b][i + 1]] <= copies[b][Content[b][i]]

\* A trace read after an acknowledgement, or opened from a live row, has every
\* span, event and link of that batch, although its three SELECTs run at
\* different moments; "not found" is answered only when nothing was known.
ReadAfterAckIsComplete ==
  \A r \in Readers :
    /\ rpc[r] = "done" =>
         \A b \in known[r] : \A t \in Parts(b) \ {"logs"} : b \in Assembled(r, t)
    /\ rpc[r] = "not found" => \A b \in known[r] : "spans" \notin Parts(b)
=============================================================================
