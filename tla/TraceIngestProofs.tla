------------------------- MODULE TraceIngestProofs --------------------------
(***************************************************************************)
(* Theorems about TraceIngest, for every set of batches, handlers and      *)
(* readers and any number of attempts and restarts.                        *)
(*                                                                         *)
(* The argument: a handler that has come to table i has written the tables *)
(* before it (HandlersOnTrack), so whatever is acknowledged or published   *)
(* was written whole; rows never leave ClickHouse, so what a reader knew   *)
(* when it began is there at each of its three SELECTs.  Copies are        *)
(* counted against the sends: every insert a handler has still to do was   *)
(* paid for by one.                                                        *)
(***************************************************************************)
EXTENDS TraceIngest, FiniteSetTheorems, TLAPS

\* The first n tables of b are written.
WrittenTo(b, n) ==
  \A i \in 1..n : /\ copies[b][Content[b][i]] > 0
                  /\ Content[b][i] = "spans" => b \in services
Written(b) == WrittenTo(b, Len(Content[b]))

OnTrack(h) ==
  /\ pc[h] = "insert" => WrittenTo(job[h], step[h] - 1)
  /\ pc[h] = "publish" \/ (pc[h] = "respond" /\ outcome[h] = "ok") => Written(job[h])
HandlersOnTrack == \A h \in Handlers : OnTrack(h)

AckedIsWritten == \A b \in Batches : exporter[b] = "acked" \/ b \in live => Written(b)

WriteInv == TypeOK /\ HandlersOnTrack /\ AckedIsWritten

-----------------------------------------------------------------------------
(* The tables of a batch *)

LEMMA ContentFacts ==
  ASSUME NEW b \in Batches
  PROVE  /\ Content[b] \in Seq(Tables)
         /\ Len(Content[b]) \in Nat
         /\ DOMAIN Content[b] = 1..Len(Content[b])
         /\ \A i \in 1..Len(Content[b]) : Content[b][i] \in Tables
         /\ \A i, j \in 1..Len(Content[b]) : Content[b][i] = Content[b][j] => i = j
         /\ \A i \in 1..Len(Content[b]) :
              Content[b][i] # "logs" => Content[b][1] = "spans"
<1>1. Content[b] \in TableOrders
  BY ContentAssumption
<1>2. CASE Content[b] = <<>>
  BY <1>2 DEF Tables
<1>3. CASE Content[b] = <<"spans">>
  BY <1>3 DEF Tables
<1>4. CASE Content[b] = <<"spans", "span_events">>
  BY <1>4 DEF Tables
<1>5. CASE Content[b] = <<"spans", "span_links">>
  BY <1>5 DEF Tables
<1>6. CASE Content[b] = <<"spans", "span_events", "span_links">>
  BY <1>6 DEF Tables
<1>7. CASE Content[b] = <<"logs">>
  BY <1>7 DEF Tables
<1> QED
  BY <1>1, <1>2, <1>3, <1>4, <1>5, <1>6, <1>7 DEF TableOrders

LEMMA AnyBatchIsOne == AnyBatch \in Batches /\ AnyTrace \in {TraceOf[b] : b \in Batches}
  BY BatchesAssumption DEF AnyBatch, AnyTrace

-----------------------------------------------------------------------------
(* Type correctness, in four parts *)

StoreTypes ==
  /\ exporter \in [Batches -> {"unsent", "waiting", "acked", "refused"}]
  /\ attempts \in [Batches -> Nat]
  /\ copies \in [Batches -> [Tables -> Nat]]
  /\ services \subseteq Batches
  /\ live \subseteq Batches
  /\ crashes \in Nat

HandlerTypes ==
  /\ pc \in [Handlers -> {"idle", "insert", "publish", "respond"}]
  /\ job \in [Handlers -> Batches]
  /\ step \in [Handlers -> Nat]
  /\ todo \in [Handlers -> Nat]
  /\ client \in [Handlers -> BOOLEAN]
  /\ outcome \in [Handlers -> {"ok", "unavailable", "refused"}]

AtATable == \A h \in Handlers : pc[h] = "insert" => step[h] \in DOMAIN Content[job[h]]

ReaderTypes ==
  /\ rpc \in [Readers -> Tables \cup {"start", "done", "not found", "failed"}]
  /\ target \in [Readers -> {TraceOf[b] : b \in Batches}]
  /\ known \in [Readers -> SUBSET Batches]
  /\ seen \in [Readers -> [Tables -> SUBSET Batches]]

LEMMA TypeParts == TypeOK <=> StoreTypes /\ HandlerTypes /\ AtATable /\ ReaderTypes
  BY DEF TypeOK, StoreTypes, HandlerTypes, AtATable, ReaderTypes

LEMMA IngestTypeInit == Init => TypeOK
<1> SUFFICES ASSUME Init PROVE TypeOK
  OBVIOUS
<1>1. StoreTypes
  BY DEF Init, StoreTypes
<1>2. HandlerTypes /\ AtATable
  BY AnyBatchIsOne DEF Init, HandlerTypes, AtATable
<1>3. ReaderTypes
  BY AnyBatchIsOne DEF Init, ReaderTypes
<1> QED
  BY <1>1, <1>2, <1>3, TypeParts

\* The table a handler is at.
LEMMA CurrentTable ==
  ASSUME TypeOK, NEW h \in Handlers, pc[h] = "insert"
  PROVE  /\ job[h] \in Batches /\ step[h] \in 1..Len(Content[job[h]])
         /\ Content[job[h]][step[h]] \in Tables
<1>1. job[h] \in Batches /\ step[h] \in DOMAIN Content[job[h]]
  BY DEF TypeOK
<1> QED
  BY <1>1, ContentFacts

\* A step that writes adds one copy of the rows of the handler's table; no other
\* step touches the tables.
Writes(h) ==
  /\ pc[h] = "insert"
  /\ Applied(h, Content[job[h]][step[h]])
  /\ services' \in {services, services \cup {job[h]}}

LEMMA WritesOrNot ==
  ASSUME [Next]_vars
  PROVE  \/ UNCHANGED storeVars
         \/ \E h \in Handlers : Writes(h) /\ (InsertOk(h) \/ InsertLost(h))
<1>1. ASSUME NEW h \in Handlers, InsertOk(h) \/ InsertLost(h) PROVE Writes(h)
  BY <1>1 DEF InsertOk, InsertLost, Writes
<1>2. ASSUME NEW h \in Handlers, NEW b \in Batches, Send(b, h) PROVE UNCHANGED storeVars
  BY <1>2 DEF Send
<1>3. ASSUME NEW h \in Handlers,
             GiveUp(h) \/ InsertFails(h) \/ Publish(h) \/ WriteDone(h) \/ Respond(h)
      PROVE  UNCHANGED storeVars
  BY <1>3 DEF GiveUp, InsertFails, Publish, WriteDone, Respond
<1>4. ASSUME NEW r \in Readers, NEW b \in Batches, StartRead(r, TraceOf[b])
      PROVE  UNCHANGED storeVars
  BY <1>4 DEF StartRead
<1>5. ASSUME NEW r \in Readers,
             SelectSpans(r) \/ SelectEvents(r) \/ SelectLinks(r) \/ ReadFails(r)
      PROVE  UNCHANGED storeVars
  BY <1>5 DEF SelectSpans, SelectEvents, SelectLinks, ReadFails, ReadStep
<1>6. CASE Crash \/ UNCHANGED vars
  BY <1>6 DEF Crash, vars, storeVars
<1> QED
  BY <1>1, <1>2, <1>3, <1>4, <1>5, <1>6 DEF Next, HandlerStep

LEMMA WriteAdds ==
  ASSUME TypeOK, NEW h \in Handlers, Writes(h)
  PROVE  /\ copies' \in [Batches -> [Tables -> Nat]]
         /\ services' \subseteq Batches
         /\ copies'[job[h]][Content[job[h]][step[h]]] = copies[job[h]][Content[job[h]][step[h]]] + 1
         /\ \A b \in Batches, t \in Tables :
              (b # job[h] \/ t # Content[job[h]][step[h]]) => copies'[b][t] = copies[b][t]
<1>1. /\ job[h] \in Batches /\ Content[job[h]][step[h]] \in Tables
      /\ copies \in [Batches -> [Tables -> Nat]] /\ services \subseteq Batches
  BY CurrentTable DEF Writes, TypeOK
<1> QED
  BY <1>1 DEF Writes, Applied

LEMMA StoreTypesStep ==
  ASSUME TypeOK, [Next]_vars
  PROVE  StoreTypes'
<1>1. StoreTypes
  BY TypeParts
<1>2. copies' \in [Batches -> [Tables -> Nat]] /\ services' \subseteq Batches
  BY WritesOrNot, WriteAdds DEF TypeOK, storeVars
<1>3. ASSUME NEW h \in Handlers, job[h] \in Batches,
             GiveUp(h) \/ HandlerStep(h) \/ (\E b \in Batches : Send(b, h))
      PROVE  /\ exporter' \in [Batches -> {"unsent", "waiting", "acked", "refused"}]
             /\ attempts' \in [Batches -> Nat] /\ live' \subseteq Batches /\ crashes' \in Nat
  <2> USE <1>1 DEF StoreTypes, exporterVars
  <2>1. ASSUME NEW b \in Batches, Send(b, h)
        PROVE  /\ exporter' \in [Batches -> {"unsent", "waiting", "acked", "refused"}]
               /\ attempts' \in [Batches -> Nat] /\ live' \subseteq Batches /\ crashes' \in Nat
    BY <2>1 DEF Send
  <2>2. CASE GiveUp(h)
    BY <1>3, <2>2 DEF GiveUp
  <2>3. CASE InsertOk(h) \/ InsertFails(h) \/ InsertLost(h) \/ WriteDone(h)
    BY <2>3 DEF InsertOk, InsertFails, InsertLost, WriteDone
  <2>4. CASE Publish(h)
    BY <1>3, <2>4 DEF Publish
  <2>5. CASE Respond(h)
    <3>1. Verdict(outcome[h]) \in {"unsent", "acked", "refused"}
      BY DEF Verdict, TypeOK
    <3>2. QED
      BY <1>3, <2>5, <3>1 DEF Respond
  <2> QED
    BY <1>3, <2>1, <2>2, <2>3, <2>4, <2>5 DEF HandlerStep
<1>4. ASSUME NEW r \in Readers,
             \/ \E b \in Batches : StartRead(r, TraceOf[b])
             \/ SelectSpans(r) \/ SelectEvents(r) \/ SelectLinks(r) \/ ReadFails(r)
      PROVE  UNCHANGED <<exporterVars, live, crashes>>
  BY <1>4 DEF StartRead, SelectSpans, SelectEvents, SelectLinks, ReadFails, ReadStep
<1>5. CASE Crash
  BY <1>1, <1>2, <1>5 DEF Crash, StoreTypes
<1>6. CASE UNCHANGED vars
  BY <1>1, <1>6 DEF StoreTypes, vars, exporterVars, storeVars
<1>7. \A h \in Handlers : job[h] \in Batches
  BY DEF TypeOK
<1> QED
  BY <1>1, <1>2, <1>3, <1>4, <1>5, <1>6, <1>7 DEF StoreTypes, Next, exporterVars

LEMMA HandlerTypesStep ==
  ASSUME TypeOK, [Next]_vars
  PROVE  HandlerTypes' /\ AtATable'
<1>1. HandlerTypes /\ AtATable
  BY TypeParts
<1>2. ASSUME NEW h \in Handlers, NEW b \in Batches, Send(b, h) PROVE HandlerTypes' /\ AtATable'
  <2>1. LiveRows[b] \in Nat /\ (Content[b] # <<>> => 1 \in DOMAIN Content[b])
    BY LiveRowsAssumption, ContentFacts
  <2>2. HandlerTypes'
    BY <1>1, <1>2, <2>1 DEF Send, HandlerTypes
  <2>3. AtATable'
    BY <1>1, <1>2, <2>1 DEF Send, AtATable, HandlerTypes
  <2> QED
    BY <2>2, <2>3
<1>3. ASSUME NEW h \in Handlers, GiveUp(h) PROVE HandlerTypes' /\ AtATable'
  BY <1>1, <1>3 DEF GiveUp, HandlerTypes, AtATable
<1>4. ASSUME NEW h \in Handlers, InsertOk(h) PROVE HandlerTypes' /\ AtATable'
  <2>1. pc[h] = "insert"
    BY <1>4 DEF InsertOk
  <2>2. step[h] \in 1..Len(Content[job[h]]) /\ job[h] \in Batches
    BY <2>1, CurrentTable
  <2>3. /\ Len(Content[job[h]]) \in Nat
        /\ DOMAIN Content[job[h]] = 1..Len(Content[job[h]])
    BY <2>2, ContentFacts
  <2>4. /\ UNCHANGED <<job, todo, client, outcome>>
        /\ \/ /\ step[h] < Len(Content[job[h]])
              /\ step' = [step EXCEPT ![h] = step[h] + 1] /\ pc' = pc
           \/ pc' = [pc EXCEPT ![h] = "publish"] /\ step' = step
    BY <1>4 DEF InsertOk
  <2>5. CASE step[h] < Len(Content[job[h]]) /\ step' = [step EXCEPT ![h] = step[h] + 1] /\ pc' = pc
    <3>1. HandlerTypes'
      BY <1>1, <2>4, <2>5 DEF HandlerTypes
    <3>2. step'[h] \in DOMAIN Content[job'[h]]
      BY <1>1, <2>2, <2>3, <2>4, <2>5 DEF HandlerTypes
    <3>3. AtATable'
      BY <1>1, <2>4, <2>5, <3>2 DEF AtATable, HandlerTypes
    <3> QED
      BY <3>1, <3>3
  <2>6. CASE pc' = [pc EXCEPT ![h] = "publish"] /\ step' = step
    BY <1>1, <2>4, <2>6 DEF AtATable, HandlerTypes
  <2> QED
    BY <2>4, <2>5, <2>6
<1>5. ASSUME NEW h \in Handlers,
             InsertFails(h) \/ InsertLost(h) \/ Publish(h) \/ WriteDone(h)
      PROVE HandlerTypes' /\ AtATable'
  BY <1>1, <1>5 DEF InsertFails, InsertLost, Publish, WriteDone, Answer, HandlerTypes, AtATable
<1>6. ASSUME NEW h \in Handlers, Respond(h) PROVE HandlerTypes' /\ AtATable'
  BY <1>1, <1>6, AnyBatchIsOne DEF Respond, HandlerTypes, AtATable
<1>7. CASE Crash
  BY <1>7, AnyBatchIsOne DEF Crash, HandlerTypes, AtATable
<1>8. ASSUME NEW r \in Readers,
             \/ \E b \in Batches : StartRead(r, TraceOf[b])
             \/ SelectSpans(r) \/ SelectEvents(r) \/ SelectLinks(r) \/ ReadFails(r)
      PROVE  UNCHANGED handlerVars
  BY <1>8 DEF StartRead, SelectSpans, SelectEvents, SelectLinks, ReadFails, ReadStep
<1>9. CASE UNCHANGED vars \/ UNCHANGED handlerVars
  BY <1>1, <1>9 DEF vars, handlerVars, HandlerTypes, AtATable
<1> QED
  BY <1>2, <1>3, <1>4, <1>5, <1>6, <1>7, <1>8, <1>9 DEF Next, HandlerStep

\* What a step does to a reader: nothing, or it begins, reads or fails.
LEMMA ReaderTypesStep ==
  ASSUME TypeOK, [Next]_vars
  PROVE  ReaderTypes'
<1>1. ReaderTypes
  BY TypeParts
<1>2. ASSUME NEW r \in Readers, NEW b \in Batches, StartRead(r, TraceOf[b]) PROVE ReaderTypes'
  BY <1>1, <1>2 DEF StartRead, ReaderTypes, Tables
<1>3. ASSUME NEW r \in Readers, NEW t \in Tables,
             NEW then \in Tables \cup {"done", "not found"}, ReadStep(r, t, then)
      PROVE  ReaderTypes'
  BY <1>1, <1>3 DEF ReadStep, Select, ReaderTypes
<1>4. ASSUME NEW r \in Readers, SelectSpans(r) \/ SelectEvents(r) \/ SelectLinks(r)
      PROVE  ReaderTypes'
  BY <1>3, <1>4 DEF SelectSpans, SelectEvents, SelectLinks, Tables
<1>5. ASSUME NEW r \in Readers, ReadFails(r) PROVE ReaderTypes'
  BY <1>1, <1>5 DEF ReadFails, ReaderTypes
<1>6. CASE Crash
  BY <1>1, <1>6 DEF Crash, ReaderTypes
<1>7. ASSUME NEW h \in Handlers,
             GiveUp(h) \/ HandlerStep(h) \/ (\E b \in Batches : Send(b, h))
      PROVE  UNCHANGED readerVars
  BY <1>7 DEF GiveUp, HandlerStep, Send, InsertOk, InsertFails, InsertLost, Publish, WriteDone,
              Respond
<1>8. CASE UNCHANGED vars \/ UNCHANGED readerVars
  BY <1>1, <1>8 DEF vars, readerVars, ReaderTypes
<1> QED
  BY <1>2, <1>4, <1>5, <1>6, <1>7, <1>8 DEF Next

LEMMA IngestTypeStep ==
  ASSUME TypeOK, [Next]_vars
  PROVE  TypeOK'
<1>1. StoreTypes' /\ HandlerTypes' /\ AtATable' /\ ReaderTypes'
  BY StoreTypesStep, HandlerTypesStep, ReaderTypesStep
<1> QED
  BY <1>1 DEF TypeOK, StoreTypes, HandlerTypes, AtATable, ReaderTypes
-----------------------------------------------------------------------------
(* What is acknowledged or shown was written whole *)

\* Rows stay in ClickHouse.
LEMMA RowsStay ==
  ASSUME TypeOK, [Next]_vars
  PROVE  /\ \A b \in Batches, t \in Tables : copies[b][t] <= copies'[b][t]
         /\ \A b \in Batches, t \in Tables : copies[b][t] \in Nat /\ copies'[b][t] \in Nat
         /\ services \subseteq services'
<1> USE DEF StoreTypes
<1>1. CASE UNCHANGED storeVars
  <2>1. copies \in [Batches -> [Tables -> Nat]]
    BY TypeParts
  <2> QED
    BY <1>1, <2>1 DEF storeVars
<1>2. ASSUME NEW h \in Handlers, Writes(h)
      PROVE  /\ \A b \in Batches, t \in Tables : copies[b][t] <= copies'[b][t]
             /\ \A b \in Batches, t \in Tables : copies[b][t] \in Nat /\ copies'[b][t] \in Nat
             /\ services \subseteq services'
  <2>1. \A b \in Batches, t \in Tables : copies[b][t] \in Nat
    BY DEF TypeOK
  <2>2. \A b \in Batches, t \in Tables : copies'[b][t] \in Nat
    BY <1>2, WriteAdds
  <2>3. \A b \in Batches, t \in Tables : copies[b][t] <= copies'[b][t]
    <3> SUFFICES ASSUME NEW b \in Batches, NEW t \in Tables PROVE copies[b][t] <= copies'[b][t]
      OBVIOUS
    <3>1. copies'[b][t] = copies[b][t] \/ copies'[b][t] = copies[b][t] + 1
      BY <1>2, WriteAdds
    <3> QED
      BY <2>1, <3>1
  <2>4. services \subseteq services'
    BY <1>2 DEF Writes
  <2> QED
    BY <2>1, <2>2, <2>3, <2>4
<1> QED
  BY <1>1, <1>2, WritesOrNot

LEMMA WrittenStays ==
  ASSUME TypeOK, [Next]_vars
  PROVE  \A b \in Batches : \A n \in 0..Len(Content[b]) :
           WrittenTo(b, n) =>
             \A i \in 1..n : /\ copies'[b][Content[b][i]] > 0
                             /\ Content[b][i] = "spans" => b \in services'
<1> SUFFICES ASSUME NEW b \in Batches, NEW n \in 0..Len(Content[b]), WrittenTo(b, n),
                    NEW i \in 1..n
             PROVE  /\ copies'[b][Content[b][i]] > 0
                    /\ Content[b][i] = "spans" => b \in services'
  OBVIOUS
<1>1. i \in 1..Len(Content[b]) /\ Content[b][i] \in Tables
  BY ContentFacts
<1>2. copies[b][Content[b][i]] > 0 /\ (Content[b][i] = "spans" => b \in services)
  BY DEF WrittenTo
<1>3. /\ copies[b][Content[b][i]] <= copies'[b][Content[b][i]]
      /\ copies[b][Content[b][i]] \in Nat /\ copies'[b][Content[b][i]] \in Nat
      /\ services \subseteq services'
  BY <1>1, RowsStay
<1> QED
  BY <1>2, <1>3

\* A handler that a step leaves alone stays on track.
LEMMA TrackFrame ==
  ASSUME TypeOK, [Next]_vars, NEW g \in Handlers, OnTrack(g),
         pc'[g] = pc[g], job'[g] = job[g], step'[g] = step[g], outcome'[g] = outcome[g]
  PROVE  OnTrack(g)'
<1>1. job[g] \in Batches /\ Len(Content[job[g]]) \in Nat
  BY ContentFacts DEF TypeOK
<1>2. pc'[g] = "insert" => WrittenTo(job[g], step[g] - 1)'
  <2> SUFFICES ASSUME pc[g] = "insert" PROVE WrittenTo(job[g], step[g] - 1)'
    OBVIOUS
  <2>1. step[g] \in 1..Len(Content[job[g]])
    BY CurrentTable
  <2>2. step[g] - 1 \in 0..Len(Content[job[g]])
    BY <1>1, <2>1
  <2>3. WrittenTo(job[g], step[g] - 1)
    BY DEF OnTrack
  <2> QED
    BY <1>1, <2>2, <2>3, WrittenStays DEF WrittenTo
<1>3. pc'[g] = "publish" \/ (pc'[g] = "respond" /\ outcome'[g] = "ok") => Written(job[g])'
  <2> SUFFICES ASSUME Written(job[g]) PROVE Written(job[g])'
    BY DEF OnTrack
  <2>1. Len(Content[job[g]]) \in 0..Len(Content[job[g]])
    BY <1>1
  <2>2. \A i \in 1..Len(Content[job[g]]) :
          /\ copies'[job[g]][Content[job[g]][i]] > 0
          /\ Content[job[g]][i] = "spans" => job[g] \in services'
    BY <1>1, <2>1, WrittenStays DEF Written
  <2> QED
    BY <2>2 DEF Written, WrittenTo
<1> QED
  BY <1>2, <1>3 DEF OnTrack

LEMMA TrackAfterInsert ==
  ASSUME TypeOK, [Next]_vars, NEW h \in Handlers, OnTrack(h), InsertOk(h)
  PROVE  OnTrack(h)'
<1>1. pc[h] = "insert" /\ job'[h] = job[h] /\ Writes(h)
  BY DEF InsertOk, Writes
<1>2. /\ job[h] \in Batches /\ step[h] \in 1..Len(Content[job[h]])
      /\ Content[job[h]][step[h]] \in Tables /\ Len(Content[job[h]]) \in Nat
  BY <1>1, CurrentTable, ContentFacts
<1>3. \A i \in 1..step[h] : /\ copies'[job[h]][Content[job[h]][i]] > 0
                            /\ Content[job[h]][i] = "spans" => job[h] \in services'
  <2> SUFFICES ASSUME NEW i \in 1..step[h]
               PROVE  /\ copies'[job[h]][Content[job[h]][i]] > 0
                      /\ Content[job[h]][i] = "spans" => job[h] \in services'
    OBVIOUS
  <2>1. CASE i < step[h]
    <3>1. WrittenTo(job[h], step[h] - 1)
      BY <1>1 DEF OnTrack
    <3>2. step[h] - 1 \in 0..Len(Content[job[h]]) /\ i \in 1..(step[h] - 1)
      BY <1>2, <2>1
    <3> QED
      BY <1>2, <3>1, <3>2, WrittenStays
  <2>2. CASE i = step[h]
    <3>1. copies[job[h]][Content[job[h]][i]] \in Nat
      BY <1>2, <2>2, RowsStay
    <3>2. copies'[job[h]][Content[job[h]][i]] = copies[job[h]][Content[job[h]][i]] + 1
      BY <1>1, <2>2, WriteAdds
    <3>3. Content[job[h]][i] = "spans" => job[h] \in services'
      BY <2>2 DEF InsertOk
    <3> QED
      BY <3>1, <3>2, <3>3
  <2> QED
    BY <1>2, <2>1, <2>2
<1>4. CASE step[h] < Len(Content[job[h]])
  <2>1. step' = [step EXCEPT ![h] = step[h] + 1] /\ pc' = pc
    BY <1>4 DEF InsertOk
  <2>2. step'[h] - 1 = step[h] /\ pc'[h] = "insert"
    BY <1>1, <1>2, <2>1, TypeParts DEF HandlerTypes
  <2> QED
    BY <1>1, <1>3, <2>2 DEF OnTrack, WrittenTo
<1>5. CASE ~(step[h] < Len(Content[job[h]]))
  <2>1. step[h] = Len(Content[job[h]]) /\ pc'[h] = "publish"
    BY <1>2, <1>5, TypeParts DEF InsertOk, HandlerTypes
  <2> QED
    BY <1>1, <1>3, <2>1 DEF OnTrack, Written, WrittenTo
<1> QED
  BY <1>4, <1>5

LEMMA TrackStep ==
  ASSUME TypeOK, HandlersOnTrack, [Next]_vars
  PROVE  HandlersOnTrack'
<1> SUFFICES ASSUME NEW g \in Handlers PROVE OnTrack(g)'
  BY DEF HandlersOnTrack
<1>1. OnTrack(g)
  BY DEF HandlersOnTrack
<1>2. CASE pc'[g] = pc[g] /\ job'[g] = job[g] /\ step'[g] = step[g] /\ outcome'[g] = outcome[g]
  BY <1>1, <1>2, TrackFrame
<1>3. ASSUME NEW h \in Handlers, NEW b \in Batches, Send(b, h) PROVE OnTrack(g)'
  <2>1. CASE g # h
    BY <1>2, <1>3, <2>1 DEF Send, TypeOK
  <2>2. CASE g = h
    <3>1. job'[g] = b /\ step'[g] = 1
      BY <1>3, <2>2 DEF Send, TypeOK
    <3>2. WrittenTo(b, 0)' /\ step'[g] - 1 = 0
      BY <3>1 DEF WrittenTo
    <3>3. CASE pc'[g] = "insert"
      BY <3>1, <3>2, <3>3 DEF OnTrack
    <3>4. CASE pc'[g] = "publish" /\ Content[b] = <<>>
      <4>1. Len(Content[b]) = 0
        BY <3>4
      <4> QED
        BY <3>1, <3>4, <4>1 DEF OnTrack, Written, WrittenTo
    <3>5. CASE pc'[g] = "respond" /\ outcome'[g] = "refused"
      BY <3>5 DEF OnTrack
    <3> QED
      BY <1>3, <2>2, <3>3, <3>4, <3>5 DEF Send, TypeOK
  <2> QED
    BY <2>1, <2>2
<1>4. ASSUME NEW h \in Handlers, GiveUp(h) \/ Publish(h) PROVE OnTrack(g)'
  BY <1>2, <1>4 DEF GiveUp, Publish
<1>5. ASSUME NEW h \in Handlers, InsertOk(h) PROVE OnTrack(g)'
  <2>1. CASE g # h
    BY <1>2, <1>5, <2>1 DEF InsertOk, TypeOK
  <2> QED
    BY <1>1, <1>5, <2>1, TrackAfterInsert
<1>6. ASSUME NEW h \in Handlers, InsertFails(h) \/ InsertLost(h) PROVE OnTrack(g)'
  <2>1. CASE g # h
    BY <1>2, <1>6, <2>1 DEF InsertFails, InsertLost, Answer, TypeOK
  <2>2. CASE g = h
    BY <1>6, <2>2 DEF InsertFails, InsertLost, Answer, OnTrack, TypeOK
  <2> QED
    BY <2>1, <2>2
<1>7. ASSUME NEW h \in Handlers, WriteDone(h) PROVE OnTrack(g)'
  <2>1. CASE g # h
    BY <1>2, <1>7, <2>1 DEF WriteDone, Answer, TypeOK
  <2>2. CASE g = h
    <3>1. Written(job[g]) /\ UNCHANGED storeVars /\ job'[g] = job[g] /\ pc'[g] = "respond"
      BY <1>1, <1>7, <2>2 DEF WriteDone, Answer, OnTrack, TypeOK
    <3> QED
      BY <3>1 DEF OnTrack, Written, WrittenTo, storeVars
  <2> QED
    BY <2>1, <2>2
<1>8. ASSUME NEW h \in Handlers, Respond(h) PROVE OnTrack(g)'
  <2>1. CASE g # h
    BY <1>2, <1>8, <2>1 DEF Respond, TypeOK
  <2>2. CASE g = h
    BY <1>8, <2>2 DEF Respond, OnTrack, TypeOK
  <2> QED
    BY <2>1, <2>2
<1>9. CASE Crash
  BY <1>9 DEF Crash, OnTrack
<1>10. ASSUME NEW r \in Readers,
              \/ \E b \in Batches : StartRead(r, TraceOf[b])
              \/ SelectSpans(r) \/ SelectEvents(r) \/ SelectLinks(r) \/ ReadFails(r)
       PROVE  OnTrack(g)'
  BY <1>2, <1>10 DEF StartRead, SelectSpans, SelectEvents, SelectLinks, ReadFails, ReadStep,
                     handlerVars
<1>11. CASE UNCHANGED vars
  BY <1>2, <1>11 DEF vars, handlerVars
<1> QED
  BY <1>3, <1>4, <1>5, <1>6, <1>7, <1>8, <1>9, <1>10, <1>11 DEF Next, HandlerStep

LEMMA AckedStep ==
  ASSUME TypeOK, HandlersOnTrack, AckedIsWritten, [Next]_vars
  PROVE  AckedIsWritten'
<1>1. ASSUME NEW b \in Batches, Written(b) PROVE Written(b)'
  <2>1. Len(Content[b]) \in 0..Len(Content[b])
    BY ContentFacts
  <2>2. \A i \in 1..Len(Content[b]) :
          /\ copies'[b][Content[b][i]] > 0
          /\ Content[b][i] = "spans" => b \in services'
    BY <1>1, <2>1, WrittenStays DEF Written
  <2> QED
    BY <2>2 DEF Written, WrittenTo
<1> DEFINE Earned ==
      /\ \A c \in Batches : exporter'[c] = "acked" => exporter[c] = "acked" \/ Written(c)
      /\ \A c \in live' : c \in live \/ Written(c)
<1>2. ASSUME Earned, NEW b \in Batches, exporter'[b] = "acked" \/ b \in live'
      PROVE  Written(b)
  BY <1>2 DEF AckedIsWritten
<1>3. Earned
  <2> USE TypeParts DEF StoreTypes, HandlerTypes
  <2>1. ASSUME NEW h \in Handlers, NEW b \in Batches, Send(b, h) PROVE Earned
    BY <2>1 DEF Send
  <2>2. ASSUME NEW h \in Handlers, GiveUp(h) PROVE Earned
    BY <2>2 DEF GiveUp
  <2>3. ASSUME NEW h \in Handlers, InsertOk(h) \/ InsertFails(h) \/ InsertLost(h) \/ WriteDone(h)
        PROVE Earned
    BY <2>3 DEF InsertOk, InsertFails, InsertLost, WriteDone, exporterVars
  <2>4. ASSUME NEW h \in Handlers, Publish(h) PROVE Earned
    <3>1. Written(job[h])
      BY <2>4 DEF Publish, HandlersOnTrack, OnTrack
    <3> QED
      BY <2>4, <3>1 DEF Publish, exporterVars
  <2>5. ASSUME NEW h \in Handlers, Respond(h) PROVE Earned
    <3>1. outcome[h] = "ok" => Written(job[h])
      BY <2>5 DEF Respond, HandlersOnTrack, OnTrack
    <3>2. Verdict(outcome[h]) = "acked" => outcome[h] = "ok"
      BY DEF Verdict
    <3>3. \A c \in Batches : c # job[h] => exporter'[c] = exporter[c]
      BY <2>5 DEF Respond
    <3>4. exporter'[job[h]] = "acked" => exporter[job[h]] = "acked" \/ Written(job[h])
      BY <2>5, <3>1, <3>2 DEF Respond
    <3> QED
      BY <2>5, <3>3, <3>4 DEF Respond
  <2>6. CASE Crash
    BY <2>6 DEF Crash
  <2>7. ASSUME NEW r \in Readers,
               \/ \E b \in Batches : StartRead(r, TraceOf[b])
               \/ SelectSpans(r) \/ SelectEvents(r) \/ SelectLinks(r) \/ ReadFails(r)
        PROVE  Earned
    BY <2>7 DEF StartRead, SelectSpans, SelectEvents, SelectLinks, ReadFails, ReadStep,
                exporterVars
  <2>8. CASE UNCHANGED vars
    BY <2>8 DEF vars, exporterVars
  <2> QED
    BY <2>1, <2>2, <2>3, <2>4, <2>5, <2>6, <2>7, <2>8 DEF Next, HandlerStep
<1>4. \A b \in Batches : exporter'[b] = "acked" \/ b \in live' => Written(b)
  BY <1>2, <1>3
<1> QED
  BY <1>1, <1>4 DEF AckedIsWritten

LEMMA WriteInvHolds == Spec => []WriteInv
<1>1. Init => WriteInv
  <2> SUFFICES ASSUME Init PROVE WriteInv
    OBVIOUS
  <2>1. HandlersOnTrack /\ AckedIsWritten
    BY DEF Init, HandlersOnTrack, OnTrack, AckedIsWritten
  <2> QED
    BY <2>1, IngestTypeInit DEF WriteInv
<1>2. WriteInv /\ [Next]_vars => WriteInv'
  BY IngestTypeStep, TrackStep, AckedStep DEF WriteInv
<1> QED
  BY <1>1, <1>2, PTL DEF Spec

-----------------------------------------------------------------------------
(* What a reader has read *)

\* What a reader knew when it began is stored; it has read, table by table, all
\* of it.
KnownIsStored == \A r \in Readers : \A b \in known[r] : Stored(b) /\ TraceOf[b] = target[r]

SeenAll(r, t) == \A b \in known[r] : t \in Parts(b) => b \in seen[r][t]
Complete(r) ==
  /\ rpc[r] \in {"span_events", "span_links", "done"} => SeenAll(r, "spans")
  /\ rpc[r] \in {"span_links", "done"} => SeenAll(r, "span_events")
  /\ rpc[r] = "done" => SeenAll(r, "span_links")
  /\ rpc[r] = "not found" => \A b \in known[r] : "spans" \notin Parts(b)
ReadsAreComplete == \A r \in Readers : Complete(r)

ReadInv == WriteInv /\ KnownIsStored /\ ReadsAreComplete

LEMMA WrittenIsStored ==
  ASSUME NEW b \in Batches, Written(b)
  PROVE  Stored(b) /\ ("spans" \in Parts(b) => b \in services)
  BY ContentFacts DEF Written, WrittenTo, Stored, Parts

LEMMA StoredStays ==
  ASSUME TypeOK, [Next]_vars, NEW b \in Batches, Stored(b)
  PROVE  Stored(b)'
<1> SUFFICES ASSUME NEW t \in Parts(b) PROVE copies'[b][t] > 0
  BY DEF Stored, Parts
<1>1. t \in Tables
  BY ContentFacts DEF Parts
<1>2. copies[b][t] > 0
  BY DEF Stored
<1>3. copies[b][t] <= copies'[b][t] /\ copies[b][t] \in Nat /\ copies'[b][t] \in Nat
  BY <1>1, RowsStay
<1> QED
  BY <1>2, <1>3

\* A step leaves a reader alone, begins a read, does a SELECT or ends the read.
LEMMA ReaderCases ==
  ASSUME TypeOK, [Next]_vars, NEW r \in Readers
  PROVE  \/ UNCHANGED <<rpc[r], target[r], known[r], seen[r]>>
         \/ \E b \in Batches : StartRead(r, TraceOf[b])
         \/ SelectSpans(r) \/ SelectEvents(r) \/ SelectLinks(r)
         \/ rpc'[r] = "failed" /\ UNCHANGED <<target[r], known[r], seen[r]>>
<1> USE TypeParts DEF ReaderTypes
<1>1. ASSUME NEW h \in Handlers,
             GiveUp(h) \/ HandlerStep(h) \/ (\E b \in Batches : Send(b, h))
      PROVE  UNCHANGED readerVars
  BY <1>1 DEF GiveUp, HandlerStep, Send, InsertOk, InsertFails, InsertLost, Publish, WriteDone,
              Respond
<1>2. CASE UNCHANGED vars \/ UNCHANGED readerVars
  BY <1>2 DEF vars, readerVars
<1>3. CASE Crash
  BY <1>3 DEF Crash
<1>4. ASSUME NEW q \in Readers, q # r,
             \/ \E b \in Batches : StartRead(q, TraceOf[b])
             \/ SelectSpans(q) \/ SelectEvents(q) \/ SelectLinks(q) \/ ReadFails(q)
      PROVE  UNCHANGED <<rpc[r], target[r], known[r], seen[r]>>
  BY <1>4 DEF StartRead, SelectSpans, SelectEvents, SelectLinks, ReadStep, ReadFails
<1>5. CASE ReadFails(r)
  BY <1>5 DEF ReadFails
<1> QED
  BY <1>1, <1>2, <1>3, <1>4, <1>5 DEF Next

LEMMA KnownStep ==
  ASSUME TypeOK, AckedIsWritten, KnownIsStored, [Next]_vars
  PROVE  KnownIsStored'
<1> SUFFICES ASSUME NEW r \in Readers, NEW b \in known'[r]
             PROVE  Stored(b)' /\ TraceOf[b] = target'[r]
  BY DEF KnownIsStored
<1>1. CASE b \in known[r] /\ target'[r] = target[r]
  <2>1. b \in Batches /\ Stored(b) /\ TraceOf[b] = target[r]
    BY <1>1, TypeParts DEF KnownIsStored, ReaderTypes
  <2> QED
    BY <1>1, <2>1, StoredStays
<1>2. ASSUME NEW c \in Batches, StartRead(r, TraceOf[c])
      PROVE  Stored(b)' /\ TraceOf[b] = target'[r]
  <2>1. target'[r] = TraceOf[c] /\ b \in Batches /\ TraceOf[b] = TraceOf[c]
    BY <1>2, TypeParts DEF StartRead, ReaderTypes
  <2>2. exporter[b] = "acked" \/ b \in live
    BY <1>2, TypeParts DEF StartRead, ReaderTypes
  <2>3. Stored(b)
    BY <2>1, <2>2, WrittenIsStored DEF AckedIsWritten
  <2> QED
    BY <2>1, <2>3, StoredStays
<1>3. CASE SelectSpans(r) \/ SelectEvents(r) \/ SelectLinks(r)
  BY <1>1, <1>3 DEF SelectSpans, SelectEvents, SelectLinks, ReadStep
<1> QED
  BY <1>1, <1>2, <1>3, ReaderCases

\* One SELECT returns all of the table that was known.
LEMMA SelectIsComplete ==
  ASSUME TypeOK, KnownIsStored, NEW r \in Readers, NEW t \in Tables, NEW b \in known[r],
         t \in Parts(b)
  PROVE  b \in Select(r, t)
<1>1. b \in Batches /\ Stored(b) /\ TraceOf[b] = target[r]
  BY TypeParts DEF KnownIsStored, ReaderTypes
<1> QED
  BY <1>1 DEF Select, Stored

LEMMA CompleteStep ==
  ASSUME TypeOK, KnownIsStored, ReadsAreComplete, [Next]_vars
  PROVE  ReadsAreComplete'
<1> SUFFICES ASSUME NEW r \in Readers PROVE Complete(r)'
  BY DEF ReadsAreComplete
<1> DEFINE Known(t) == \A b \in known[r] : t \in Parts(b) => b \in Select(r, t)
<1>1. Complete(r) /\ Known("spans") /\ Known("span_events") /\ Known("span_links")
  BY SelectIsComplete DEF ReadsAreComplete, Tables
<1>2. ASSUME NEW t \in Tables, NEW then, ReadStep(r, t, then)
      PROVE  /\ rpc[r] = t /\ rpc'[r] = then /\ known'[r] = known[r]
             /\ seen'[r][t] = Select(r, t)
             /\ \A u \in Tables : u # t => seen'[r][u] = seen[r][u]
  BY <1>2, TypeParts DEF ReadStep, ReaderTypes
<1>3. CASE UNCHANGED <<rpc[r], target[r], known[r], seen[r]>>
  BY <1>1, <1>3 DEF Complete, SeenAll
<1>4. ASSUME NEW b \in Batches, StartRead(r, TraceOf[b]) PROVE Complete(r)'
  <2>1. rpc'[r] = "spans"
    BY <1>4, TypeParts DEF StartRead, ReaderTypes
  <2> QED
    BY <2>1 DEF Complete
<1>5. CASE SelectSpans(r)
  <2>1. CASE Select(r, "spans") # {} /\ ReadStep(r, "spans", "span_events")
    <3>1. rpc'[r] = "span_events" /\ known'[r] = known[r] /\ seen'[r]["spans"] = Select(r, "spans")
      BY <1>2, <2>1 DEF Tables
    <3> QED
      BY <1>1, <3>1 DEF Complete, SeenAll
  <2>2. CASE Select(r, "spans") = {} /\ ReadStep(r, "spans", "not found")
    <3>1. rpc'[r] = "not found" /\ known'[r] = known[r]
      BY <1>2, <2>2 DEF Tables
    <3> QED
      BY <1>1, <2>2, <3>1 DEF Complete
  <2> QED
    BY <1>5, <2>1, <2>2 DEF SelectSpans
<1>6. CASE SelectEvents(r)
  <2>1. /\ rpc[r] = "span_events" /\ rpc'[r] = "span_links" /\ known'[r] = known[r]
        /\ seen'[r]["span_events"] = Select(r, "span_events")
        /\ seen'[r]["spans"] = seen[r]["spans"]
    BY <1>2, <1>6 DEF SelectEvents, Tables
  <2> QED
    BY <1>1, <2>1 DEF Complete, SeenAll
<1>7. CASE SelectLinks(r)
  <2>1. /\ rpc[r] = "span_links" /\ rpc'[r] = "done" /\ known'[r] = known[r]
        /\ seen'[r]["span_links"] = Select(r, "span_links")
        /\ seen'[r]["spans"] = seen[r]["spans"]
        /\ seen'[r]["span_events"] = seen[r]["span_events"]
    BY <1>2, <1>7 DEF SelectLinks, Tables
  <2> QED
    BY <1>1, <2>1 DEF Complete, SeenAll
<1>8. CASE rpc'[r] = "failed"
  BY <1>8 DEF Complete
<1> QED
  BY <1>3, <1>4, <1>5, <1>6, <1>7, <1>8, ReaderCases

LEMMA ReadInvHolds == Spec => []ReadInv
<1>1. Init => KnownIsStored /\ ReadsAreComplete
  BY DEF Init, KnownIsStored, ReadsAreComplete, Complete
<1>2. WriteInv /\ KnownIsStored /\ ReadsAreComplete /\ [Next]_vars
        => KnownIsStored' /\ ReadsAreComplete'
  BY KnownStep, CompleteStep DEF WriteInv
<1> QED
  BY <1>1, <1>2, WriteInvHolds, PTL DEF Spec, ReadInv

-----------------------------------------------------------------------------
(* Copies against sends *)

\* The handlers that have table i of b still to insert, and those that are at it.
Coming(b, i) == {h \in Handlers : pc[h] = "insert" /\ job[h] = b /\ step[h] <= i}
At(b, i) == {h \in Handlers : pc[h] = "insert" /\ job[h] = b /\ step[h] = i}

\* Each copy, and each insert to come, has a send of its own; and where a table
\* has a copy or is about to get one, the table before it has one too.
Paid(b) ==
  /\ \A i \in 1..Len(Content[b]) :
       copies[b][Content[b][i]] + Cardinality(Coming(b, i)) <= attempts[b]
  /\ \A i \in 1..(Len(Content[b]) - 1) :
       copies[b][Content[b][i + 1]] + Cardinality(At(b, i + 1)) <= copies[b][Content[b][i]]
Untouched(b) ==
  /\ \A t \in Tables \ Parts(b) : copies[b][t] = 0
  /\ b \in Oversized => \A t \in Tables : copies[b][t] = 0
RefusedIsOversized ==
  /\ \A b \in Batches : exporter[b] = "refused" => b \in Oversized
  /\ \A h \in Handlers : /\ pc[h] = "insert" => job[h] \notin Oversized
                         /\ pc[h] = "respond" /\ outcome[h] = "refused" => job[h] \in Oversized

CopyInv ==
  /\ TypeOK
  /\ RefusedIsOversized
  /\ \A b \in Batches : Paid(b) /\ Untouched(b)

LEMMA CountingHandlers ==
  ASSUME NEW S \in SUBSET Handlers, NEW T \in SUBSET Handlers
  PROVE  /\ Cardinality(S) \in Nat /\ Cardinality(T) \in Nat
         /\ T \subseteq S => Cardinality(T) <= Cardinality(S)
         /\ \A h \in Handlers : T \subseteq S \cup {h} => Cardinality(T) <= Cardinality(S) + 1
         /\ \A h \in S : T \subseteq S \ {h} => Cardinality(T) + 1 <= Cardinality(S)
<1>1. IsFiniteSet(S) /\ IsFiniteSet(T)
  BY HandlersAssumption, FS_Subset
<1>2. Cardinality(S) \in Nat /\ Cardinality(T) \in Nat
  BY <1>1, FS_CardinalityType
<1>3. T \subseteq S => Cardinality(T) <= Cardinality(S)
  BY <1>1, FS_Subset
<1>4. ASSUME NEW h \in Handlers, T \subseteq S \cup {h}
      PROVE  Cardinality(T) <= Cardinality(S) + 1
  <2>1. /\ IsFiniteSet(S \cup {h})
        /\ Cardinality(S \cup {h}) = IF h \in S THEN Cardinality(S) ELSE Cardinality(S) + 1
    BY <1>1, FS_AddElement
  <2>2. Cardinality(T) <= Cardinality(S \cup {h})
    BY <1>4, <2>1, FS_Subset
  <2> QED
    BY <1>2, <2>1, <2>2
<1>5. ASSUME NEW h \in S, T \subseteq S \ {h}
      PROVE  Cardinality(T) + 1 <= Cardinality(S)
  <2>1. /\ IsFiniteSet(S \ {h})
        /\ Cardinality(S \ {h}) = Cardinality(S) - 1
    BY <1>1, FS_RemoveElement
  <2>2. Cardinality(T) <= Cardinality(S \ {h})
    BY <1>5, <2>1, FS_Subset
  <2> QED
    BY <1>2, <2>1, <2>2
<1> QED
  BY <1>2, <1>3, <1>4, <1>5

\* A step that sends nothing and writes nothing takes work from handlers at most.
LEMMA PaidQuiet ==
  ASSUME TypeOK, NEW b \in Batches, Paid(b),
         UNCHANGED copies, attempts[b] <= attempts'[b], attempts'[b] \in Nat,
         \A h \in Handlers : pc'[h] = "insert" =>
           pc[h] = "insert" /\ job'[h] = job[h] /\ step'[h] = step[h]
  PROVE  Paid(b)'
<1>1. \A i \in 1..Len(Content[b]) : /\ Content[b][i] \in Tables
                                    /\ copies[b][Content[b][i]] \in Nat
  BY ContentFacts, TypeParts DEF StoreTypes
<1>2. attempts[b] \in Nat /\ Len(Content[b]) \in Nat
  BY ContentFacts, TypeParts DEF StoreTypes
<1>3. ASSUME NEW i \in Nat
      PROVE  /\ Cardinality(Coming(b, i)') <= Cardinality(Coming(b, i))
             /\ Cardinality(At(b, i)') <= Cardinality(At(b, i))
             /\ Cardinality(Coming(b, i)') \in Nat /\ Cardinality(Coming(b, i)) \in Nat
             /\ Cardinality(At(b, i)') \in Nat /\ Cardinality(At(b, i)) \in Nat
  <2>1. /\ Coming(b, i)' \subseteq Coming(b, i) /\ At(b, i)' \subseteq At(b, i)
        /\ Coming(b, i) \in SUBSET Handlers /\ Coming(b, i)' \in SUBSET Handlers
        /\ At(b, i) \in SUBSET Handlers /\ At(b, i)' \in SUBSET Handlers
    BY DEF Coming, At
  <2> QED
    BY <2>1, CountingHandlers
<1>4. ASSUME NEW i \in 1..Len(Content[b])
      PROVE  copies'[b][Content[b][i]] + Cardinality(Coming(b, i)') <= attempts'[b]
  <2>1. copies[b][Content[b][i]] + Cardinality(Coming(b, i)) <= attempts[b]
    BY DEF Paid
  <2>2. /\ Cardinality(Coming(b, i)') <= Cardinality(Coming(b, i))
        /\ Cardinality(Coming(b, i)') \in Nat /\ Cardinality(Coming(b, i)) \in Nat
    BY <1>2, <1>3
  <2>3. copies'[b][Content[b][i]] = copies[b][Content[b][i]] /\ copies[b][Content[b][i]] \in Nat
    BY <1>1
  <2> QED
    BY <1>2, <2>1, <2>2, <2>3, SMTT(30)
<1>5. ASSUME NEW i \in 1..(Len(Content[b]) - 1)
      PROVE  copies'[b][Content[b][i + 1]] + Cardinality(At(b, i + 1)') <= copies'[b][Content[b][i]]
  <2>1. copies[b][Content[b][i + 1]] + Cardinality(At(b, i + 1)) <= copies[b][Content[b][i]]
    BY DEF Paid
  <2>2. i + 1 \in Nat /\ i + 1 \in 1..Len(Content[b]) /\ i \in 1..Len(Content[b])
    BY <1>2
  <2>3. /\ Cardinality(At(b, i + 1)') <= Cardinality(At(b, i + 1))
        /\ Cardinality(At(b, i + 1)') \in Nat /\ Cardinality(At(b, i + 1)) \in Nat
    BY <1>3, <2>2
  <2>4. /\ copies'[b][Content[b][i]] = copies[b][Content[b][i]]
        /\ copies'[b][Content[b][i + 1]] = copies[b][Content[b][i + 1]]
        /\ copies[b][Content[b][i]] \in Nat /\ copies[b][Content[b][i + 1]] \in Nat
    BY <1>1, <2>2
  <2> QED
    BY <2>1, <2>3, <2>4, SMTT(30)
<1> QED
  BY <1>4, <1>5 DEF Paid

\* A send pays for one more copy of every table.
LEMMA PaidSend ==
  ASSUME TypeOK, NEW b \in Batches, Paid(b), NEW h \in Handlers, NEW c \in Batches, Send(c, h)
  PROVE  Paid(b)'
<1>1. \A g \in Handlers : pc'[g] = "insert" =>
        \/ pc[g] = "insert" /\ job'[g] = job[g] /\ step'[g] = step[g]
        \/ g = h /\ job'[g] = c /\ step'[g] = 1
  BY TypeParts DEF Send, HandlerTypes
<1>2. /\ UNCHANGED copies
      /\ b = c => attempts'[b] = attempts[b] + 1
      /\ b # c => attempts'[b] = attempts[b]
      /\ attempts[b] \in Nat
  BY TypeParts DEF Send, StoreTypes, storeVars
<1>3. \A i \in 1..Len(Content[b]) : /\ Content[b][i] \in Tables
                                    /\ copies[b][Content[b][i]] \in Nat
  BY ContentFacts, TypeParts, SMTT(30) DEF StoreTypes
<1>4. Len(Content[b]) \in Nat
  BY ContentFacts
<1>5. ASSUME NEW i \in Nat
      PROVE  /\ Coming(b, i) \in SUBSET Handlers /\ Coming(b, i)' \in SUBSET Handlers
             /\ At(b, i) \in SUBSET Handlers /\ At(b, i)' \in SUBSET Handlers
             /\ Coming(b, i)' \subseteq Coming(b, i) \cup {h}
             /\ b # c => Coming(b, i)' \subseteq Coming(b, i)
             /\ i # 1 => At(b, i)' \subseteq At(b, i)
  BY <1>1 DEF Coming, At
<1>6. ASSUME NEW i \in 1..Len(Content[b])
      PROVE  copies'[b][Content[b][i]] + Cardinality(Coming(b, i)') <= attempts'[b]
  <2>1. copies[b][Content[b][i]] + Cardinality(Coming(b, i)) <= attempts[b]
    BY DEF Paid
  <2>2. i \in Nat
    BY <1>4
  <2>3. /\ Cardinality(Coming(b, i)') \in Nat /\ Cardinality(Coming(b, i)) \in Nat
        /\ Cardinality(Coming(b, i)') <= Cardinality(Coming(b, i)) + 1
        /\ b # c => Cardinality(Coming(b, i)') <= Cardinality(Coming(b, i))
    BY <1>5, <2>2, CountingHandlers
  <2>4. copies'[b][Content[b][i]] = copies[b][Content[b][i]] /\ copies[b][Content[b][i]] \in Nat
    BY <1>2, <1>3
  <2>5. CASE b = c
    BY <1>2, <2>1, <2>3, <2>4, <2>5, SMTT(30)
  <2>6. CASE b # c
    <3>1. /\ attempts'[b] = attempts[b] /\ attempts[b] \in Nat
          /\ Cardinality(Coming(b, i)') <= Cardinality(Coming(b, i))
      BY <1>2, <2>3, <2>6
    <3> QED
      BY <2>1, <2>3, <2>4, <3>1, SMTT(30)
  <2> QED
    BY <2>5, <2>6
<1>7. ASSUME NEW i \in 1..(Len(Content[b]) - 1)
      PROVE  copies'[b][Content[b][i + 1]] + Cardinality(At(b, i + 1)') <= copies'[b][Content[b][i]]
  <2>1. copies[b][Content[b][i + 1]] + Cardinality(At(b, i + 1)) <= copies[b][Content[b][i]]
    BY DEF Paid
  <2>2. /\ i + 1 \in Nat /\ i + 1 # 1
        /\ i + 1 \in 1..Len(Content[b]) /\ i \in 1..Len(Content[b])
    BY <1>4
  <2>3. /\ Cardinality(At(b, i + 1)') \in Nat /\ Cardinality(At(b, i + 1)) \in Nat
        /\ Cardinality(At(b, i + 1)') <= Cardinality(At(b, i + 1))
    BY <1>5, <2>2, CountingHandlers
  <2>4. /\ copies'[b][Content[b][i]] = copies[b][Content[b][i]]
        /\ copies'[b][Content[b][i + 1]] = copies[b][Content[b][i + 1]]
        /\ copies[b][Content[b][i]] \in Nat /\ copies[b][Content[b][i + 1]] \in Nat
    BY <1>2, <1>3, <2>2
  <2> QED
    BY <2>1, <2>3, <2>4, SMTT(30)
<1> QED
  BY <1>6, <1>7 DEF Paid

\* An insert turns what was to come into a copy.
LEMMA PaidWrite ==
  ASSUME TypeOK, NEW b \in Batches, Paid(b), NEW h \in Handlers,
         Writes(h), InsertOk(h) \/ InsertLost(h)
  PROVE  Paid(b)'
<1> DEFINE s == step[h]
<1>1. /\ \A g \in Handlers : pc'[g] = "insert" =>
           \/ pc[g] = "insert" /\ job'[g] = job[g] /\ step'[g] = step[g] /\ g # h
           \/ g = h /\ pc[g] = "insert" /\ job'[g] = job[g] /\ step'[g] = s + 1
      /\ pc[h] = "insert" /\ attempts' = attempts
  BY TypeParts DEF InsertOk, InsertLost, Answer, HandlerTypes, exporterVars
<1>2. s \in 1..Len(Content[job[h]]) /\ Content[job[h]][s] \in Tables /\ job[h] \in Batches
  BY <1>1, CurrentTable
<1>3. \A i \in 1..Len(Content[b]) :
        /\ Content[b][i] \in Tables
        /\ copies[b][Content[b][i]] \in Nat
        /\ b = job[h] /\ i = s => copies'[b][Content[b][i]] = copies[b][Content[b][i]] + 1
        /\ b # job[h] \/ i # s => copies'[b][Content[b][i]] = copies[b][Content[b][i]]
  <2> SUFFICES ASSUME NEW i \in 1..Len(Content[b])
               PROVE  /\ Content[b][i] \in Tables
                      /\ copies[b][Content[b][i]] \in Nat
                      /\ b = job[h] /\ i = s =>
                           copies'[b][Content[b][i]] = copies[b][Content[b][i]] + 1
                      /\ b # job[h] \/ i # s =>
                           copies'[b][Content[b][i]] = copies[b][Content[b][i]]
    OBVIOUS
  <2>1. Content[b][i] \in Tables /\ copies[b][Content[b][i]] \in Nat
    BY ContentFacts, TypeParts DEF StoreTypes
  <2>2. b = job[h] /\ i # s => Content[b][i] # Content[job[h]][s]
    BY <1>2, ContentFacts
  <2> QED
    BY <2>1, <2>2, WriteAdds
<1>4. Len(Content[b]) \in Nat /\ attempts[b] \in Nat /\ s \in Nat
  BY <1>2, ContentFacts, TypeParts DEF StoreTypes, HandlerTypes
<1>5. ASSUME NEW i \in Nat
      PROVE  /\ Coming(b, i) \in SUBSET Handlers /\ Coming(b, i)' \in SUBSET Handlers
             /\ At(b, i) \in SUBSET Handlers /\ At(b, i)' \in SUBSET Handlers
             /\ Coming(b, i)' \subseteq Coming(b, i)
             /\ b = job[h] /\ i = s => h \in Coming(b, i) /\ Coming(b, i)' \subseteq Coming(b, i) \ {h}
             /\ b = job[h] /\ i = s => h \in At(b, i) /\ At(b, i)' \subseteq At(b, i) \ {h}
             /\ At(b, i)' \subseteq At(b, i) \cup {h}
             /\ b # job[h] \/ i # s + 1 => At(b, i)' \subseteq At(b, i)
  BY <1>1, <1>4, TypeParts DEF Coming, At, HandlerTypes
<1>6. ASSUME NEW i \in 1..Len(Content[b])
      PROVE  copies'[b][Content[b][i]] + Cardinality(Coming(b, i)') <= attempts'[b]
  <2>1. copies[b][Content[b][i]] + Cardinality(Coming(b, i)) <= attempts[b]
    BY DEF Paid
  <2>2. i \in Nat
    BY <1>4
  <2>3. /\ Cardinality(Coming(b, i)') \in Nat /\ Cardinality(Coming(b, i)) \in Nat
        /\ Cardinality(Coming(b, i)') <= Cardinality(Coming(b, i))
        /\ b = job[h] /\ i = s => Cardinality(Coming(b, i)') + 1 <= Cardinality(Coming(b, i))
    BY <1>5, <2>2, CountingHandlers
  <2>4. attempts'[b] = attempts[b]
    BY <1>1
  <2>5. copies[b][Content[b][i]] \in Nat
    BY <1>3
  <2>6. CASE b = job[h] /\ i = s
    <3>1. copies'[b][Content[b][i]] = copies[b][Content[b][i]] + 1
      BY <1>3, <2>6
    <3> QED
      BY <1>4, <2>1, <2>3, <2>4, <2>5, <2>6, <3>1, SMTT(30)
  <2>7. CASE ~(b = job[h] /\ i = s)
    <3>1. copies'[b][Content[b][i]] = copies[b][Content[b][i]]
      BY <1>3, <2>7
    <3> QED
      BY <1>4, <2>1, <2>3, <2>4, <2>5, <3>1, SMTT(30)
  <2> QED
    BY <2>6, <2>7
<1>7. ASSUME NEW i \in 1..(Len(Content[b]) - 1)
      PROVE  copies'[b][Content[b][i + 1]] + Cardinality(At(b, i + 1)') <= copies'[b][Content[b][i]]
  <2>1. copies[b][Content[b][i + 1]] + Cardinality(At(b, i + 1)) <= copies[b][Content[b][i]]
    BY DEF Paid
  <2>2. i + 1 \in Nat /\ i + 1 \in 1..Len(Content[b]) /\ i \in 1..Len(Content[b])
    BY <1>4
  <2>3. /\ Cardinality(At(b, i + 1)') \in Nat /\ Cardinality(At(b, i + 1)) \in Nat
        /\ Cardinality(At(b, i + 1)') <= Cardinality(At(b, i + 1)) + 1
        /\ b = job[h] /\ i + 1 = s => Cardinality(At(b, i + 1)') + 1 <= Cardinality(At(b, i + 1))
        /\ b # job[h] \/ i # s => Cardinality(At(b, i + 1)') <= Cardinality(At(b, i + 1))
    <3>1. b # job[h] \/ i # s => b # job[h] \/ i + 1 # s + 1
      BY <1>4, <2>2
    <3> QED
      BY <1>5, <2>2, <3>1, CountingHandlers
  <2>4. copies[b][Content[b][i]] \in Nat /\ copies[b][Content[b][i + 1]] \in Nat
    BY <1>3, <2>2
  <2>5. CASE b = job[h] /\ i = s
    <3>1. /\ copies'[b][Content[b][i]] = copies[b][Content[b][i]] + 1
          /\ copies'[b][Content[b][i + 1]] = copies[b][Content[b][i + 1]]
      <4>1. i \in Nat /\ i + 1 # s
        BY <1>4, <2>5
      <4> QED
        BY <1>3, <2>2, <2>5, <4>1
    <3> QED
      BY <2>1, <2>3, <2>4, <3>1, SMTT(30)
  <2>6. CASE b = job[h] /\ i + 1 = s
    <3>1. /\ copies'[b][Content[b][i]] = copies[b][Content[b][i]]
          /\ copies'[b][Content[b][i + 1]] = copies[b][Content[b][i + 1]] + 1
      <4>1. i \in Nat /\ i # s
        BY <1>4, <2>6
      <4> QED
        BY <1>3, <2>2, <2>6, <4>1
    <3>2. Cardinality(At(b, i + 1)') + 1 <= Cardinality(At(b, i + 1))
      BY <2>3, <2>6
    <3> QED
      BY <2>1, <2>3, <2>4, <3>1, <3>2, SMTT(30)
  <2>7. CASE b # job[h] \/ (i # s /\ i + 1 # s)
    <3>1. /\ copies'[b][Content[b][i]] = copies[b][Content[b][i]]
          /\ copies'[b][Content[b][i + 1]] = copies[b][Content[b][i + 1]]
      BY <1>3, <2>2, <2>7
    <3> QED
      BY <2>1, <2>3, <2>4, <2>7, <3>1, SMTT(30)
  <2> QED
    BY <2>5, <2>6, <2>7
<1> QED
  BY <1>6, <1>7 DEF Paid

LEMMA PaidStep ==
  ASSUME TypeOK, NEW b \in Batches, Paid(b), [Next]_vars
  PROVE  Paid(b)'
<1> DEFINE Quiet ==
      /\ UNCHANGED copies /\ attempts' = attempts
      /\ \A h \in Handlers : pc'[h] = "insert" =>
           pc[h] = "insert" /\ job'[h] = job[h] /\ step'[h] = step[h]
<1>1. CASE Quiet
  <2>1. attempts[b] <= attempts'[b] /\ attempts'[b] \in Nat
    BY <1>1, TypeParts DEF StoreTypes
  <2> QED
    BY <1>1, <2>1, PaidQuiet
<1> USE TypeParts DEF HandlerTypes
<1>2. ASSUME NEW h \in Handlers, NEW c \in Batches, Send(c, h) PROVE Paid(b)'
  BY <1>2, PaidSend
<1>3. ASSUME NEW h \in Handlers, InsertOk(h) \/ InsertLost(h) PROVE Paid(b)'
  <2>1. Writes(h)
    BY <1>3 DEF InsertOk, InsertLost, Writes
  <2> QED
    BY <1>3, <2>1, PaidWrite
<1>4. ASSUME NEW h \in Handlers, GiveUp(h) \/ Publish(h) PROVE Quiet
  BY <1>4 DEF GiveUp, Publish, exporterVars, storeVars
<1>5. ASSUME NEW h \in Handlers, InsertFails(h) \/ WriteDone(h) PROVE Quiet
  BY <1>5 DEF InsertFails, WriteDone, Answer, exporterVars, storeVars
<1>6. ASSUME NEW h \in Handlers, Respond(h) PROVE Quiet
  BY <1>6 DEF Respond, storeVars
<1>7. CASE Crash
  BY <1>1, <1>7 DEF Crash, storeVars
<1>8. ASSUME NEW r \in Readers,
             \/ \E c \in Batches : StartRead(r, TraceOf[c])
             \/ SelectSpans(r) \/ SelectEvents(r) \/ SelectLinks(r) \/ ReadFails(r)
      PROVE  Quiet
  BY <1>8 DEF StartRead, SelectSpans, SelectEvents, SelectLinks, ReadFails, ReadStep,
              exporterVars, storeVars, handlerVars
<1>9. CASE UNCHANGED vars
  BY <1>1, <1>9 DEF vars, exporterVars, storeVars, handlerVars
<1> QED
  BY <1>1, <1>2, <1>3, <1>4, <1>5, <1>6, <1>7, <1>8, <1>9 DEF Next, HandlerStep

LEMMA RefusedStep ==
  ASSUME TypeOK, RefusedIsOversized, [Next]_vars
  PROVE  RefusedIsOversized'
<1> USE TypeParts DEF HandlerTypes, StoreTypes
<1> DEFINE SameBatches ==
      /\ \A b \in Batches : exporter'[b] = "refused" => exporter[b] = "refused"
      /\ \A h \in Handlers : pc'[h] = "insert" => pc[h] = "insert" /\ job'[h] = job[h]
      /\ \A h \in Handlers : pc'[h] = "respond" /\ outcome'[h] = "refused" =>
           pc[h] = "respond" /\ outcome[h] = "refused" /\ job'[h] = job[h]
<1>1. CASE SameBatches
  BY <1>1 DEF RefusedIsOversized
<1>2. ASSUME NEW h \in Handlers, NEW b \in Batches, Send(b, h) PROVE RefusedIsOversized'
  <2>1. \A c \in Batches : exporter'[c] = "refused" => exporter[c] = "refused"
    BY <1>2 DEF Send
  <2>2. \A g \in Handlers : g # h => pc'[g] = pc[g] /\ job'[g] = job[g] /\ outcome'[g] = outcome[g]
    BY <1>2 DEF Send
  <2>3. /\ job'[h] = b
        /\ pc'[h] = "insert" => b \notin Oversized
        /\ pc'[h] = "respond" => b \in Oversized
    BY <1>2 DEF Send
  <2> QED
    BY <2>1, <2>2, <2>3 DEF RefusedIsOversized
<1>3. ASSUME NEW h \in Handlers, GiveUp(h) \/ Publish(h) PROVE SameBatches
  BY <1>3 DEF GiveUp, Publish, exporterVars
<1>4. ASSUME NEW h \in Handlers, InsertOk(h) PROVE SameBatches
  <2>1. pc' = pc \/ pc' = [pc EXCEPT ![h] = "publish"]
    BY <1>4 DEF InsertOk
  <2> QED
    BY <1>4, <2>1 DEF InsertOk, exporterVars
<1>5. ASSUME NEW h \in Handlers, InsertFails(h) \/ InsertLost(h) \/ WriteDone(h) PROVE SameBatches
  BY <1>5 DEF InsertFails, InsertLost, WriteDone, Answer, exporterVars
<1>6. ASSUME NEW h \in Handlers, Respond(h) PROVE RefusedIsOversized'
  <2>1. Verdict(outcome[h]) = "refused" => outcome[h] = "refused"
    BY DEF Verdict
  <2>2. pc[h] = "respond" /\ (outcome[h] = "refused" => job[h] \in Oversized)
    BY <1>6 DEF Respond, RefusedIsOversized
  <2>3. \A b \in Batches : b # job[h] => exporter'[b] = exporter[b]
    BY <1>6 DEF Respond
  <2>4. exporter'[job[h]] = "refused" => exporter[job[h]] = "refused" \/ job[h] \in Oversized
    BY <1>6, <2>1, <2>2 DEF Respond
  <2>5. /\ pc'[h] = "idle"
        /\ \A g \in Handlers : g # h => pc'[g] = pc[g] /\ job'[g] = job[g] /\ outcome'[g] = outcome[g]
    BY <1>6 DEF Respond
  <2> QED
    BY <2>3, <2>4, <2>5 DEF RefusedIsOversized
<1>7. CASE Crash
  BY <1>1, <1>7 DEF Crash
<1>8. ASSUME NEW r \in Readers,
             \/ \E b \in Batches : StartRead(r, TraceOf[b])
             \/ SelectSpans(r) \/ SelectEvents(r) \/ SelectLinks(r) \/ ReadFails(r)
      PROVE  SameBatches
  BY <1>8 DEF StartRead, SelectSpans, SelectEvents, SelectLinks, ReadFails, ReadStep,
              exporterVars, handlerVars
<1>9. CASE UNCHANGED vars
  BY <1>1, <1>9 DEF vars, exporterVars, handlerVars
<1> QED
  BY <1>1, <1>2, <1>3, <1>4, <1>5, <1>6, <1>7, <1>8, <1>9 DEF Next, HandlerStep

LEMMA UntouchedStep ==
  ASSUME TypeOK, RefusedIsOversized, NEW b \in Batches, Untouched(b), [Next]_vars
  PROVE  Untouched(b)'
<1>1. CASE UNCHANGED storeVars
  BY <1>1 DEF Untouched, storeVars, Parts
<1>2. ASSUME NEW h \in Handlers, Writes(h) PROVE Untouched(b)'
  <2>1. job[h] \notin Oversized
    BY <1>2 DEF Writes, RefusedIsOversized
  <2>2. Content[job[h]][step[h]] \in Parts(job[h])
    BY <1>2, CurrentTable, ContentFacts DEF Writes, Parts
  <2>3. \A t \in Tables : b # job[h] \/ t \notin Parts(b) => copies'[b][t] = copies[b][t]
    BY <1>2, <2>2, WriteAdds
  <2> QED
    BY <2>1, <2>3 DEF Untouched, Parts
<1> QED
  BY <1>1, <1>2, WritesOrNot

LEMMA CopyInvHolds == Spec => []CopyInv
<1>1. Init => CopyInv
  <2> SUFFICES ASSUME Init PROVE CopyInv
    OBVIOUS
  <2>1. RefusedIsOversized
    BY DEF Init, RefusedIsOversized
  <2>2. ASSUME NEW b \in Batches PROVE Paid(b) /\ Untouched(b)
    <3>1. \A i \in Nat : Coming(b, i) = {} /\ At(b, i) = {}
      BY DEF Init, Coming, At
    <3>2. Cardinality({}) = 0
      BY FS_EmptySet
    <3>3. \A t \in Tables : copies[b][t] = 0
      BY DEF Init
    <3>4. attempts[b] = 0
      BY DEF Init
    <3>5. /\ \A i \in 1..Len(Content[b]) : i \in Nat /\ Content[b][i] \in Tables
          /\ \A i \in 1..(Len(Content[b]) - 1) :
               i \in 1..Len(Content[b]) /\ i + 1 \in 1..Len(Content[b]) /\ i + 1 \in Nat
      BY ContentFacts
    <3>6. ASSUME NEW i \in 1..Len(Content[b])
          PROVE  copies[b][Content[b][i]] + Cardinality(Coming(b, i)) <= attempts[b]
      <4>1. copies[b][Content[b][i]] = 0 /\ Coming(b, i) = {}
        BY <3>1, <3>3, <3>5
      <4> QED
        BY <3>2, <3>4, <4>1
    <3>7. ASSUME NEW i \in 1..(Len(Content[b]) - 1)
          PROVE  copies[b][Content[b][i + 1]] + Cardinality(At(b, i + 1)) <= copies[b][Content[b][i]]
      <4>1. copies[b][Content[b][i]] = 0 /\ copies[b][Content[b][i + 1]] = 0
        BY <3>3, <3>5
      <4>2. At(b, i + 1) = {}
        BY <3>1, <3>5
      <4>3. Cardinality(At(b, i + 1)) = 0
        BY <3>2, <4>2
      <4> QED
        BY <4>1, <4>3
    <3> QED
      BY <3>3, <3>6, <3>7 DEF Paid, Untouched
  <2> QED
    BY <2>1, <2>2, IngestTypeInit DEF CopyInv
<1>2. CopyInv /\ [Next]_vars => CopyInv'
  BY IngestTypeStep, RefusedStep, PaidStep, UntouchedStep DEF CopyInv
<1> QED
  BY <1>1, <1>2, PTL DEF Spec

-----------------------------------------------------------------------------
(* The theorems *)

\* The state is well-typed; in particular a handler that is to insert has a
\* table to insert into.
THEOREM IngestTypeCorrect == Spec => []TypeOK
<1>1. WriteInv => TypeOK
  BY DEF WriteInv
<1> QED
  BY <1>1, WriteInvHolds, PTL

\* What was acknowledged is stored, whatever was cancelled, lost, repeated or
\* restarted before the acknowledgement or after it.
THEOREM AcknowledgedBatchesAreStored == Spec => []AckedIsStored
<1>1. WriteInv => AckedIsStored
  BY WrittenIsStored DEF WriteInv, AckedIsWritten, AckedIsStored
<1> QED
  BY <1>1, WriteInvHolds, PTL

\* What is shown live is stored.
THEOREM LiveBatchesAreStored == Spec => []LiveIsStored
<1>1. WriteInv => LiveIsStored
  BY WrittenIsStored DEF WriteInv, AckedIsWritten, LiveIsStored, TypeOK
<1> QED
  BY <1>1, WriteInvHolds, PTL

\* The rows of a batch are duplicated by its exporter's retries only, a refused
\* batch leaves none, and children are never more than their spans.
THEOREM CopiesArePaidFor == Spec => []CopiesComeFromAttempts
<1>1. CopyInv => CopiesComeFromAttempts
  <2> SUFFICES ASSUME CopyInv, NEW b \in Batches
               PROVE  /\ \A t \in Tables : /\ copies[b][t] <= attempts[b]
                                           /\ exporter[b] = "refused" => copies[b][t] = 0
                      /\ \A i \in 1..(Len(Content[b]) - 1) :
                           copies[b][Content[b][i + 1]] <= copies[b][Content[b][i]]
    BY DEF CopiesComeFromAttempts
  <2>1. TypeOK /\ Paid(b) /\ Untouched(b) /\ RefusedIsOversized /\ attempts[b] \in Nat
    BY DEF CopyInv, TypeOK
  <2>2. \A i \in Nat : Cardinality(Coming(b, i)) \in Nat /\ Cardinality(At(b, i)) \in Nat
    <3>1. \A i \in Nat : Coming(b, i) \in SUBSET Handlers /\ At(b, i) \in SUBSET Handlers
      BY DEF Coming, At
    <3> QED
      BY <3>1, CountingHandlers
  <2>3. ASSUME NEW i \in 1..Len(Content[b]) PROVE copies[b][Content[b][i]] <= attempts[b]
    <3>1. copies[b][Content[b][i]] + Cardinality(Coming(b, i)) <= attempts[b]
      BY <2>1 DEF Paid
    <3>2. i \in Nat /\ Content[b][i] \in Tables
      BY ContentFacts
    <3>3. copies[b][Content[b][i]] \in Nat /\ Cardinality(Coming(b, i)) \in Nat
      BY <2>1, <2>2, <3>2, TypeParts DEF StoreTypes
    <3> QED
      BY <2>1, <3>1, <3>3
  <2>4. ASSUME NEW t \in Tables PROVE copies[b][t] <= attempts[b]
    <3>1. CASE t \in Parts(b)
      BY <2>3, <3>1, ContentFacts DEF Parts
    <3>2. CASE t \notin Parts(b)
      BY <2>1, <3>2 DEF Untouched
    <3> QED
      BY <3>1, <3>2
  <2>5. exporter[b] = "refused" => \A t \in Tables : copies[b][t] = 0
    BY <2>1 DEF RefusedIsOversized, Untouched
  <2>6. ASSUME NEW i \in 1..(Len(Content[b]) - 1)
        PROVE  copies[b][Content[b][i + 1]] <= copies[b][Content[b][i]]
    <3>1. copies[b][Content[b][i + 1]] + Cardinality(At(b, i + 1)) <= copies[b][Content[b][i]]
      BY <2>1 DEF Paid
    <3>2. i + 1 \in Nat /\ Content[b][i + 1] \in Tables /\ Content[b][i] \in Tables
      <4>1. i + 1 \in Nat /\ i + 1 \in 1..Len(Content[b]) /\ i \in 1..Len(Content[b])
        BY ContentFacts
      <4> QED
        BY <4>1, ContentFacts
    <3>3. /\ copies[b][Content[b][i + 1]] \in Nat /\ copies[b][Content[b][i]] \in Nat
          /\ Cardinality(At(b, i + 1)) \in Nat
      BY <2>1, <2>2, <3>2, TypeParts DEF StoreTypes
    <3> QED
      BY <3>1, <3>3
  <2> QED
    BY <2>4, <2>5, <2>6
<1> QED
  BY <1>1, CopyInvHolds, PTL

\* A trace that is read after an acknowledgement or from a live row is complete.
THEOREM ReadsAfterAckAreComplete == Spec => []ReadAfterAckIsComplete
<1>1. ReadInv => ReadAfterAckIsComplete
  <2> SUFFICES ASSUME ReadInv, NEW r \in Readers
               PROVE  /\ rpc[r] = "done" =>
                           \A b \in known[r] : \A t \in Parts(b) \ {"logs"} : b \in Assembled(r, t)
                      /\ rpc[r] = "not found" => \A b \in known[r] : "spans" \notin Parts(b)
    BY DEF ReadAfterAckIsComplete
  <2>1. Complete(r)
    BY DEF ReadInv, ReadsAreComplete
  <2>2. ASSUME rpc[r] = "done", NEW b \in known[r], NEW t \in Parts(b) \ {"logs"}
        PROVE  b \in Assembled(r, t)
    <3>1. b \in Batches
      BY TypeParts DEF ReadInv, WriteInv, ReaderTypes
    <3>2. t \in {"spans", "span_events", "span_links"} /\ "spans" \in Parts(b)
      BY <3>1, ContentFacts DEF Parts, Tables
    <3>3. SeenAll(r, "spans") /\ SeenAll(r, "span_events") /\ SeenAll(r, "span_links")
      BY <2>1, <2>2 DEF Complete
    <3> QED
      BY <3>2, <3>3 DEF SeenAll, Assembled
  <2> QED
    BY <2>1, <2>2 DEF Complete
<1> QED
  BY <1>1, ReadInvHolds, PTL
=============================================================================
