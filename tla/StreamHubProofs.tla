-------------------------- MODULE StreamHubProofs ---------------------------
(***************************************************************************)
(* Theorems about StreamHub, for every set of connections and publishers   *)
(* and every MaxClients, Buffer and MaxRows.                               *)
(*                                                                         *)
(* HubInv is inductive and implies the four invariants of the TLC run; the *)
(* refinement of LiveFanout is proved step by step under HubInv.           *)
(***************************************************************************)
EXTENDS StreamHub, FiniteSetTheorems, SequenceTheorems, TLAPS

\* A connection that never subscribed has no rows and nobody means to drop it.
NotSubscribedYet ==
  \A c \in Conns : conn[c] \in {"new", "refused"} =>
    /\ Received(c) = <<>>
    /\ ch[c] = <<>>
    /\ ~Condemned(c)

\* The handler holds a row only from its receive on.
HandsEmpty ==
  \A c \in Conns : conn[c] \in {"new", "refused", "accepting", "serving"} =>
    inflight[c] = <<>>

\* Nobody subscribed in the future.
SinceIsPast == \A c \in Conns : since[c] <= published

HubInv ==
  /\ TypeOK
  /\ RegisteredIffOpen
  /\ SlotsBelongToHandlers
  /\ IsFiniteSet(subs)
  /\ NotSubscribedYet
  /\ HandsEmpty
  /\ SinceIsPast
  /\ GaplessUntilDropped

-----------------------------------------------------------------------------
(* Rows on their way through channel and handler *)

\* A row sent to the channel is the last of the rows received.
LEMMA SendExtendsReceived ==
  ASSUME NEW d \in Seq(Nat), NEW i \in Seq(Nat), NEW q \in Seq(Nat), NEW n \in Nat
  PROVE  d \o i \o Append(q, n) = Append(d \o i \o q, n)
<1>1. d \o i \in Seq(Nat)
  OBVIOUS
<1> QED
  BY <1>1

\* Taking the first row off the channel moves it, and changes nothing else.
LEMMA TakeKeepsReceived ==
  ASSUME NEW d \in Seq(Nat), NEW q \in Seq(Nat), q # <<>>
  PROVE  d \o <<Head(q)>> \o Tail(q) = d \o <<>> \o q
<1>1. Head(q) \in Nat /\ Tail(q) \in Seq(Nat) /\ <<Head(q)>> \in Seq(Nat)
  OBVIOUS
<1>2. <<Head(q)>> \o Tail(q) = q
  BY <1>1
<1>3. d \o <<Head(q)>> \o Tail(q) = d \o (<<Head(q)>> \o Tail(q))
  BY <1>1, ConcatAssociative
<1>4. d \o <<>> = d
  OBVIOUS
<1> QED
  BY <1>2, <1>3, <1>4

\* Writing the row in hand to the connection moves it, and changes nothing else.
LEMMA WriteKeepsReceived ==
  ASSUME NEW d \in Seq(Nat), NEW i \in Seq(Nat), NEW q \in Seq(Nat)
  PROVE  (d \o i) \o <<>> \o q = d \o i \o q
<1>1. d \o i \in Seq(Nat)
  OBVIOUS
<1> QED
  BY <1>1

\* A run of consecutive rows, one row longer.
LEMMA RunGrows ==
  ASSUME NEW s \in Nat, NEW n \in Nat, s <= n
  PROVE  Append([k \in 1..(n - s) |-> s + k], n + 1) = [k \in 1..((n + 1) - s) |-> s + k]
<1> DEFINE run == [k \in 1..(n - s) |-> s + k]
           longer == [k \in 1..((n + 1) - s) |-> s + k]
<1>1. n - s \in Nat /\ (n + 1) - s \in Nat /\ (n + 1) - s = (n - s) + 1
  OBVIOUS
<1>2. run \in Seq(Nat) /\ Len(run) = n - s
  BY <1>1
<1>3. longer \in Seq(Nat) /\ Len(longer) = (n - s) + 1
  BY <1>1
<1>4. \A k \in 1..((n - s) + 1) : Append(run, n + 1)[k] = longer[k]
  BY <1>1, <1>2
<1>5. Append(run, n + 1) \in Seq(Nat) /\ Len(Append(run, n + 1)) = (n - s) + 1
  BY <1>2
<1>6. Append(run, n + 1) = longer
  BY <1>3, <1>4, <1>5, SeqEqual
<1> QED
  BY <1>6

-----------------------------------------------------------------------------
(* Type correctness: inductive by itself *)

LEMMA TypeInit == Init => TypeOK
<1> SUFFICES ASSUME Init PROVE TypeOK
  OBVIOUS
<1>1. <<>> \in Seq(Nat) /\ Len(<<>>) = 0
  OBVIOUS
<1>2. 0 <= Buffer
  BY BufferAssumption
<1>3. /\ \A c \in Conns : ch[c] = <<>> /\ inflight[c] = <<>>
      /\ ch \in [Conns -> Seq(Nat)]
      /\ inflight \in [Conns -> Seq(Nat)]
      /\ delivered \in [Conns -> Seq(Nat)]
  BY <1>1 DEF Init
<1>4. \A c \in Conns : Len(ch[c]) <= Buffer /\ Len(inflight[c]) <= 1
  BY <1>1, <1>2, <1>3
<1>5. /\ closed \in BOOLEAN
      /\ subs \subseteq Conns
      /\ chOpen \in [Conns -> BOOLEAN]
      /\ full \in [Publishers -> SUBSET Conns]
      /\ conn \in [Conns -> Attached \cup {"new", "refused", "done"}]
      /\ ctxDone \in [Conns -> BOOLEAN]
      /\ since \in [Conns -> Nat]
      /\ published \in Nat
  BY DEF Init, Attached
<1> QED
  BY <1>3, <1>4, <1>5 DEF TypeOK

LEMMA TypeStep == TypeOK /\ [Next]_vars => TypeOK'
<1> SUFFICES ASSUME TypeOK, [Next]_vars PROVE TypeOK'
  OBVIOUS
<1> USE DEF TypeOK, Attached
<1>1. ASSUME NEW p \in Publishers, Publish(p) PROVE TypeOK'
  <2> DEFINE slow == {c \in subs : Len(ch[c]) >= Buffer}
  <2>1. /\ ch' = [c \in Conns |-> IF c \in subs \ slow
                                  THEN Append(ch[c], published + 1) ELSE ch[c]]
        /\ full' = [full EXCEPT ![p] = slow]
        /\ published' = published + 1
        /\ UNCHANGED <<closed, subs, chOpen, connVars, since>>
    BY <1>1 DEF Publish
  <2>2. ASSUME NEW c \in Conns PROVE ch'[c] \in Seq(Nat) /\ Len(ch'[c]) <= Buffer
    <3>1. CASE c \in subs \ slow
      <4>1. ch'[c] = Append(ch[c], published + 1) /\ Len(ch[c]) < Buffer
        BY <2>1, <3>1, BufferAssumption
      <4>2. QED
        BY <4>1, BufferAssumption
    <3>2. CASE c \notin subs \ slow
      BY <2>1, <3>2
    <3>3. QED
      BY <3>1, <3>2
  <2>3. ch' \in [Conns -> Seq(Nat)]
    BY <2>1, <2>2
  <2>4. full' \in [Publishers -> SUBSET Conns]
    BY <2>1
  <2>5. QED
    BY <2>1, <2>2, <2>3, <2>4 DEF connVars
<1>2. ASSUME NEW p \in Publishers, DropSlow(p) PROVE TypeOK'
  BY <1>2 DEF DropSlow, Drop, connVars
<1>3. CASE CloseHub
  BY <1>3 DEF CloseHub, connVars
<1>4. ASSUME NEW c \in Conns, Subscribe(c) PROVE TypeOK'
  BY <1>4 DEF Subscribe, Goto
<1>5. ASSUME NEW c \in Conns, Refuse(c) PROVE TypeOK'
  BY <1>5 DEF Refuse, Goto, hubVars
<1>6. ASSUME NEW c \in Conns, PeerGone(c) PROVE TypeOK'
  BY <1>6 DEF PeerGone, hubVars
<1>7. ASSUME NEW c \in Conns, Accept(c) PROVE TypeOK'
  BY <1>7 DEF Accept, Goto, hubVars
<1>8. ASSUME NEW c \in Conns, SeeDone(c) PROVE TypeOK'
  BY <1>8 DEF SeeDone, Goto, hubVars
<1>9. ASSUME NEW c \in Conns, Receive(c) PROVE TypeOK'
  <2>1. /\ ch[c] # <<>>
        /\ inflight' = [inflight EXCEPT ![c] = <<Head(ch[c])>>]
        /\ ch' = [ch EXCEPT ![c] = Tail(ch[c])]
        /\ conn' = [conn EXCEPT ![c] = "writing"]
        /\ UNCHANGED <<closed, subs, chOpen, full, ctxDone, delivered, since, published>>
    BY <1>9 DEF Receive, Goto
  <2>2. /\ Head(ch[c]) \in Nat
        /\ Tail(ch[c]) \in Seq(Nat)
        /\ Len(Tail(ch[c])) = Len(ch[c]) - 1
    BY <2>1
  <2>3. ch' \in [Conns -> Seq(Nat)] /\ \A d \in Conns : Len(ch'[d]) <= Buffer
    BY <2>1, <2>2, BufferAssumption
  <2>4. inflight' \in [Conns -> Seq(Nat)] /\ \A d \in Conns : Len(inflight'[d]) <= 1
    BY <2>1, <2>2
  <2>5. QED
    BY <2>1, <2>3, <2>4
<1>10. ASSUME NEW c \in Conns, SeeClosed(c) PROVE TypeOK'
  BY <1>10 DEF SeeClosed, Goto, hubVars
<1>11. ASSUME NEW c \in Conns, WriteOk(c) PROVE TypeOK'
  BY <1>11 DEF WriteOk, Goto, hubVars
<1>12. ASSUME NEW c \in Conns, WriteFail(c) PROVE TypeOK'
  BY <1>12 DEF WriteFail, Goto, hubVars
<1>13. ASSUME NEW c \in Conns, Unsubscribe(c) PROVE TypeOK'
  BY <1>13 DEF Unsubscribe, Goto, Drop
<1>14. CASE UNCHANGED vars
  BY <1>14 DEF vars, hubVars, connVars
<1> QED
  BY <1>1, <1>2, <1>3, <1>4, <1>5, <1>6, <1>7, <1>8, <1>9, <1>10, <1>11, <1>12,
     <1>13, <1>14 DEF Next, HandlerStep

\* The types are right, a channel never holds more than its capacity and a
\* handler never more than one row: Publish's send really is non-blocking.
THEOREM TypeCorrect == Spec => []TypeOK
  BY TypeInit, TypeStep, PTL DEF Spec

-----------------------------------------------------------------------------
(* The registry: who is subscribed, whose channel is open, whose slot is in use *)

\* Steps that leave the registry and the handlers' registration alone.
LEMMA RegistryUntouched ==
  ASSUME RegisteredIffOpen, SlotsBelongToHandlers, IsFiniteSet(subs),
         UNCHANGED <<closed, subs, chOpen>>,
         \A c \in Conns : conn[c] \in Attached => conn'[c] \in Attached,
         TypeOK
  PROVE  RegisteredIffOpen' /\ SlotsBelongToHandlers' /\ IsFiniteSet(subs)'
BY DEF RegisteredIffOpen, SlotsBelongToHandlers, TypeOK

\* Dropping c keeps the registry consistent, c registered or not.
LEMMA DropKeepsRegistry ==
  ASSUME TypeOK, RegisteredIffOpen, SlotsBelongToHandlers, IsFiniteSet(subs),
         NEW c \in Conns, Drop(c), UNCHANGED closed,
         \A d \in Conns \ {c} : conn'[d] = conn[d],
         conn'[c] = conn[c] \/ c \notin subs'
  PROVE  RegisteredIffOpen' /\ SlotsBelongToHandlers' /\ IsFiniteSet(subs)'
<1>1. CASE c \in subs
  <2>1. subs' = subs \ {c} /\ chOpen' = [chOpen EXCEPT ![c] = FALSE]
    BY <1>1 DEF Drop
  <2>2. IsFiniteSet(subs') /\ Cardinality(subs') = Cardinality(subs) - 1
    BY <1>1, <2>1, FS_RemoveElement
  <2>3. Cardinality(subs) \in Nat
    BY FS_CardinalityType
  <2>4. RegisteredIffOpen'
    BY <2>1 DEF RegisteredIffOpen, TypeOK
  <2>5. Cardinality(subs') <= MaxClients
    BY <2>2, <2>3, MaxClientsAssumption DEF SlotsBelongToHandlers
  <2>6. \A d \in subs' : conn'[d] \in Attached
    BY <2>1 DEF SlotsBelongToHandlers, TypeOK
  <2>7. QED
    BY <2>2, <2>4, <2>5, <2>6 DEF SlotsBelongToHandlers
<1>2. CASE c \notin subs
  <2>1. UNCHANGED <<subs, chOpen>>
    BY <1>2 DEF Drop
  <2>2. \A d \in subs' : conn'[d] \in Attached
    BY <1>2, <2>1 DEF SlotsBelongToHandlers, TypeOK
  <2>3. QED
    BY <2>1, <2>2 DEF SlotsBelongToHandlers, RegisteredIffOpen
<1> QED
  BY <1>1, <1>2

LEMMA RegistryStep ==
  ASSUME TypeOK, RegisteredIffOpen, SlotsBelongToHandlers, IsFiniteSet(subs), [Next]_vars
  PROVE  RegisteredIffOpen' /\ SlotsBelongToHandlers' /\ IsFiniteSet(subs)'
<1> DEFINE Registry == RegisteredIffOpen' /\ SlotsBelongToHandlers' /\ IsFiniteSet(subs)'
<1>1. ASSUME NEW p \in Publishers, Publish(p) PROVE Registry
  BY <1>1, RegistryUntouched DEF Publish, connVars
<1>2. ASSUME NEW p \in Publishers, DropSlow(p) PROVE Registry
  <2>1. PICK c \in full[p] : Drop(c)
    BY <1>2 DEF DropSlow
  <2>2. c \in Conns
    BY <2>1 DEF TypeOK
  <2>3. UNCHANGED <<closed, conn>>
    BY <1>2 DEF DropSlow, connVars
  <2>4. QED
    BY <2>1, <2>2, <2>3, DropKeepsRegistry
<1>3. CASE CloseHub
  <2>1. subs' = {} /\ chOpen' = [c \in Conns |-> chOpen[c] /\ c \notin subs]
    BY <1>3 DEF CloseHub
  <2>2. IsFiniteSet(subs') /\ Cardinality(subs') = 0
    BY <2>1, FS_EmptySet
  <2>3. QED
    <3>1. Cardinality(subs') <= MaxClients
      BY <2>2, MaxClientsAssumption
    <3>2. \A c \in Conns : c \in subs' <=> chOpen'[c]
      BY <2>1 DEF RegisteredIffOpen
    <3>3. QED
      BY <2>1, <2>2, <3>1, <3>2 DEF RegisteredIffOpen, SlotsBelongToHandlers
<1>4. ASSUME NEW c \in Conns, Subscribe(c) PROVE Registry
  <2>1. /\ subs' = subs \cup {c}
        /\ chOpen' = [chOpen EXCEPT ![c] = TRUE]
        /\ conn' = [conn EXCEPT ![c] = "accepting"]
        /\ Cardinality(subs) < MaxClients
        /\ ~closed /\ UNCHANGED closed
    BY <1>4 DEF Subscribe, Goto
  <2>2. IsFiniteSet(subs') /\ Cardinality(subs') <= Cardinality(subs) + 1
    <3>1. /\ IsFiniteSet(subs')
          /\ Cardinality(subs') = IF c \in subs THEN Cardinality(subs) ELSE Cardinality(subs) + 1
      BY <2>1, FS_AddElement
    <3>2. Cardinality(subs) \in Nat
      BY FS_CardinalityType
    <3>3. QED
      BY <3>1, <3>2
  <2>3. Cardinality(subs') <= MaxClients
    BY <2>1, <2>2, FS_CardinalityType, MaxClientsAssumption
  <2>4. RegisteredIffOpen'
    BY <2>1 DEF RegisteredIffOpen, TypeOK
  <2>5. \A d \in subs' : conn'[d] \in Attached
    BY <2>1 DEF SlotsBelongToHandlers, TypeOK, Attached
  <2>6. QED
    BY <2>2, <2>3, <2>4, <2>5 DEF SlotsBelongToHandlers
<1>5. ASSUME NEW c \in Conns, Refuse(c) PROVE Registry
  <2>1. conn[c] = "new" /\ conn' = [conn EXCEPT ![c] = "refused"]
    BY <1>5 DEF Refuse, Goto
  <2>2. \A d \in Conns : conn[d] \in Attached => conn'[d] \in Attached
    BY <2>1 DEF TypeOK, Attached
  <2>3. UNCHANGED <<closed, subs, chOpen>>
    BY <1>5 DEF Refuse, hubVars
  <2>4. QED
    BY <2>2, <2>3, RegistryUntouched
<1>6. ASSUME NEW c \in Conns, PeerGone(c) PROVE Registry
  BY <1>6, RegistryUntouched DEF PeerGone, hubVars
<1>7. ASSUME NEW c \in Conns, Accept(c) PROVE Registry
  BY <1>7, RegistryUntouched DEF Accept, Goto, hubVars, TypeOK, Attached
<1>8. ASSUME NEW c \in Conns, SeeDone(c) PROVE Registry
  BY <1>8, RegistryUntouched DEF SeeDone, Goto, hubVars, TypeOK, Attached
<1>9. ASSUME NEW c \in Conns, Receive(c) PROVE Registry
  BY <1>9, RegistryUntouched DEF Receive, Goto, TypeOK, Attached
<1>10. ASSUME NEW c \in Conns, SeeClosed(c) PROVE Registry
  BY <1>10, RegistryUntouched DEF SeeClosed, Goto, hubVars, TypeOK, Attached
<1>11. ASSUME NEW c \in Conns, WriteOk(c) PROVE Registry
  BY <1>11, RegistryUntouched DEF WriteOk, Goto, hubVars, TypeOK, Attached
<1>12. ASSUME NEW c \in Conns, WriteFail(c) PROVE Registry
  BY <1>12, RegistryUntouched DEF WriteFail, Goto, hubVars, TypeOK, Attached
<1>13. ASSUME NEW c \in Conns, Unsubscribe(c) PROVE Registry
  <2>1. /\ conn' = [conn EXCEPT ![c] = "done"]
        /\ Drop(c)
        /\ UNCHANGED closed
    BY <1>13 DEF Unsubscribe, Goto
  <2>2. c \notin subs'
    BY <2>1 DEF Drop
  <2>3. QED
    BY <2>1, <2>2, DropKeepsRegistry DEF TypeOK
<1>14. CASE UNCHANGED vars
  BY <1>14, RegistryUntouched DEF vars, hubVars, connVars
<1> QED
  BY <1>1, <1>2, <1>3, <1>4, <1>5, <1>6, <1>7, <1>8, <1>9, <1>10, <1>11, <1>12,
     <1>13, <1>14 DEF Next, HandlerStep

-----------------------------------------------------------------------------
(* What each step does to the rows a connection received, and to the list of *)
(* those about to be dropped                                                 *)

\* The subscribers a Publish call finds with a full buffer.
Slow == {c \in subs : Len(ch[c]) >= Buffer}

LEMMA PublishReceived ==
  ASSUME TypeOK, NEW p \in Publishers, Publish(p), NEW c \in Conns
  PROVE  Received(c)' = IF c \in subs \ Slow THEN Append(Received(c), published + 1)
                        ELSE Received(c)
<1>1. /\ ch'[c] = IF c \in subs \ Slow THEN Append(ch[c], published + 1) ELSE ch[c]
      /\ delivered' = delivered /\ inflight' = inflight
  BY DEF Publish, Slow, connVars
<1>2. /\ delivered[c] \in Seq(Nat) /\ inflight[c] \in Seq(Nat) /\ ch[c] \in Seq(Nat)
      /\ published + 1 \in Nat
  BY DEF TypeOK
<1>3. Received(c)' = delivered[c] \o inflight[c] \o ch'[c]
  BY <1>1 DEF Received
<1>4. CASE c \in subs \ Slow
  <2>1. delivered[c] \o inflight[c] \o Append(ch[c], published + 1)
          = Append(delivered[c] \o inflight[c] \o ch[c], published + 1)
    BY <1>2, SendExtendsReceived
  <2>2. QED
    BY <1>1, <1>3, <1>4, <2>1 DEF Received
<1>5. CASE c \notin subs \ Slow
  BY <1>1, <1>3, <1>5 DEF Received
<1> QED
  BY <1>4, <1>5

LEMMA OthersKeepReceived ==
  ASSUME TypeOK, HandsEmpty, [Next]_vars, \A p \in Publishers : ~Publish(p),
         NEW c \in Conns
  PROVE  Received(c)' = Received(c)
<1> DEFINE Same == UNCHANGED <<delivered, inflight, ch>>
<1>1. Same => Received(c)' = Received(c)
  BY DEF Received
<1>2. ASSUME NEW p \in Publishers, DropSlow(p) PROVE Same
  BY <1>2 DEF DropSlow, connVars
<1>3. ASSUME CloseHub PROVE Same
  BY <1>3 DEF CloseHub, connVars
<1>4. ASSUME NEW d \in Conns,
             \/ Subscribe(d) \/ Refuse(d) \/ PeerGone(d) \/ Accept(d) \/ SeeDone(d)
             \/ SeeClosed(d) \/ WriteFail(d) \/ Unsubscribe(d)
      PROVE  Same
  BY <1>4 DEF Subscribe, Refuse, PeerGone, Accept, SeeDone, SeeClosed, WriteFail,
              Unsubscribe, hubVars
<1>5. ASSUME UNCHANGED vars PROVE Same
  BY <1>5 DEF vars, hubVars, connVars
<1>6. ASSUME NEW d \in Conns, Receive(d) PROVE Received(c)' = Received(c)
  <2>1. /\ conn[d] = "serving" /\ ch[d] # <<>>
        /\ inflight' = [inflight EXCEPT ![d] = <<Head(ch[d])>>]
        /\ ch' = [ch EXCEPT ![d] = Tail(ch[d])]
        /\ delivered' = delivered
    BY <1>6 DEF Receive, Goto
  <2>2. CASE c = d
    <3>1. inflight[d] = <<>>
      BY <2>1 DEF HandsEmpty
    <3>2. delivered[d] \in Seq(Nat) /\ ch[d] \in Seq(Nat)
      BY DEF TypeOK
    <3>3. inflight'[d] = <<Head(ch[d])>> /\ ch'[d] = Tail(ch[d])
      BY <2>1 DEF TypeOK
    <3>4. delivered[d] \o <<Head(ch[d])>> \o Tail(ch[d]) = delivered[d] \o <<>> \o ch[d]
      BY <2>1, <3>2, TakeKeepsReceived
    <3>5. Received(d)' = delivered[d] \o <<Head(ch[d])>> \o Tail(ch[d])
      BY <2>1, <3>3 DEF Received
    <3>6. QED
      BY <2>2, <3>1, <3>4, <3>5 DEF Received
  <2>3. CASE c # d
    BY <2>1, <2>3 DEF Received, TypeOK
  <2>4. QED
    BY <2>2, <2>3
<1>7. ASSUME NEW d \in Conns, WriteOk(d) PROVE Received(c)' = Received(c)
  <2>1. /\ delivered' = [delivered EXCEPT ![d] = delivered[d] \o inflight[d]]
        /\ inflight' = [inflight EXCEPT ![d] = <<>>]
        /\ ch' = ch
    BY <1>7 DEF WriteOk, hubVars
  <2>2. CASE c = d
    <3>1. delivered[d] \in Seq(Nat) /\ inflight[d] \in Seq(Nat) /\ ch[d] \in Seq(Nat)
      BY DEF TypeOK
    <3>2. (delivered[d] \o inflight[d]) \o <<>> \o ch[d] = delivered[d] \o inflight[d] \o ch[d]
      BY <3>1, WriteKeepsReceived
    <3>3. Received(d)' = (delivered[d] \o inflight[d]) \o <<>> \o ch[d]
      BY <2>1 DEF Received, TypeOK
    <3>4. QED
      BY <2>2, <3>2, <3>3 DEF Received
  <2>3. CASE c # d
    BY <2>1, <2>3 DEF Received, TypeOK
  <2>4. QED
    BY <2>2, <2>3
<1> QED
  BY <1>1, <1>2, <1>3, <1>4, <1>5, <1>6, <1>7 DEF Next, HandlerStep

LEMMA PublishCondemns ==
  ASSUME TypeOK, NEW p \in Publishers, Publish(p), NEW c \in Conns
  PROVE  Condemned(c)' <=> (c \in Slow \/ Condemned(c))
<1>1. full[p] = {} /\ full' = [full EXCEPT ![p] = Slow]
  BY DEF Publish, Slow
<1> QED
  BY <1>1 DEF Condemned, TypeOK

LEMMA DropSlowPardonsNobody ==
  ASSUME TypeOK, NEW p \in Publishers, NEW d \in full[p],
         full' = [full EXCEPT ![p] = full[p] \ {d}],
         NEW c \in Conns, c # d
  PROVE  Condemned(c)' <=> Condemned(c)
BY DEF Condemned, TypeOK

LEMMA OthersKeepCondemned ==
  ASSUME [Next]_vars, \A p \in Publishers : ~Publish(p) /\ ~DropSlow(p)
  PROVE  full' = full /\ \A c \in Conns : Condemned(c)' <=> Condemned(c)
<1>1. full' = full
  <2>1. CASE CloseHub
    BY <2>1 DEF CloseHub
  <2>2. ASSUME NEW d \in Conns,
               \/ Subscribe(d) \/ Refuse(d) \/ PeerGone(d) \/ Accept(d) \/ SeeDone(d)
               \/ Receive(d) \/ SeeClosed(d) \/ WriteOk(d) \/ WriteFail(d) \/ Unsubscribe(d)
        PROVE  full' = full
    BY <2>2 DEF Subscribe, Refuse, PeerGone, Accept, SeeDone, Receive, SeeClosed, WriteOk,
                WriteFail, Unsubscribe
  <2>3. CASE UNCHANGED vars
    BY <2>3 DEF vars
  <2>4. QED
    BY <2>1, <2>2, <2>3 DEF Next, HandlerStep
<1> QED
  BY <1>1 DEF Condemned

-----------------------------------------------------------------------------
(* The inductive invariant *)

LEMMA HubInvInit == Init => HubInv
<1> SUFFICES ASSUME Init PROVE HubInv
  OBVIOUS
<1>1. TypeOK
  BY TypeInit
<1>2. /\ subs = {} /\ published = 0
      /\ \A c \in Conns : /\ ch[c] = <<>> /\ inflight[c] = <<>> /\ delivered[c] = <<>>
                          /\ ~chOpen[c] /\ since[c] = 0
      /\ \A p \in Publishers : full[p] = {}
  BY DEF Init
<1>3. RegisteredIffOpen /\ GaplessUntilDropped /\ SinceIsPast /\ HandsEmpty
  BY <1>2 DEF RegisteredIffOpen, GaplessUntilDropped, SinceIsPast, HandsEmpty
<1>4. IsFiniteSet(subs) /\ Cardinality(subs) = 0
  BY <1>2, FS_EmptySet
<1>5. SlotsBelongToHandlers
  BY <1>2, <1>4, MaxClientsAssumption DEF SlotsBelongToHandlers
<1>6. ASSUME NEW c \in Conns PROVE Received(c) = <<>>
  <2>1. <<>> \in Seq(Nat) /\ <<>> \o <<>> = <<>>
    BY ConcatEmptySeq, EmptySeq
  <2>2. QED
    BY <1>2, <2>1 DEF Received
<1>7. NotSubscribedYet
  BY <1>2, <1>6 DEF NotSubscribedYet, Condemned
<1> QED
  BY <1>1, <1>3, <1>4, <1>5, <1>7 DEF HubInv

LEMMA HandsEmptyStep ==
  ASSUME TypeOK, HandsEmpty, [Next]_vars
  PROVE  HandsEmpty'
<1> USE DEF HandsEmpty, TypeOK, Attached
<1>1. CASE UNCHANGED <<conn, inflight>>
  BY <1>1
<1>2. ASSUME NEW p \in Publishers, Publish(p) \/ DropSlow(p) PROVE HandsEmpty'
  BY <1>1, <1>2 DEF Publish, DropSlow, connVars
<1>3. CASE CloseHub
  BY <1>1, <1>3 DEF CloseHub, connVars
<1>4. ASSUME NEW c \in Conns, Subscribe(c) \/ Refuse(c) PROVE HandsEmpty'
  BY <1>4 DEF Subscribe, Refuse, Goto
<1>5. ASSUME NEW c \in Conns, PeerGone(c) PROVE HandsEmpty'
  BY <1>1, <1>5 DEF PeerGone
<1>6. ASSUME NEW c \in Conns, Accept(c) \/ SeeDone(c) \/ SeeClosed(c) PROVE HandsEmpty'
  BY <1>6 DEF Accept, SeeDone, SeeClosed, Goto
<1>7. ASSUME NEW c \in Conns, Receive(c) PROVE HandsEmpty'
  BY <1>7 DEF Receive, Goto
<1>8. ASSUME NEW c \in Conns, WriteOk(c) PROVE HandsEmpty'
  BY <1>8 DEF WriteOk, Goto
<1>9. ASSUME NEW c \in Conns, WriteFail(c) \/ Unsubscribe(c) PROVE HandsEmpty'
  BY <1>9 DEF WriteFail, Unsubscribe, Goto
<1>10. CASE UNCHANGED vars
  BY <1>1, <1>10 DEF vars, connVars
<1> QED
  BY <1>2, <1>3, <1>4, <1>5, <1>6, <1>7, <1>8, <1>9, <1>10 DEF Next, HandlerStep

LEMMA SinceIsPastStep ==
  ASSUME TypeOK, SinceIsPast, [Next]_vars
  PROVE  SinceIsPast'
<1> USE DEF SinceIsPast, TypeOK
<1>1. CASE UNCHANGED <<since, published>>
  BY <1>1
<1>2. ASSUME NEW p \in Publishers, Publish(p) PROVE SinceIsPast'
  BY <1>2 DEF Publish
<1>3. ASSUME NEW p \in Publishers, DropSlow(p) PROVE SinceIsPast'
  BY <1>1, <1>3 DEF DropSlow
<1>4. CASE CloseHub
  BY <1>1, <1>4 DEF CloseHub
<1>5. ASSUME NEW c \in Conns, Subscribe(c) PROVE SinceIsPast'
  BY <1>5 DEF Subscribe
<1>6. ASSUME NEW c \in Conns, Refuse(c) \/ PeerGone(c) \/ HandlerStep(c) PROVE SinceIsPast'
  BY <1>1, <1>6 DEF Refuse, PeerGone, HandlerStep, Accept, SeeDone, Receive, SeeClosed,
                    WriteOk, WriteFail, Unsubscribe
<1>7. CASE UNCHANGED vars
  BY <1>1, <1>7 DEF vars
<1> QED
  BY <1>2, <1>3, <1>4, <1>5, <1>6, <1>7 DEF Next

LEMMA NotSubscribedYetStep ==
  ASSUME TypeOK, SlotsBelongToHandlers, HandsEmpty, NotSubscribedYet, [Next]_vars
  PROVE  NotSubscribedYet'
<1> SUFFICES ASSUME NEW c \in Conns, conn'[c] \in {"new", "refused"}
             PROVE  Received(c)' = <<>> /\ ch'[c] = <<>> /\ ~Condemned(c)'
  BY DEF NotSubscribedYet
<1>1. conn[c] \in {"new", "refused"}
  <2>1. ASSUME NEW p \in Publishers, Publish(p) \/ DropSlow(p) PROVE conn' = conn
    BY <2>1 DEF Publish, DropSlow, connVars
  <2>2. ASSUME CloseHub \/ UNCHANGED vars PROVE conn' = conn
    BY <2>2 DEF CloseHub, vars, connVars
  <2>3. ASSUME NEW d \in Conns, Subscribe(d) \/ Refuse(d) \/ PeerGone(d) \/ HandlerStep(d)
        PROVE  conn[c] \in {"new", "refused"}
    BY <2>3 DEF Subscribe, Refuse, PeerGone, HandlerStep, Accept, SeeDone, Receive, SeeClosed,
                WriteOk, WriteFail, Unsubscribe, Goto, TypeOK, Attached
  <2>4. QED
    BY <2>1, <2>2, <2>3 DEF Next
<1>2. Received(c) = <<>> /\ ch[c] = <<>> /\ ~Condemned(c)
  BY <1>1 DEF NotSubscribedYet
<1>3. c \notin subs
  BY <1>1 DEF SlotsBelongToHandlers, Attached
<1>4. ASSUME NEW p \in Publishers, Publish(p)
      PROVE  Received(c)' = <<>> /\ ch'[c] = <<>> /\ ~Condemned(c)'
  <2>1. Received(c)' = Received(c) /\ ~Condemned(c)'
    BY <1>2, <1>3, <1>4, PublishReceived, PublishCondemns DEF Slow
  <2>2. ch'[c] = ch[c]
    BY <1>3, <1>4 DEF Publish
  <2>3. QED
    BY <1>2, <2>1, <2>2
<1>5. ASSUME \A p \in Publishers : ~Publish(p)
      PROVE  Received(c)' = <<>> /\ ch'[c] = <<>> /\ ~Condemned(c)'
  <2>1. Received(c)' = Received(c)
    BY <1>5, OthersKeepReceived
  <2>2. ch'[c] = ch[c]
    <3>1. ASSUME NEW p \in Publishers, DropSlow(p) PROVE ch' = ch
      BY <3>1 DEF DropSlow
    <3>2. ASSUME CloseHub \/ UNCHANGED vars PROVE ch' = ch
      BY <3>2 DEF CloseHub, vars, hubVars
    <3>3. ASSUME NEW d \in Conns, Receive(d) PROVE ch'[c] = ch[c]
      <4>1. c # d
        BY <3>3 DEF Receive, Goto, TypeOK
      <4>2. QED
        BY <3>3, <4>1 DEF Receive, TypeOK
    <3>4. ASSUME NEW d \in Conns,
                 \/ Subscribe(d) \/ Refuse(d) \/ PeerGone(d) \/ Accept(d) \/ SeeDone(d)
                 \/ SeeClosed(d) \/ WriteOk(d) \/ WriteFail(d) \/ Unsubscribe(d)
          PROVE  ch' = ch
      BY <3>4 DEF Subscribe, Refuse, PeerGone, Accept, SeeDone, SeeClosed, WriteOk,
                  WriteFail, Unsubscribe, hubVars
    <3>5. QED
      BY <1>5, <3>1, <3>2, <3>3, <3>4 DEF Next, HandlerStep
  <2>3. ~Condemned(c)'
    <3>1. ASSUME NEW p \in Publishers, DropSlow(p) PROVE ~Condemned(c)'
      <4>1. \A q \in Publishers : full'[q] \subseteq full[q]
        BY <3>1 DEF DropSlow, TypeOK
      <4>2. QED
        BY <1>2, <4>1 DEF Condemned
    <3>2. ASSUME \A p \in Publishers : ~DropSlow(p) PROVE ~Condemned(c)'
      BY <1>2, <1>5, <3>2, OthersKeepCondemned
    <3>3. QED
      BY <3>1, <3>2
  <2>4. QED
    BY <1>2, <2>1, <2>2, <2>3
<1> QED
  BY <1>4, <1>5

LEMMA GaplessStep ==
  ASSUME HubInv, [Next]_vars
  PROVE  GaplessUntilDropped'
<1> DEFINE Run(c) == [i \in 1..(published - since[c]) |-> since[c] + i]
<1> SUFFICES ASSUME NEW c \in Conns, c \in subs', ~Condemned(c)'
             PROVE  Received(c)' = Run(c)'
  <2>1. TypeOK'
    BY TypeStep DEF HubInv
  <2>2. subs' \subseteq Conns
    BY <2>1 DEF TypeOK
  <2>3. QED
    BY <2>2 DEF GaplessUntilDropped
<1> USE DEF HubInv
<1>1. c \in subs /\ ~Condemned(c) => Received(c) = Run(c)
  BY DEF GaplessUntilDropped
<1>2. /\ published \in Nat /\ since[c] \in Nat /\ since[c] <= published
  BY DEF TypeOK, SinceIsPast
<1>3. ASSUME NEW p \in Publishers, Publish(p) PROVE Received(c)' = Run(c)'
  <2>1. c \in subs /\ published' = published + 1 /\ since' = since
    BY <1>3 DEF Publish
  <2>2. c \notin Slow /\ ~Condemned(c)
    BY <1>3, PublishCondemns
  <2>3. Received(c)' = Append(Received(c), published + 1)
    BY <1>3, <2>1, <2>2, PublishReceived
  <2>4. Append(Run(c), published + 1)
          = [i \in 1..((published + 1) - since[c]) |-> since[c] + i]
    BY <1>2, RunGrows
  <2>5. Run(c)' = [i \in 1..((published + 1) - since[c]) |-> since[c] + i]
    BY <2>1
  <2>6. QED
    BY <1>1, <2>1, <2>2, <2>3, <2>4, <2>5
<1>4. ASSUME NEW p \in Publishers, DropSlow(p) PROVE Received(c)' = Run(c)'
  <2>1. PICK d \in full[p] : Drop(d) /\ full' = [full EXCEPT ![p] = full[p] \ {d}]
    BY <1>4 DEF DropSlow
  <2>2. c \in subs /\ c # d
    BY <2>1 DEF Drop
  <2>3. ~Condemned(c)
    BY <2>1, <2>2, DropSlowPardonsNobody
  <2>4. Received(c)' = Received(c)
    BY <1>4 DEF DropSlow, connVars, Received
  <2>5. Run(c)' = Run(c)
    BY <1>4 DEF DropSlow
  <2>6. QED
    BY <1>1, <2>2, <2>3, <2>4, <2>5
<1>5. CASE CloseHub
  BY <1>5 DEF CloseHub
<1>6. ASSUME NEW d \in Conns, Subscribe(d) PROVE Received(c)' = Run(c)'
  <2>1. /\ conn[d] = "new"
        /\ subs' = subs \cup {d}
        /\ since' = [since EXCEPT ![d] = published]
        /\ UNCHANGED <<published, full, delivered, inflight, ch>>
    BY <1>6 DEF Subscribe, Goto
  <2>2. Received(c)' = Received(c) /\ ~Condemned(c)
    BY <2>1 DEF Received, Condemned
  <2>3. CASE c = d
    <3>1. Received(c) = <<>>
      BY <2>1, <2>3 DEF NotSubscribedYet
    <3>2. since'[c] = published /\ published' = published
      BY <2>1, <2>3 DEF TypeOK
    <3>3. Run(c)' = [i \in 1..(published - published) |-> published + i]
      BY <3>2
    <3>4. [i \in 1..(published - published) |-> published + i] = <<>>
      BY <1>2
    <3>5. QED
      BY <2>2, <3>1, <3>3, <3>4
  <2>4. CASE c # d
    <3>1. c \in subs /\ Run(c)' = Run(c)
      BY <2>1, <2>4 DEF TypeOK
    <3>2. QED
      BY <1>1, <2>2, <3>1
  <2>5. QED
    BY <2>3, <2>4
<1>7. ASSUME \/ UNCHANGED vars
             \/ \E d \in Conns : Refuse(d) \/ PeerGone(d) \/ HandlerStep(d)
      PROVE  Received(c)' = Run(c)' \/ \E p \in Publishers : Publish(p) \/ DropSlow(p)
  <2>1. subs' \subseteq subs /\ UNCHANGED <<since, published, full>>
    BY <1>7 DEF vars, hubVars, connVars, Refuse, PeerGone, HandlerStep, Accept, SeeDone, Receive,
                SeeClosed, WriteOk, WriteFail, Unsubscribe, Drop
  <2>2. ~Condemned(c) /\ Run(c)' = Run(c) /\ c \in subs
    BY <2>1 DEF Condemned
  <2>3. (\A p \in Publishers : ~Publish(p)) => Received(c)' = Received(c)
    BY OthersKeepReceived
  <2>4. QED
    BY <1>1, <2>2, <2>3
<1> QED
  BY <1>3, <1>4, <1>5, <1>6, <1>7 DEF Next

LEMMA HubInvStep == HubInv /\ [Next]_vars => HubInv'
<1> SUFFICES ASSUME HubInv, [Next]_vars PROVE HubInv'
  OBVIOUS
<1>1. TypeOK'
  BY TypeStep DEF HubInv
<1>2. RegisteredIffOpen' /\ SlotsBelongToHandlers' /\ IsFiniteSet(subs)'
  BY RegistryStep DEF HubInv
<1>3. HandsEmpty' /\ SinceIsPast' /\ NotSubscribedYet' /\ GaplessUntilDropped'
  BY HandsEmptyStep, SinceIsPastStep, NotSubscribedYetStep, GaplessStep DEF HubInv
<1> QED
  BY <1>1, <1>2, <1>3 DEF HubInv

LEMMA HubInvHolds == Spec => []HubInv
  BY HubInvInit, HubInvStep, PTL DEF Spec

\* Publish sends on exactly the open channels, and a channel is closed once:
\* neither "send on closed channel" nor "close of closed channel" can panic.
THEOREM NeverSendsOnClosed == Spec => []RegisteredIffOpen
<1>1. HubInv => RegisteredIffOpen
  BY DEF HubInv
<1> QED
  BY <1>1, HubInvHolds, PTL

\* A hub never has more than MaxClients subscribers, each with a handler that
\* will give its slot back.
THEOREM SlotsAreBounded == Spec => []SlotsBelongToHandlers
<1>1. HubInv => SlotsBelongToHandlers
  BY DEF HubInv
<1> QED
  BY <1>1, HubInvHolds, PTL

\* Whoever is subscribed and not about to be dropped has every row, in order.
THEOREM NoGaps == Spec => []GaplessUntilDropped
<1>1. HubInv => GaplessUntilDropped
  BY DEF HubInv
<1> QED
  BY <1>1, HubInvHolds, PTL

-----------------------------------------------------------------------------
(* The hub implements the fan-out *)

\* The abstract state, under short names.
Phases == [c \in Conns |-> FanoutPhase(c)]
Views == [c \in Conns |-> Received(c)]

LEMMA ListenersAreSubscribed == TypeOK => Fanout!Listening = subs
  BY DEF Fanout!Listening, FanoutPhase, TypeOK

LEMMA FanoutInit == Init => Fanout!FInit
<1> SUFFICES ASSUME Init PROVE Fanout!FInit
  OBVIOUS
<1>1. HubInv
  BY HubInvInit
<1>2. \A c \in Conns : Received(c) = <<>> /\ FanoutPhase(c) = "out"
  BY <1>1 DEF HubInv, NotSubscribedYet, Init, FanoutPhase
<1> QED
  BY <1>2 DEF Fanout!FInit, Init

\* A step that changes neither who is in which phase nor who received what.
LEMMA FanoutStutter ==
  ASSUME UNCHANGED <<published, since, closed>>,
         \A c \in Conns : FanoutPhase(c)' = FanoutPhase(c) /\ Received(c)' = Received(c)
  PROVE  UNCHANGED Fanout!fvars
BY DEF Fanout!fvars

\* One viewer that listened has ended and nothing else happened.
LEMMA FanoutEnd ==
  ASSUME TypeOK, NEW c \in subs,
         UNCHANGED <<published, since, closed>>,
         FanoutPhase(c)' = "ended",
         \A d \in Conns \ {c} : FanoutPhase(d)' = FanoutPhase(d),
         \A d \in Conns : Received(d)' = Received(d)
  PROVE  Fanout!FNext
<1>1. c \in Fanout!Listening /\ c \in Conns
  BY ListenersAreSubscribed DEF TypeOK
<1>2. Phases' = [Phases EXCEPT ![c] = "ended"]
  BY <1>1 DEF Phases
<1>3. Fanout!End(c)
  BY <1>1, <1>2 DEF Fanout!End, Phases
<1> QED
  BY <1>1, <1>3 DEF Fanout!FNext

LEMMA PublishIsBroadcast ==
  ASSUME HubInv, NEW p \in Publishers, Publish(p)
  PROVE  Fanout!FNext
<1> DEFINE reached == subs \ Slow
<1> USE DEF HubInv
<1>1. /\ ~closed /\ UNCHANGED <<closed, subs, conn, since>>
      /\ published' = published + 1
  BY DEF Publish, connVars
<1>2. reached \subseteq subs /\ reached \in SUBSET Conns
  BY DEF TypeOK
<1>3. Fanout!Listening = subs
  BY ListenersAreSubscribed
<1>4. \A c \in Conns : Received(c)' = IF c \in reached THEN Append(Received(c), published + 1)
                                      ELSE Received(c)
  BY PublishReceived
<1>5. \A c \in Conns : FanoutPhase(c)' = IF c \in subs \ reached THEN "lagging"
                                         ELSE FanoutPhase(c)
  <2>1. \A c \in Conns : Condemned(c)' <=> (c \in Slow \/ Condemned(c))
    BY PublishCondemns
  <2>2. QED
    BY <1>1, <2>1 DEF FanoutPhase, Slow
<1>6. Fanout!Broadcast(reached)
  BY <1>1, <1>2, <1>3, <1>4, <1>5 DEF Fanout!Broadcast
<1> QED
  BY <1>2, <1>6 DEF Fanout!FNext

LEMMA DropSlowIsEnd ==
  ASSUME HubInv, NEW p \in Publishers, DropSlow(p)
  PROVE  [Fanout!FNext]_(Fanout!fvars)
<1> USE DEF HubInv
<1>1. PICK d \in full[p] : Drop(d) /\ full' = [full EXCEPT ![p] = full[p] \ {d}]
  BY DEF DropSlow
<1>2. UNCHANGED <<published, since, closed, conn>>
  BY DEF DropSlow, connVars
<1>3. \A c \in Conns : Received(c)' = Received(c)
  BY DEF DropSlow, connVars, Received
<1>4. \A c \in Conns \ {d} : FanoutPhase(c)' = FanoutPhase(c)
  <2>1. \A c \in Conns \ {d} : Condemned(c)' <=> Condemned(c)
    BY <1>1, DropSlowPardonsNobody
  <2>2. \A c \in Conns \ {d} : c \in subs' <=> c \in subs
    BY <1>1 DEF Drop
  <2>3. QED
    BY <1>2, <2>1, <2>2 DEF FanoutPhase
<1>5. CASE d \in subs
  <2>1. d \notin subs' /\ conn[d] \notin {"new", "refused"}
    BY <1>1, <1>5 DEF Drop, SlotsBelongToHandlers, Attached
  <2>2. FanoutPhase(d)' = "ended"
    BY <1>2, <2>1 DEF FanoutPhase
  <2>3. QED
    BY <1>2, <1>3, <1>4, <1>5, <2>2, FanoutEnd
<1>6. CASE d \notin subs
  <2>1. FanoutPhase(d)' = FanoutPhase(d)
    BY <1>1, <1>2, <1>6 DEF Drop, FanoutPhase
  <2>2. QED
    BY <1>2, <1>3, <1>4, <2>1, FanoutStutter
<1> QED
  BY <1>5, <1>6

LEMMA CloseIsStop ==
  ASSUME HubInv, CloseHub
  PROVE  Fanout!FNext
<1> USE DEF HubInv
<1>1. /\ ~closed /\ closed' = TRUE /\ subs' = {}
      /\ UNCHANGED <<conn, published, since>>
      /\ \A c \in Conns : Received(c)' = Received(c)
  BY DEF CloseHub, connVars, Received
<1>2. Fanout!Listening = subs
  BY ListenersAreSubscribed
<1>3. \A c \in Conns : FanoutPhase(c)' = IF c \in subs THEN "ended" ELSE FanoutPhase(c)
  BY <1>1 DEF FanoutPhase, SlotsBelongToHandlers, Attached
<1>4. Fanout!Stop
  BY <1>1, <1>2, <1>3 DEF Fanout!Stop
<1> QED
  BY <1>4 DEF Fanout!FNext

LEMMA SubscribeIsJoin ==
  ASSUME HubInv, NEW c \in Conns, Subscribe(c)
  PROVE  Fanout!FNext
<1> USE DEF HubInv
<1>1. /\ conn[c] = "new" /\ conn' = [conn EXCEPT ![c] = "accepting"]
      /\ subs' = subs \cup {c}
      /\ since' = [since EXCEPT ![c] = published]
      /\ ~closed
      /\ UNCHANGED <<closed, full, published, delivered, inflight, ch>>
  BY DEF Subscribe, Goto
<1>2. \A d \in Conns : Received(d)' = Received(d) /\ (Condemned(d)' <=> Condemned(d))
  BY <1>1 DEF Received, Condemned
<1>3. c \notin subs /\ ~Condemned(c)
  BY <1>1 DEF SlotsBelongToHandlers, Attached, NotSubscribedYet
<1>4. FanoutPhase(c) = "out" /\ FanoutPhase(c)' = "live"
  BY <1>1, <1>2, <1>3 DEF FanoutPhase
<1>5. \A d \in Conns \ {c} : FanoutPhase(d)' = FanoutPhase(d)
  BY <1>1, <1>2 DEF FanoutPhase, TypeOK
<1>6. Phases' = [Phases EXCEPT ![c] = "live"]
  BY <1>4, <1>5 DEF Phases
<1>7. Fanout!Join(c)
  BY <1>1, <1>2, <1>4, <1>6 DEF Fanout!Join, Phases
<1> QED
  BY <1>7 DEF Fanout!FNext

\* Every handler step but the return leaves the viewers where they are.
LEMMA HandlerIsSilent ==
  ASSUME HubInv, NEW c \in Conns, [Next]_vars,
         \/ Refuse(c) \/ PeerGone(c) \/ Accept(c) \/ SeeDone(c) \/ Receive(c) \/ SeeClosed(c)
         \/ WriteOk(c) \/ WriteFail(c)
  PROVE  UNCHANGED Fanout!fvars \/ \E p \in Publishers : Publish(p) \/ DropSlow(p)
<1> USE DEF HubInv
<1>1. UNCHANGED <<published, since, closed, subs>>
  BY DEF Refuse, PeerGone, Accept, SeeDone, Receive, SeeClosed, WriteOk, WriteFail, hubVars
<1>2. ASSUME \A p \in Publishers : ~Publish(p) /\ ~DropSlow(p)
      PROVE  UNCHANGED Fanout!fvars
  <2>1. \A d \in Conns : Received(d)' = Received(d) /\ (Condemned(d)' <=> Condemned(d))
    BY <1>2, OthersKeepReceived, OthersKeepCondemned
  <2>2. \A d \in Conns : conn'[d] \in {"new", "refused"} <=> conn[d] \in {"new", "refused"}
    BY DEF Refuse, PeerGone, Accept, SeeDone, Receive, SeeClosed, WriteOk, WriteFail, Goto, TypeOK
  <2>3. \A d \in Conns : FanoutPhase(d)' = FanoutPhase(d)
    BY <1>1, <2>1, <2>2 DEF FanoutPhase
  <2>4. QED
    BY <1>1, <2>1, <2>3, FanoutStutter
<1> QED
  BY <1>2

LEMMA UnsubscribeIsEnd ==
  ASSUME HubInv, NEW c \in Conns, Unsubscribe(c)
  PROVE  [Fanout!FNext]_(Fanout!fvars)
<1> USE DEF HubInv
<1>1. /\ conn[c] = "closing" /\ conn' = [conn EXCEPT ![c] = "done"]
      /\ Drop(c)
      /\ UNCHANGED <<closed, full, published, since, delivered, inflight, ch>>
  BY DEF Unsubscribe, Goto
<1>2. \A d \in Conns : Received(d)' = Received(d) /\ (Condemned(d)' <=> Condemned(d))
  BY <1>1 DEF Received, Condemned
<1>3. \A d \in Conns \ {c} : FanoutPhase(d)' = FanoutPhase(d)
  BY <1>1, <1>2 DEF FanoutPhase, Drop, TypeOK
<1>4. FanoutPhase(c)' = "ended"
  BY <1>1 DEF FanoutPhase, Drop, TypeOK
<1>5. CASE c \in subs
  BY <1>1, <1>2, <1>3, <1>4, <1>5, FanoutEnd
<1>6. CASE c \notin subs
  <2>1. FanoutPhase(c) = "ended"
    BY <1>1, <1>6 DEF FanoutPhase
  <2>2. QED
    BY <1>1, <1>2, <1>3, <1>4, <2>1, FanoutStutter
<1> QED
  BY <1>5, <1>6

LEMMA FanoutStep == HubInv /\ [Next]_vars => [Fanout!FNext]_(Fanout!fvars)
<1> SUFFICES ASSUME HubInv, [Next]_vars PROVE [Fanout!FNext]_(Fanout!fvars)
  OBVIOUS
<1>1. ASSUME NEW p \in Publishers, Publish(p) \/ DropSlow(p)
      PROVE  [Fanout!FNext]_(Fanout!fvars)
  BY <1>1, PublishIsBroadcast, DropSlowIsEnd
<1>2. CASE CloseHub
  BY <1>2, CloseIsStop
<1>3. ASSUME NEW c \in Conns, Subscribe(c) PROVE [Fanout!FNext]_(Fanout!fvars)
  BY <1>3, SubscribeIsJoin
<1>4. ASSUME NEW c \in Conns, Unsubscribe(c) PROVE [Fanout!FNext]_(Fanout!fvars)
  BY <1>4, UnsubscribeIsEnd
<1>5. ASSUME NEW c \in Conns,
             \/ Refuse(c) \/ PeerGone(c) \/ Accept(c) \/ SeeDone(c) \/ Receive(c)
             \/ SeeClosed(c) \/ WriteOk(c) \/ WriteFail(c)
      PROVE  [Fanout!FNext]_(Fanout!fvars)
  BY <1>1, <1>5, HandlerIsSilent
<1>6. CASE UNCHANGED vars
  <2>1. UNCHANGED <<published, since, closed>>
    BY <1>6 DEF vars, hubVars
  <2>2. \A c \in Conns : FanoutPhase(c)' = FanoutPhase(c) /\ Received(c)' = Received(c)
    BY <1>6 DEF vars, hubVars, connVars, FanoutPhase, Condemned, Received
  <2>3. QED
    BY <2>1, <2>2, FanoutStutter
<1> QED
  BY <1>1, <1>2, <1>3, <1>4, <1>5, <1>6 DEF Next, HandlerStep

\* Every behaviour of the hub is one of the fan-out: one order of rows for
\* everyone, no gap except before the end, nothing after the end.
THEOREM HubImplementsFanout == Spec => ImplementsFanout
  BY FanoutInit, FanoutStep, HubInvHolds, PTL DEF Spec, ImplementsFanout, Fanout!FSpec
=============================================================================
