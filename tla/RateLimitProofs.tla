-------------------------- MODULE RateLimitProofs ---------------------------
(***************************************************************************)
(* Theorems about RateLimit, for every set of callers, every limit N and   *)
(* every resolution Second of the clock.                                   *)
(*                                                                         *)
(* The argument: a window opens only when the clock reading is a second or *)
(* more past the last opening, so the number of windows opened so far is   *)
(* at most the number of seconds begun; each lets at most N events through.*)
(* Budget is that statement without the count of windows.                  *)
(***************************************************************************)
EXTENDS RateLimit, FiniteSetTheorems, WellFoundedInduction, TLAPS

\* What was let through fits the windows before this one, plus this one's share.
Budget ==
  IF started THEN Len(admitted) <= N * (from \div Second) + used
  ELSE admitted = <<>> /\ used = 0

\* No window starts, and no clock was read, in the future.
NotInTheFuture == from <= now /\ \A g \in waiting : stamp[g] <= now

\* The events counted in used are the latest, published since from.
UsedIsTheTail ==
  /\ used <= Len(admitted)
  /\ \A i \in (Len(admitted) - used + 1)..Len(admitted) : admitted[i] >= from

LimitInv == TypeOK /\ Budget /\ NotInTheFuture /\ UsedIsTheTail

-----------------------------------------------------------------------------
(* Arithmetic *)

\* A time a full second later lies in a later second.
LEMMA LaterSecond ==
  ASSUME NEW s \in Nat \ {0}, NEW a \in Nat, NEW b \in Nat, a + s <= b
  PROVE  (a \div s) + 1 <= b \div s
  OBVIOUS

LEMMA SecondsGrow ==
  ASSUME NEW s \in Nat \ {0}, NEW a \in Nat, NEW b \in Nat, a <= b
  PROVE  a \div s <= b \div s /\ a \div s \in Nat /\ b \div s \in Nat
  OBVIOUS

\* One more second is room for n more events.
LEMMA OneMoreSecond ==
  ASSUME NEW n \in Nat, NEW a \in Nat, NEW b \in Nat, a + 1 <= b
  PROVE  n * a + n <= n * b
  OBVIOUS

LEMMA ProductGrows ==
  ASSUME NEW n \in Nat, NEW a \in Nat, NEW b \in Nat, a <= b
  PROVE  n * a <= n * b /\ n * a \in Nat /\ n * b \in Nat /\ n * (1 + b) = n * b + n
  OBVIOUS

-----------------------------------------------------------------------------
(* Allow, as one case for each of its outcomes *)

\* What a call decides: a new window or the current one, and yes or no.
LEMMA AllowCases ==
  ASSUME TypeOK, NEW g \in Callers, Allow(g)
  PROVE  /\ g \in waiting /\ waiting' = waiting \ {g}
         /\ started' = TRUE /\ now' = now
         /\ stamp' = [stamp EXCEPT ![g] = 0]
         /\ \/ /\ WindowOver(stamp[g])
               /\ from' = stamp[g]
               /\ used' = 1
               /\ admitted' = Append(admitted, now)
            \/ /\ ~WindowOver(stamp[g])
               /\ from' = from
               /\ used < N
               /\ used' = used + 1
               /\ admitted' = Append(admitted, now)
            \/ /\ ~WindowOver(stamp[g])
               /\ from' = from
               /\ used = N
               /\ used' = used
               /\ admitted' = admitted
<1>1. N \in Nat \ {0} /\ used \in 0..N
  BY NAssumption DEF TypeOK
<1>2. CASE WindowOver(stamp[g])
  <2>1. Decide(g, TRUE, 0)
    BY <1>2 DEF Allow
  <2>2. ~(0 >= N)
    BY <1>1
  <2>3. QED
    BY <1>2, <2>1, <2>2 DEF Decide
<1>3. CASE ~WindowOver(stamp[g])
  <2>1. CASE used = N
    <3>1. used >= N
      BY <1>1, <2>1
    <3>2. QED
      BY <1>3, <2>1, <3>1 DEF Allow, Decide
  <2>2. CASE used # N
    <3>1. used < N /\ ~(used >= N)
      BY <1>1, <2>2
    <3>2. QED
      BY <1>3, <3>1 DEF Allow, Decide
  <2>3. QED
    BY <2>1, <2>2
<1> QED
  BY <1>2, <1>3

-----------------------------------------------------------------------------
(* The inductive invariant *)

LEMMA LimitInit == Init => LimitInv
<1> SUFFICES ASSUME Init PROVE LimitInv
  OBVIOUS
<1>1. N \in Nat \ {0} /\ <<>> \in Seq(Nat) /\ Len(<<>>) = 0
  BY NAssumption
<1>2. TypeOK
  <2>1. used \in 0..N /\ admitted \in Seq(Nat) /\ stamp \in [Callers -> Nat]
    BY <1>1 DEF Init
  <2>2. QED
    BY <2>1 DEF Init, TypeOK
<1>3. Budget /\ NotInTheFuture /\ UsedIsTheTail
  BY <1>1 DEF Init, Budget, NotInTheFuture, UsedIsTheTail
<1> QED
  BY <1>2, <1>3 DEF LimitInv

LEMMA LimitTypeStep ==
  ASSUME TypeOK, [Next]_vars
  PROVE  TypeOK'
<1>1. CASE Tick
  BY <1>1 DEF Tick, TypeOK
<1>2. ASSUME NEW g \in Callers, ReadClock(g) PROVE TypeOK'
  BY <1>2 DEF ReadClock, TypeOK
<1>3. ASSUME NEW g \in Callers, Allow(g) PROVE TypeOK'
  <2>1. stalled' \in BOOLEAN
    BY <1>3 DEF Allow, Decide, TypeOK
  <2>2. /\ waiting' \subseteq Callers /\ started' \in BOOLEAN /\ now' \in Nat
        /\ stamp' \in [Callers -> Nat] /\ from' \in Nat
    <3>1. /\ waiting' = waiting \ {g} /\ started' = TRUE /\ now' = now
          /\ stamp' = [stamp EXCEPT ![g] = 0]
          /\ from' = stamp[g] \/ from' = from
      BY <1>3, AllowCases
    <3>2. QED
      BY <3>1 DEF TypeOK
  <2>3. used' \in 0..N
    <3>1. used' = 1 \/ (used < N /\ used' = used + 1) \/ used' = used
      BY <1>3, AllowCases
    <3>2. N \in Nat \ {0} /\ used \in 0..N
      BY NAssumption DEF TypeOK
    <3>3. QED
      BY <3>1, <3>2
  <2>4. admitted' \in Seq(Nat)
    <3>1. admitted' = Append(admitted, now) \/ admitted' = admitted
      BY <1>3, AllowCases
    <3>2. QED
      BY <3>1 DEF TypeOK
  <2>5. QED
    BY <2>1, <2>2, <2>3, <2>4 DEF TypeOK
<1>4. CASE UNCHANGED vars
  BY <1>4 DEF vars, TypeOK
<1> QED
  BY <1>1, <1>2, <1>3, <1>4 DEF Next

LEMMA FutureStep ==
  ASSUME TypeOK, NotInTheFuture, [Next]_vars
  PROVE  NotInTheFuture'
<1> USE DEF NotInTheFuture, TypeOK
<1>1. CASE Tick
  BY <1>1 DEF Tick
<1>2. ASSUME NEW g \in Callers, ReadClock(g) PROVE NotInTheFuture'
  BY <1>2 DEF ReadClock
<1>3. ASSUME NEW g \in Callers, Allow(g) PROVE NotInTheFuture'
  <2>1. /\ g \in waiting /\ waiting' = waiting \ {g} /\ now' = now
        /\ stamp' = [stamp EXCEPT ![g] = 0]
        /\ from' = stamp[g] \/ from' = from
    BY <1>3, AllowCases
  <2>2. QED
    BY <2>1
<1>4. CASE UNCHANGED vars
  BY <1>4 DEF vars
<1> QED
  BY <1>1, <1>2, <1>3, <1>4 DEF Next

LEMMA BudgetStep ==
  ASSUME TypeOK, Budget, [Next]_vars
  PROVE  Budget'
<1>1. CASE UNCHANGED <<started, from, used, admitted>>
  BY <1>1 DEF Budget
<1>2. ASSUME NEW g \in Callers, Allow(g) PROVE Budget'
  <2>1. /\ N \in Nat \ {0} /\ Second \in Nat \ {0} /\ used \in 0..N
        /\ from \in Nat /\ stamp[g] \in Nat /\ admitted \in Seq(Nat) /\ now \in Nat
    BY NAssumption, SecondAssumption DEF TypeOK
  <2>2. /\ from \div Second \in Nat /\ stamp[g] \div Second \in Nat
    BY <2>1, SecondsGrow
  <2>3. N * (from \div Second) \in Nat /\ N * (stamp[g] \div Second) \in Nat
    BY <2>1, <2>2, ProductGrows
  <2>4. Len(Append(admitted, now)) = Len(admitted) + 1 /\ Len(admitted) \in Nat
    BY <2>1
  <2>5. CASE WindowOver(stamp[g])
    <3>1. from' = stamp[g] /\ used' = 1 /\ admitted' = Append(admitted, now) /\ started'
      BY <1>2, <2>5, AllowCases
    <3>2. Len(admitted) <= N * (stamp[g] \div Second)
      <4>1. CASE started
        <5>1. from + Second <= stamp[g]
          BY <2>1, <2>5, <4>1 DEF WindowOver
        <5>2. (from \div Second) + 1 <= stamp[g] \div Second
          BY <2>1, <5>1, LaterSecond
        <5>3. N * (from \div Second) + N <= N * (stamp[g] \div Second)
          BY <2>1, <2>2, <5>2, OneMoreSecond
        <5>4. Len(admitted) <= N * (from \div Second) + used
          BY <4>1 DEF Budget
        <5>5. QED
          BY <2>1, <2>3, <2>4, <5>3, <5>4
      <4>2. CASE ~started
        <5>1. Len(admitted) = 0
          BY <4>2 DEF Budget
        <5>2. QED
          BY <2>3, <5>1
      <4>3. QED
        BY <4>1, <4>2
    <3>3. Len(admitted') <= N * (from' \div Second) + used'
      BY <2>3, <2>4, <3>1, <3>2
    <3>4. QED
      BY <3>1, <3>3 DEF Budget
  <2>6. CASE ~WindowOver(stamp[g])
    <3>1. started /\ started' /\ from' = from
      BY <1>2, <2>6, AllowCases DEF WindowOver
    <3>2. \/ used' = used + 1 /\ admitted' = Append(admitted, now)
          \/ used' = used /\ admitted' = admitted
      BY <1>2, <2>6, AllowCases
    <3>3. Len(admitted) <= N * (from \div Second) + used
      BY <3>1 DEF Budget
    <3>4. Len(admitted') <= N * (from' \div Second) + used'
      BY <2>1, <2>3, <2>4, <3>1, <3>2, <3>3
    <3>5. QED
      BY <3>1, <3>4 DEF Budget
  <2>7. QED
    BY <2>5, <2>6
<1>3. CASE Tick \/ UNCHANGED vars \/ \E g \in Callers : ReadClock(g)
  BY <1>1, <1>3 DEF Tick, ReadClock, vars
<1> QED
  BY <1>2, <1>3 DEF Next

LEMMA TailStep ==
  ASSUME TypeOK, NotInTheFuture, UsedIsTheTail, [Next]_vars
  PROVE  UsedIsTheTail'
<1>1. CASE UNCHANGED <<from, used, admitted>>
  BY <1>1 DEF UsedIsTheTail
<1>2. ASSUME NEW g \in Callers, Allow(g) PROVE UsedIsTheTail'
  <2>1. /\ N \in Nat \ {0} /\ used \in Nat /\ from \in Nat /\ from <= now
        /\ stamp[g] \in Nat /\ admitted \in Seq(Nat) /\ now \in Nat
    BY NAssumption DEF TypeOK, NotInTheFuture
  <2>2. stamp[g] <= now
    BY <1>2, AllowCases DEF NotInTheFuture
  <2>3. /\ Len(Append(admitted, now)) = Len(admitted) + 1 /\ Len(admitted) \in Nat
        /\ Append(admitted, now)[Len(admitted) + 1] = now
        /\ \A i \in 1..Len(admitted) : Append(admitted, now)[i] = admitted[i]
    BY <2>1
  <2>4. CASE WindowOver(stamp[g])
    <3>1. from' = stamp[g] /\ used' = 1 /\ admitted' = Append(admitted, now)
      BY <1>2, <2>4, AllowCases
    <3>2. QED
      BY <2>1, <2>2, <2>3, <3>1 DEF UsedIsTheTail
  <2>5. CASE ~WindowOver(stamp[g]) /\ used < N
    <3>1. from' = from /\ used' = used + 1 /\ admitted' = Append(admitted, now)
      <4>1. ~(used = N)
        BY <2>1, <2>5
      <4>2. QED
        BY <1>2, <2>5, <4>1, AllowCases
    <3>2. used' <= Len(admitted')
      BY <2>1, <2>3, <3>1 DEF UsedIsTheTail
    <3>3. ASSUME NEW i \in (Len(admitted') - used' + 1)..Len(admitted')
          PROVE  admitted'[i] >= from'
      <4>1. i \in (Len(admitted) - used + 1)..(Len(admitted) + 1)
        BY <2>1, <2>3, <3>1
      <4>2. CASE i = Len(admitted) + 1
        BY <2>1, <2>3, <3>1, <4>2
      <4>3. CASE i # Len(admitted) + 1
        <5>1. i \in (Len(admitted) - used + 1)..Len(admitted)
          BY <2>1, <2>3, <4>1, <4>3
        <5>2. used <= Len(admitted)
          BY DEF UsedIsTheTail
        <5>3. i \in 1..Len(admitted)
          BY <2>1, <2>3, <5>1, <5>2
        <5>4. QED
          BY <2>3, <3>1, <5>1, <5>3 DEF UsedIsTheTail
      <4>4. QED
        BY <4>2, <4>3
    <3>4. QED
      BY <3>2, <3>3 DEF UsedIsTheTail
  <2>6. CASE ~WindowOver(stamp[g]) /\ ~(used < N)
    BY <1>1, <1>2, <2>6, AllowCases
  <2>7. QED
    BY <2>4, <2>5, <2>6
<1>3. CASE Tick \/ UNCHANGED vars \/ \E g \in Callers : ReadClock(g)
  BY <1>1, <1>3 DEF Tick, ReadClock, vars
<1> QED
  BY <1>2, <1>3 DEF Next

LEMMA LimitInvHolds == Spec => []LimitInv
<1>1. LimitInv /\ [Next]_vars => LimitInv'
  BY LimitTypeStep, FutureStep, BudgetStep, TailStep DEF LimitInv
<1> QED
  BY LimitInit, <1>1, PTL DEF Spec

-----------------------------------------------------------------------------
(* The theorems *)

\* The counter never passes N and the state stays well-typed.
THEOREM LimitTypeCorrect == Spec => []TypeOK
<1>1. LimitInv => TypeOK
  BY DEF LimitInv
<1> QED
  BY <1>1, LimitInvHolds, PTL

\* Over the long run at most N events per second begun are published, however
\* long callers wait for the lock.
THEOREM LongRunRateHolds == Spec => []LongRunRate
<1>1. LimitInv => LongRunRate
  <2> SUFFICES ASSUME LimitInv PROVE LongRunRate
    OBVIOUS
  <2>1. /\ N \in Nat \ {0} /\ Second \in Nat \ {0} /\ used \in 0..N
        /\ from \in Nat /\ now \in Nat /\ from <= now /\ Len(admitted) \in Nat
    BY NAssumption, SecondAssumption DEF LimitInv, TypeOK, NotInTheFuture
  <2>2. from \div Second <= now \div Second /\ from \div Second \in Nat /\ now \div Second \in Nat
    BY <2>1, SecondsGrow
  <2>3. /\ N * (from \div Second) <= N * (now \div Second)
        /\ N * (from \div Second) \in Nat /\ N * (now \div Second) \in Nat
        /\ N * (1 + (now \div Second)) = N * (now \div Second) + N
    BY <2>1, <2>2, ProductGrows
  <2>4. CASE started
    <3>1. Len(admitted) <= N * (from \div Second) + used
      BY <2>4 DEF LimitInv, Budget
    <3>2. QED
      BY <2>1, <2>3, <3>1 DEF LongRunRate
  <2>5. CASE ~started
    <3>1. Len(admitted) = 0
      BY <2>5 DEF LimitInv, Budget
    <3>2. QED
      BY <2>1, <2>3, <3>1 DEF LongRunRate
  <2>6. QED
    BY <2>4, <2>5
<1> QED
  BY <1>1, LimitInvHolds, PTL

\* An event is refused only when N others were published less than a second
\* before its clock reading.
THEOREM NeverStarves == Spec => NoNeedlessRefusal
<1> DEFINE Recent(g) == {i \in DOMAIN admitted : admitted[i] + Second > stamp[g]}
           Refusal == \A g \in waiting \ waiting' :
                        admitted' = admitted => Cardinality(Recent(g)) >= N
<1>1. LimitInv /\ [Next]_vars => [Refusal]_vars
  <2> SUFFICES ASSUME LimitInv, Next, NEW g \in waiting \ waiting', admitted' = admitted
               PROVE  Cardinality(Recent(g)) >= N
    OBVIOUS
  <2>1. Allow(g)
    <3>1. ~Tick /\ \A h \in Callers : ~ReadClock(h)
      BY DEF Tick, ReadClock
    <3>2. PICK h \in Callers : Allow(h)
      BY <3>1 DEF Next
    <3>3. waiting' = waiting \ {h}
      BY <3>2, AllowCases DEF LimitInv
    <3>4. QED
      BY <3>2, <3>3
  <2>2. g \in Callers /\ admitted \in Seq(Nat) /\ now \in Nat
    BY DEF LimitInv, TypeOK
  <2>3. Append(admitted, now) # admitted
    <3>1. Len(Append(admitted, now)) = Len(admitted) + 1 /\ Len(admitted) \in Nat
      BY <2>2
    <3>2. QED
      BY <3>1
  <2>4. ~WindowOver(stamp[g]) /\ used = N
    BY <2>1, <2>2, <2>3, AllowCases DEF LimitInv
  <2>5. /\ N \in Nat \ {0} /\ Second \in Nat \ {0} /\ from \in Nat /\ stamp[g] \in Nat
        /\ Len(admitted) \in Nat /\ DOMAIN admitted = 1..Len(admitted)
        /\ stamp[g] < from + Second
    BY <2>2, <2>4, NAssumption, SecondAssumption DEF LimitInv, TypeOK, WindowOver
  <2> DEFINE tail == (Len(admitted) - N + 1)..Len(admitted)
  <2>6. N <= Len(admitted) /\ \A i \in tail : admitted[i] >= from
    BY <2>4 DEF LimitInv, UsedIsTheTail
  <2>7. tail \subseteq Recent(g)
    <3> SUFFICES ASSUME NEW i \in tail PROVE i \in Recent(g)
      OBVIOUS
    <3>1. i \in DOMAIN admitted /\ admitted[i] \in Nat /\ admitted[i] >= from
      BY <2>2, <2>5, <2>6
    <3>2. QED
      BY <2>5, <3>1
  <2>8. IsFiniteSet(tail) /\ Cardinality(tail) = N
    BY <2>5, <2>6, FS_Interval
  <2>9. IsFiniteSet(Recent(g))
    <3>1. IsFiniteSet(1..Len(admitted))
      BY <2>5, FS_Interval
    <3>2. Recent(g) \in SUBSET (1..Len(admitted))
      BY <2>5
    <3>3. QED
      BY <3>1, <3>2, FS_Subset
  <2>10. Cardinality(tail) <= Cardinality(Recent(g)) /\ Cardinality(Recent(g)) \in Nat
    BY <2>7, <2>9, FS_Subset, FS_CardinalityType
  <2>11. QED
    BY <2>5, <2>8, <2>10
<1> QED
  BY <1>1, LimitInvHolds, PTL DEF Spec, NoNeedlessRefusal

-----------------------------------------------------------------------------
(* The bound on bursts *)

\* While no caller was delayed: events are in the order of their times, the
\* current window starts with an event, and any event followed by N others
\* before that one lies a second or more before it.
Spacing ==
  ~stalled =>
    /\ \A i, j \in DOMAIN admitted : i <= j => admitted[i] <= admitted[j]
    /\ \A i \in DOMAIN admitted : admitted[i] <= now
    /\ started => /\ used \in 1..Len(admitted)
                  /\ admitted[Len(admitted) - used + 1] = from
                  /\ \A i \in DOMAIN admitted :
                       i + N <= Len(admitted) - used + 1 => admitted[i] + Second <= from

\* Two events with 2N - 2 others between them are a second or more apart.
FarApart ==
  ~stalled =>
    \A i, j \in DOMAIN admitted : i + (2 * N - 1) <= j => admitted[i] + Second <= admitted[j]

LEMMA SpacingStep ==
  ASSUME LimitInv, Spacing, FarApart, [Next]_vars
  PROVE  Spacing' /\ FarApart'
<1>1. CASE UNCHANGED <<started, from, used, admitted, stalled>> /\ (now' = now \/ now' = now + 1)
  <2>1. now \in Nat /\ admitted \in Seq(Nat)
    BY DEF LimitInv, TypeOK
  <2>2. \A i \in DOMAIN admitted : admitted[i] \in Nat
    BY <2>1
  <2>3. FarApart'
    BY <1>1 DEF FarApart
  <2>4. ~stalled => \A i \in DOMAIN admitted : admitted[i] <= now'
    BY <1>1, <2>1, <2>2 DEF Spacing
  <2>5. QED
    BY <1>1, <2>3, <2>4 DEF Spacing
<1>2. ASSUME NEW g \in Callers, Allow(g) PROVE Spacing' /\ FarApart'
  <2> SUFFICES ASSUME ~stalled' PROVE Spacing' /\ FarApart'
    BY DEF Spacing, FarApart
  <2>1. ~stalled /\ ~(stamp[g] < now)
    BY <1>2 DEF Allow, Decide
  <2>2. /\ N \in Nat \ {0} /\ Second \in Nat \ {0} /\ used \in 0..N /\ from \in Nat
        /\ stamp[g] \in Nat /\ admitted \in Seq(Nat) /\ now \in Nat /\ now' = now /\ started'
    BY <1>2, AllowCases, NAssumption, SecondAssumption DEF LimitInv, TypeOK
  <2>3. stamp[g] = now
    BY <1>2, <2>1, <2>2, AllowCases DEF LimitInv, NotInTheFuture
  <2> DEFINE len == Len(admitted)
             more == Append(admitted, now)
  <2>4. /\ len \in Nat /\ DOMAIN admitted = 1..len
        /\ Len(more) = len + 1 /\ DOMAIN more = 1..(len + 1)
        /\ more[len + 1] = now
        /\ \A i \in 1..len : more[i] = admitted[i] /\ admitted[i] \in Nat
    BY <2>2
  <2>5. /\ \A i, j \in 1..len : i <= j => admitted[i] <= admitted[j]
        /\ \A i \in 1..len : admitted[i] <= now
        /\ \A i, j \in 1..len : i + (2 * N - 1) <= j => admitted[i] + Second <= admitted[j]
    BY <2>1, <2>4 DEF Spacing, FarApart
  <2>6. started => /\ used \in 1..len
                   /\ admitted[len - used + 1] = from
                   /\ \A i \in 1..len : i + N <= len - used + 1 => admitted[i] + Second <= from
    BY <2>1, <2>4 DEF Spacing
  <2>7. \A i, j \in 1..(len + 1) : i <= j => more[i] <= more[j]
    BY <2>2, <2>4, <2>5
  <2>8. \A i \in 1..(len + 1) : more[i] <= now
    BY <2>2, <2>4, <2>5
  <2>9. CASE WindowOver(stamp[g])
    <3>1. from' = now /\ used' = 1 /\ admitted' = more
      BY <1>2, <2>3, <2>9, AllowCases DEF LimitInv
    <3>2. \A i \in 1..len : i + N <= len + 1 => admitted[i] + Second <= now
      <4> SUFFICES ASSUME NEW i \in 1..len, i + N <= len + 1 PROVE admitted[i] + Second <= now
        OBVIOUS
      <4>1. started
        BY <2>4 DEF LimitInv, Budget
      <4>2. from + Second <= now
        BY <2>2, <2>3, <2>9, <4>1 DEF WindowOver
      <4>3. i <= len - used + 1 /\ len - used + 1 \in 1..len
        BY <2>2, <2>4, <2>6, <4>1
      <4>4. admitted[i] <= from
        BY <2>5, <2>6, <4>1, <4>3
      <4>5. QED
        BY <2>2, <2>4, <4>2, <4>4
    <3>3. Spacing'
      BY <2>2, <2>4, <2>7, <2>8, <3>1, <3>2 DEF Spacing
    <3>4. ASSUME NEW i \in 1..(len + 1), NEW j \in 1..(len + 1), i + (2 * N - 1) <= j
          PROVE  more[i] + Second <= more[j]
      <4>1. i \in 1..len /\ i + N <= j
        BY <2>2, <2>4, <3>4
      <4>2. CASE j = len + 1
        <5>1. admitted[i] + Second <= now
          BY <2>4, <3>2, <4>1, <4>2
        <5>2. more[i] = admitted[i] /\ more[j] = now
          BY <2>4, <4>1, <4>2
        <5>3. QED
          BY <5>1, <5>2
      <4>3. CASE j \in 1..len
        <5>1. more[i] = admitted[i] /\ more[j] = admitted[j]
          BY <2>4, <4>1, <4>3
        <5>2. admitted[i] + Second <= admitted[j]
          BY <2>5, <3>4, <4>1, <4>3
        <5>3. QED
          BY <5>1, <5>2
      <4>4. QED
        BY <2>4, <4>2, <4>3
    <3>5. QED
      BY <2>4, <3>1, <3>3, <3>4 DEF FarApart
  <2>10. CASE ~WindowOver(stamp[g]) /\ used < N
    <3>1. from' = from /\ used' = used + 1 /\ admitted' = more /\ started
      <4>1. ~(used = N)
        BY <2>2, <2>10
      <4>2. QED
        BY <1>2, <2>10, <4>1, AllowCases DEF WindowOver, LimitInv
    <3>2. used' \in 1..(len + 1) /\ (len + 1) - used' + 1 = len - used + 1
      BY <2>2, <2>4, <2>6, <3>1
    <3>3. len - used + 1 \in 1..len /\ more[len - used + 1] = from
      BY <2>2, <2>4, <2>6, <3>1
    <3>4. \A i \in 1..(len + 1) : i + N <= len - used + 1 => more[i] + Second <= from
      BY <2>2, <2>4, <2>6, <3>1, <3>3
    <3>5. Spacing'
      BY <2>2, <2>4, <2>7, <2>8, <3>1, <3>2, <3>3, <3>4 DEF Spacing
    <3>6. from <= now
      BY DEF LimitInv, NotInTheFuture
    <3>7. ASSUME NEW i \in 1..(len + 1), NEW j \in 1..(len + 1), i + (2 * N - 1) <= j
          PROVE  more[i] + Second <= more[j]
      <4>1. i \in 1..len
        BY <2>2, <2>4, <3>7
      <4>2. CASE j = len + 1
        <5>1. i + N <= len - used + 1
          BY <2>2, <2>4, <2>10, <3>7, <4>2
        <5>2. more[i] + Second <= from
          BY <3>4, <5>1
        <5>3. QED
          BY <2>2, <2>4, <3>6, <4>1, <4>2, <5>2
      <4>3. CASE j # len + 1
        <5>1. j \in 1..len
          BY <2>4, <4>3
        <5>2. admitted[i] + Second <= admitted[j]
          BY <2>5, <3>7, <4>1, <5>1
        <5>3. QED
          BY <2>4, <4>1, <5>1, <5>2
      <4>4. QED
        BY <4>2, <4>3
    <3>8. QED
      BY <2>4, <3>1, <3>5, <3>7 DEF FarApart
  <2>11. CASE ~WindowOver(stamp[g]) /\ ~(used < N)
    <3>1. started /\ UNCHANGED <<from, used, admitted>>
      BY <1>2, <2>11, AllowCases DEF WindowOver, LimitInv
    <3>2. QED
      BY <2>1, <2>2, <3>1 DEF Spacing, FarApart
  <2>12. QED
    BY <2>9, <2>10, <2>11
<1>3. CASE Tick
  BY <1>1, <1>3 DEF Tick
<1>4. CASE UNCHANGED vars \/ \E g \in Callers : ReadClock(g)
  BY <1>1, <1>4 DEF ReadClock, vars
<1> QED
  BY <1>2, <1>3, <1>4 DEF Next

\* A nonempty set of indices has a first one.
LEMMA FirstIndex ==
  ASSUME NEW I \in SUBSET Nat, I # {}
  PROVE  \E k \in I : \A i \in I : k <= i
<1>1. PICK k \in I : \A i \in I : <<i, k>> \notin OpToRel(<, Nat)
  BY NatLessThanWellFounded, WFMin
<1>2. \A i \in I : ~(i < k)
  BY <1>1 DEF OpToRel
<1> QED
  BY <1>2

\* A second of the clock holds at most 2N - 1 events as long as no caller is
\* delayed between the clock and the lock.
THEOREM BurstsAreBounded == Spec => []BurstBound
<1>1. Init => Spacing /\ FarApart
  BY DEF Init, Spacing, FarApart
<1>2. LimitInv /\ FarApart => BurstBound
  <2> SUFFICES ASSUME LimitInv, FarApart, ~stalled, NEW t \in 0..now
               PROVE  Cardinality(InSecondUpTo(t)) <= 2 * N - 1
    BY DEF BurstBound
  <2> DEFINE I == InSecondUpTo(t)
  <2>1. /\ N \in Nat \ {0} /\ Second \in Nat \ {0} /\ admitted \in Seq(Nat) /\ t \in Nat
        /\ DOMAIN admitted = 1..Len(admitted) /\ Len(admitted) \in Nat
        /\ \A i \in DOMAIN admitted : admitted[i] \in Nat
    BY NAssumption, SecondAssumption DEF LimitInv, TypeOK
  <2>2. CASE I = {}
    BY <2>1, <2>2, FS_EmptySet
  <2>3. CASE I # {}
    <3>1. I \in SUBSET Nat
      BY <2>1 DEF InSecondUpTo
    <3>2. PICK k \in I : \A i \in I : k <= i
      BY <2>3, <3>1, FirstIndex
    <3>3. I \in SUBSET (k..(k + (2 * N - 2)))
      <4> SUFFICES ASSUME NEW i \in I PROVE i \in k..(k + (2 * N - 2))
        OBVIOUS
      <4>1. /\ i \in DOMAIN admitted /\ k \in DOMAIN admitted /\ k <= i
            /\ admitted[i] <= t /\ admitted[k] + Second > t
        BY <3>2 DEF InSecondUpTo
      <4>2. ~(admitted[k] + Second <= admitted[i])
        BY <2>1, <4>1
      <4>3. ~(k + (2 * N - 1) <= i)
        BY <4>1, <4>2 DEF FarApart
      <4>4. QED
        BY <2>1, <4>1, <4>3
    <3>4. k \in Int /\ k + (2 * N - 2) \in Int /\ ~(k > k + (2 * N - 2))
      BY <2>1, <3>1, <3>2
    <3>5. /\ IsFiniteSet(k..(k + (2 * N - 2)))
          /\ Cardinality(k..(k + (2 * N - 2))) = (k + (2 * N - 2)) - k + 1
      BY <3>4, FS_Interval
    <3>6. Cardinality(I) <= (k + (2 * N - 2)) - k + 1
      BY <3>3, <3>5, FS_Subset
    <3>7. (k + (2 * N - 2)) - k + 1 = 2 * N - 1
      BY <2>1, <3>4
    <3>8. QED
      BY <3>6, <3>7
  <2>4. QED
    BY <2>2, <2>3
<1> QED
  BY <1>1, <1>2, SpacingStep, LimitInvHolds, PTL DEF Spec
=============================================================================
