-------------------------- MODULE TraceViewProofs ---------------------------
(***************************************************************************)
(* Proofs about TraceView, for requests of any length, stored any number   *)
(* of times, and for spans of any shape: cycles, orphans, copies and       *)
(* versions of a span, spans that end before they start.                   *)
(*                                                                         *)
(* The operators of TraceAnalysis and Waterfall are folds over lists.      *)
(* FoldLoop of LiveRowsProofs turns a fold into a loop; each operator has  *)
(* a lemma ...Loop that does so, and its own invariant over the rounds.    *)
(***************************************************************************)
EXTENDS TraceView, LiveRowsProofs, FiniteSetTheorems

-----------------------------------------------------------------------------
(* The loops of TraceAnalysis and Waterfall *)

\* v is w with e put in at the place q.
PutAt(v, w, e, q) ==
  /\ Len(v) = Len(w) + 1
  /\ \A k \in 1..(Len(w) + 1) : v[k] = IF k < q THEN w[k] ELSE IF k = q THEN e ELSE w[k - 1]

\* What InsertAt does to the list.
LEMMA InsertAtIs ==
  ASSUME NEW R, NEW w \in Seq(R), NEW e \in R, NEW q \in 1..(Len(w) + 1)
  PROVE  InsertAt(w, q, e) \in Seq(R) /\ PutAt(InsertAt(w, q, e), w, e, q)
<1> DEFINE n == Len(w)
           a == SubSeq(w, 1, q - 1)
           b == SubSeq(w, q, n)
<1>1. n \in Nat /\ q \in Nat /\ q >= 1 /\ q <= n + 1
  OBVIOUS
<1>2. a \in Seq(R) /\ Len(a) = q - 1 /\ \A k \in 1..(q - 1) : a[k] = w[k]
  BY <1>1, SubSeqProperties
<1>3. b \in Seq(R) /\ Len(b) = n - q + 1 /\ \A k \in 1..(n - q + 1) : b[k] = w[q + k - 1]
  BY <1>1, SubSeqProperties
<1> HIDE DEF a, b, n
<1>4. <<e>> \in Seq(R) /\ Len(<<e>>) = 1 /\ <<e>>[1] = e
  OBVIOUS
<1> DEFINE c == a \o <<e>>
<1>5. c \in Seq(R) /\ Len(c) = q /\ c[q] = e /\ \A k \in 1..(q - 1) : c[k] = w[k]
  BY SMTT(20), <1>1, <1>2, <1>4
<1> HIDE DEF c
<1> DEFINE v == c \o b
<1>6. v \in Seq(R) /\ Len(v) = n + 1 /\ \A k \in 1..(n + 1) : v[k] = IF k <= q THEN c[k] ELSE b[k - q]
  <2>1. v \in Seq(R) /\ Len(v) = Len(c) + Len(b)
        /\ \A k \in 1..(Len(c) + Len(b)) : v[k] = IF k <= Len(c) THEN c[k] ELSE b[k - Len(c)]
    BY <1>3, <1>5, ConcatProperties
  <2>2. Len(c) + Len(b) = n + 1
    BY <1>1, <1>3, <1>5
  <2> QED
    BY <1>5, <2>1, <2>2
<1> HIDE DEF v
<1>7. ASSUME NEW k \in 1..(n + 1)
      PROVE  v[k] = IF k < q THEN w[k] ELSE IF k = q THEN e ELSE w[k - 1]
  <2>0. k \in Nat /\ k >= 1 /\ k <= n + 1
    BY <1>1
  <2>1. CASE k <= q
    <3>1. v[k] = c[k]
      BY <1>6, <2>1
    <3> QED
      BY <1>1, <1>5, <2>0, <2>1, <3>1
  <2>2. CASE k > q
    <3>1. v[k] = b[k - q] /\ k - q \in 1..(n - q + 1)
      BY <1>1, <1>6, <2>0, <2>2
    <3>2. q + (k - q) - 1 = k - 1
      BY <1>1
    <3> QED
      BY <1>1, <1>3, <2>0, <2>2, <3>1, <3>2
  <2> QED
    BY <1>1, <2>0, <2>1, <2>2
<1>8. InsertAt(w, q, e) = v
  BY DEF InsertAt, a, b, c, n, v
<1> QED
  BY <1>6, <1>7, <1>8 DEF n, PutAt

\* The loop of Sorted: the sequence out, with e put in.
Inserted(out, e, before) ==
  LET after == {i \in DOMAIN out : <<e, out[i]>> \in before}
  IN  IF after = {} THEN Append(out, e) ELSE InsertAt(out, Min(after), e)

\* It stands before the first element that it has to stand before.
LEMMA InsertedIs ==
  ASSUME NEW R, NEW w \in Seq(R), NEW e \in R, NEW before
  PROVE  \E q \in 1..(Len(w) + 1) :
           /\ Inserted(w, e, before) \in Seq(R)
           /\ PutAt(Inserted(w, e, before), w, e, q)
           /\ \A k \in 1..(q - 1) : <<e, w[k]>> \notin before
           /\ q <= Len(w) => <<e, w[q]>> \in before
<1> DEFINE n == Len(w)
           after == {i \in DOMAIN w : <<e, w[i]>> \in before}
           v == Inserted(w, e, before)
<1>1. n \in Nat /\ DOMAIN w = 1..n
  OBVIOUS
<1>2. CASE after = {}
  <2>1. v = Append(w, e)
    BY <1>2 DEF Inserted
  <2>2. v \in Seq(R) /\ Len(v) = n + 1 /\ v[n + 1] = e /\ \A k \in 1..n : v[k] = w[k]
    BY <2>1
  <2>3. \A k \in 1..n : <<e, w[k]>> \notin before
    BY <1>1, <1>2
  <2> HIDE DEF v
  <2>4. n + 1 \in 1..(n + 1) /\ \A k \in 1..(n + 1) : k = n + 1 \/ (k \in 1..n /\ k < n + 1)
    BY <1>1
  <2>5. \A k \in 1..(n + 1) : v[k] = IF k < n + 1 THEN w[k] ELSE IF k = n + 1 THEN e ELSE w[k - 1]
    BY <1>1, <2>2, <2>4
  <2>6. (n + 1) - 1 = n /\ ~ (n + 1 <= n)
    BY <1>1
  <2> QED
    BY <2>2, <2>3, <2>4, <2>5, <2>6 DEF v, PutAt
<1>3. CASE after # {}
  <2> DEFINE q == Min(after)
  <2>1. after \in SUBSET Nat
    BY <1>1
  <2>2. q \in after /\ \A k \in after : q <= k
    BY <1>3, <2>1, MinOfNumbers
  <2>3. v = InsertAt(w, q, e)
    BY <1>3 DEF Inserted
  <2> HIDE DEF q
  <2>4. q \in 1..n /\ q \in 1..(n + 1) /\ <<e, w[q]>> \in before
    BY <1>1, <2>2
  <2>5. \A k \in 1..(q - 1) : k \in DOMAIN w /\ ~ (q <= k)
    BY <1>1, <2>4
  <2>6. \A k \in 1..(q - 1) : <<e, w[k]>> \notin before
    BY <2>2, <2>5
  <2>7. v \in Seq(R) /\ PutAt(v, w, e, q)
    BY <2>3, <2>4, InsertAtIs
  <2> HIDE DEF v
  <2>8. \E p \in 1..(n + 1) :
           /\ v \in Seq(R) /\ PutAt(v, w, e, p)
           /\ \A k \in 1..(p - 1) : <<e, w[k]>> \notin before
           /\ p <= n => <<e, w[p]>> \in before
    BY <2>4, <2>6, <2>7
  <2> QED
    BY <2>8 DEF v
<1> QED
  BY <1>2, <1>3

\* The rounds of Sorted.
SortedRounds(f, seq, before) ==
  /\ f[0] = <<>>
  /\ \A i \in 1..Len(seq) : f[i] = Inserted(f[i - 1], seq[i], before)

\* Sorted as a loop.
LEMMA SortedLoop ==
  ASSUME NEW R, NEW seq \in Seq(R), NEW before
  PROVE  \E f \in [0..Len(seq) -> Seq(R)] : SortedRounds(f, seq, before) /\ Sorted(seq, before) = f[Len(seq)]
<1> DEFINE n == Len(seq)
           S == Seq(R)
           start == <<>>
           Round == [i \in 1..n |-> [acc \in S |-> Inserted(acc, seq[i], before)]]
           Body(k) == [U \in SUBSET DOMAIN seq |->
                         IF U = {} THEN <<>>
                         ELSE LET x == Max(U) IN Inserted(k[U \ {x}], seq[x], before)]
           iter == CHOOSE k : k = Body(k)
<1>1. n \in Nat /\ DOMAIN seq = 1..n /\ start \in S /\ \A i \in 1..n : seq[i] \in R
  OBVIOUS
<1>2. Round \in [1..n -> [S -> S]]
  <2>1. \A acc \in S, e \in R : Inserted(acc, e, before) \in S
    BY InsertedIs
  <2> QED
    BY <1>1, <2>1
<1>3. PICK g \in [SUBSET (1..n) -> S] : Folds(g, n, start, Round)
  <2> HIDE DEF n, S, start, Round
  <2> QED
    BY <1>1, <1>2, FoldIsDefined
<1>4. g = Body(g)
  <2>1. ASSUME NEW U \in SUBSET (1..n), U # {}
        PROVE  Max(U) \in 1..n /\ U \ {Max(U)} \in SUBSET (1..n)
    BY <1>1, <2>1, MaxOfNumbers
  <2>2. ASSUME NEW U \in SUBSET (1..n), U # {} PROVE g[U] = Body(g)[U]
    <3> DEFINE x == Max(U)
               V == U \ {x}
    <3>1. x \in 1..n /\ V \in SUBSET (1..n)
      BY <2>1, <2>2
    <3>2. g[U] = Round[x][g[V]] /\ g[V] \in S
      BY <1>3, <2>2, <3>1 DEF Folds
    <3>3. Body(g)[U] = Inserted(g[V], seq[x], before)
      BY <1>1, <2>2
    <3> HIDE DEF x, V
    <3>4. g[U] = Inserted(g[V], seq[x], before)
      BY <3>1, <3>2
    <3> QED
      BY <3>3, <3>4, Zenon
  <2>3. g[{}] = Body(g)[{}]
    BY <1>1, <1>3 DEF Folds
  <2>4. \A U \in SUBSET (1..n) : g[U] = Body(g)[U]
    BY <2>2, <2>3
  <2> QED
    BY <1>1, <2>4
<1>5. iter = Body(iter)
  BY <1>4
<1>6. Sorted(seq, before) = iter[1..n]
  BY <1>1 DEF Sorted, Inserted, FoldLeft, MapThenFoldSet
<1> HIDE DEF iter
<1>7. iter[{}] = start
  BY <1>5
<1>8. ASSUME NEW i \in 1..n, iter[1..(i - 1)] \in S PROVE iter[1..i] = Round[i][iter[1..(i - 1)]]
  <2>1. 1..i \in SUBSET DOMAIN seq /\ 1..i # {} /\ Max(1..i) = i /\ (1..i) \ {i} = 1..(i - 1)
    BY <1>1, MaxUpto
  <2>2. iter[1..i] = Body(iter)[1..i]
    BY <1>5, Zenon
  <2>3. Body(iter)[1..i] = Inserted(iter[1..(i - 1)], seq[i], before)
    BY <2>1
  <2> DEFINE acc == iter[1..(i - 1)]
  <2> HIDE DEF acc
  <2>4. acc \in S /\ Round[i][acc] = Inserted(acc, seq[i], before)
    BY <1>8 DEF acc
  <2> QED
    BY <2>2, <2>3, <2>4, Zenon DEF acc
<1>9. PICK f : IsLoop(f, S, n, start, Round) /\ f[n] = iter[1..n]
  <2>1. Unfolds(iter, S, n, start, Round)
    BY <1>7, <1>8 DEF Unfolds
  <2> HIDE DEF n, S, start, Round
  <2> QED
    BY <1>1, <1>2, <2>1, FoldLoop
<1>10. f \in [0..n -> S] /\ f[0] = start /\ \A i \in 1..n : f[i] = Round[i][f[i - 1]]
  BY <1>9 DEF IsLoop
<1>11. ASSUME NEW i \in 1..n PROVE f[i] = Inserted(f[i - 1], seq[i], before)
  <2> DEFINE acc == f[i - 1]
  <2>1. acc \in S /\ f[i] = Round[i][acc]
    <3>1. i - 1 \in 0..n
      BY <1>1
    <3> QED
      BY <1>10, <3>1
  <2> HIDE DEF acc
  <2>2. f[i] = Inserted(acc, seq[i], before)
    BY <2>1
  <2> QED
    BY <2>2, Zenon DEF acc
<1>12. SortedRounds(f, seq, before)
  BY <1>10, <1>11 DEF SortedRounds
<1> QED
  BY <1>6, <1>9, <1>10, <1>12

\* The rounds of PickRoot.
RootRounds(f, list) ==
  /\ f[0] = <<>>
  /\ \A i \in 1..Len(list) : f[i] = IF BetterRoot(f[i - 1], list[i]) THEN <<list[i]>> ELSE f[i - 1]

\* PickRoot as a loop.
LEMMA PickRootLoop ==
  ASSUME NEW R, NEW list \in Seq(R)
  PROVE  \E f \in [0..Len(list) -> ({<<>>} \cup {<<r>> : r \in R})] :
           RootRounds(f, list) /\ PickRoot(list) = f[Len(list)]
<1> DEFINE n == Len(list)
           S == ({<<>>} \cup {<<r>> : r \in R})
           start == <<>>
           Round == [i \in 1..n |-> [acc \in S |-> IF BetterRoot(acc, list[i]) THEN <<list[i]>> ELSE acc]]
           Body(k) == [U \in SUBSET DOMAIN list |->
                         IF U = {} THEN <<>>
                         ELSE LET x == Max(U) IN IF BetterRoot(k[U \ {x}], list[x]) THEN <<list[x]>> ELSE k[U \ {x}]]
           iter == CHOOSE k : k = Body(k)
<1>1. n \in Nat /\ DOMAIN list = 1..n /\ start \in S /\ \A i \in 1..n : list[i] \in R
  OBVIOUS
<1>2. Round \in [1..n -> [S -> S]]
  BY <1>1
<1>3. PICK g \in [SUBSET (1..n) -> S] : Folds(g, n, start, Round)
  <2> HIDE DEF n, S, start, Round
  <2> QED
    BY <1>1, <1>2, FoldIsDefined
<1>4. g = Body(g)
  <2>1. ASSUME NEW U \in SUBSET (1..n), U # {}
        PROVE  Max(U) \in 1..n /\ U \ {Max(U)} \in SUBSET (1..n)
    BY <1>1, <2>1, MaxOfNumbers
  <2>2. ASSUME NEW U \in SUBSET (1..n), U # {} PROVE g[U] = Body(g)[U]
    <3> DEFINE x == Max(U)
               V == U \ {x}
    <3>1. x \in 1..n /\ V \in SUBSET (1..n)
      BY <2>1, <2>2
    <3>2. g[U] = Round[x][g[V]] /\ g[V] \in S
      BY <1>3, <2>2, <3>1 DEF Folds
    <3>3. Body(g)[U] = IF BetterRoot(g[V], list[x]) THEN <<list[x]>> ELSE g[V]
      BY <1>1, <2>2
    <3> HIDE DEF x, V
    <3>4. g[U] = IF BetterRoot(g[V], list[x]) THEN <<list[x]>> ELSE g[V]
      BY <3>1, <3>2
    <3> QED
      BY <3>3, <3>4, Zenon
  <2>3. g[{}] = Body(g)[{}]
    BY <1>1, <1>3 DEF Folds
  <2>4. \A U \in SUBSET (1..n) : g[U] = Body(g)[U]
    BY <2>2, <2>3
  <2> QED
    BY <1>1, <2>4
<1>5. iter = Body(iter)
  BY <1>4
<1>6. PickRoot(list) = iter[1..n]
  BY <1>1 DEF PickRoot, FoldLeft, MapThenFoldSet
<1> HIDE DEF iter
<1>7. iter[{}] = start
  BY <1>5
<1>8. ASSUME NEW i \in 1..n, iter[1..(i - 1)] \in S PROVE iter[1..i] = Round[i][iter[1..(i - 1)]]
  <2>1. 1..i \in SUBSET DOMAIN list /\ 1..i # {} /\ Max(1..i) = i /\ (1..i) \ {i} = 1..(i - 1)
    BY <1>1, MaxUpto
  <2>2. iter[1..i] = Body(iter)[1..i]
    BY <1>5, Zenon
  <2>3. Body(iter)[1..i] = IF BetterRoot(iter[1..(i - 1)], list[i]) THEN <<list[i]>> ELSE iter[1..(i - 1)]
    BY <2>1
  <2> DEFINE acc == iter[1..(i - 1)]
  <2> HIDE DEF acc
  <2>4. acc \in S /\ Round[i][acc] = IF BetterRoot(acc, list[i]) THEN <<list[i]>> ELSE acc
    BY <1>8 DEF acc
  <2> QED
    BY <2>2, <2>3, <2>4, Zenon DEF acc
<1>9. PICK f : IsLoop(f, S, n, start, Round) /\ f[n] = iter[1..n]
  <2>1. Unfolds(iter, S, n, start, Round)
    BY <1>7, <1>8 DEF Unfolds
  <2> HIDE DEF n, S, start, Round
  <2> QED
    BY <1>1, <1>2, <2>1, FoldLoop
<1>10. f \in [0..n -> S] /\ f[0] = start /\ \A i \in 1..n : f[i] = Round[i][f[i - 1]]
  BY <1>9 DEF IsLoop
<1>11. ASSUME NEW i \in 1..n PROVE f[i] = IF BetterRoot(f[i - 1], list[i]) THEN <<list[i]>> ELSE f[i - 1]
  <2> DEFINE acc == f[i - 1]
  <2>1. acc \in S /\ f[i] = Round[i][acc]
    <3>1. i - 1 \in 0..n
      BY <1>1
    <3> QED
      BY <1>10, <3>1
  <2> HIDE DEF acc
  <2>2. f[i] = IF BetterRoot(acc, list[i]) THEN <<list[i]>> ELSE acc
    BY <2>1
  <2> QED
    BY <2>2, Zenon DEF acc
<1>12. RootRounds(f, list)
  BY <1>10, <1>11 DEF RootRounds
<1> QED
  BY <1>6, <1>9, <1>10, <1>12

\* The rounds of PickLatestEnd.
Later(s, best) ==
  \/ best = <<>>
  \/ End(s) > End(best[1])
  \/ End(s) = End(best[1]) /\ s.dur > best[1].dur

LatestRounds(f, list) ==
  /\ f[0] = <<>>
  /\ \A i \in 1..Len(list) : f[i] = IF Later(list[i], f[i - 1]) THEN <<list[i]>> ELSE f[i - 1]

\* PickLatestEnd as a loop.
LEMMA PickLatestEndLoop ==
  ASSUME NEW R, NEW list \in Seq(R)
  PROVE  \E f \in [0..Len(list) -> ({<<>>} \cup {<<r>> : r \in R})] :
           LatestRounds(f, list) /\ PickLatestEnd(list) = f[Len(list)]
<1> DEFINE n == Len(list)
           S == ({<<>>} \cup {<<r>> : r \in R})
           start == <<>>
           Round == [i \in 1..n |-> [acc \in S |-> IF Later(list[i], acc) THEN <<list[i]>> ELSE acc]]
           Body(k) == [U \in SUBSET DOMAIN list |->
                         IF U = {} THEN <<>>
                         ELSE LET x == Max(U) IN IF Later(list[x], k[U \ {x}]) THEN <<list[x]>> ELSE k[U \ {x}]]
           iter == CHOOSE k : k = Body(k)
<1>1. n \in Nat /\ DOMAIN list = 1..n /\ start \in S /\ \A i \in 1..n : list[i] \in R
  OBVIOUS
<1>2. Round \in [1..n -> [S -> S]]
  BY <1>1
<1>3. PICK g \in [SUBSET (1..n) -> S] : Folds(g, n, start, Round)
  <2> HIDE DEF n, S, start, Round
  <2> QED
    BY <1>1, <1>2, FoldIsDefined
<1>4. g = Body(g)
  <2>1. ASSUME NEW U \in SUBSET (1..n), U # {}
        PROVE  Max(U) \in 1..n /\ U \ {Max(U)} \in SUBSET (1..n)
    BY <1>1, <2>1, MaxOfNumbers
  <2>2. ASSUME NEW U \in SUBSET (1..n), U # {} PROVE g[U] = Body(g)[U]
    <3> DEFINE x == Max(U)
               V == U \ {x}
    <3>1. x \in 1..n /\ V \in SUBSET (1..n)
      BY <2>1, <2>2
    <3>2. g[U] = Round[x][g[V]] /\ g[V] \in S
      BY <1>3, <2>2, <3>1 DEF Folds
    <3>3. Body(g)[U] = IF Later(list[x], g[V]) THEN <<list[x]>> ELSE g[V]
      BY <1>1, <2>2
    <3> HIDE DEF x, V
    <3>4. g[U] = IF Later(list[x], g[V]) THEN <<list[x]>> ELSE g[V]
      BY <3>1, <3>2
    <3> QED
      BY <3>3, <3>4, Zenon
  <2>3. g[{}] = Body(g)[{}]
    BY <1>1, <1>3 DEF Folds
  <2>4. \A U \in SUBSET (1..n) : g[U] = Body(g)[U]
    BY <2>2, <2>3
  <2> QED
    BY <1>1, <2>4
<1>5. iter = Body(iter)
  BY <1>4
<1>6. PickLatestEnd(list) = iter[1..n]
  BY <1>1 DEF PickLatestEnd, Later, FoldLeft, MapThenFoldSet
<1> HIDE DEF iter
<1>7. iter[{}] = start
  BY <1>5
<1>8. ASSUME NEW i \in 1..n, iter[1..(i - 1)] \in S PROVE iter[1..i] = Round[i][iter[1..(i - 1)]]
  <2>1. 1..i \in SUBSET DOMAIN list /\ 1..i # {} /\ Max(1..i) = i /\ (1..i) \ {i} = 1..(i - 1)
    BY <1>1, MaxUpto
  <2>2. iter[1..i] = Body(iter)[1..i]
    BY <1>5, Zenon
  <2>3. Body(iter)[1..i] = IF Later(list[i], iter[1..(i - 1)]) THEN <<list[i]>> ELSE iter[1..(i - 1)]
    BY <2>1
  <2> DEFINE acc == iter[1..(i - 1)]
  <2> HIDE DEF acc
  <2>4. acc \in S /\ Round[i][acc] = IF Later(list[i], acc) THEN <<list[i]>> ELSE acc
    BY <1>8 DEF acc
  <2> QED
    BY <2>2, <2>3, <2>4, Zenon DEF acc
<1>9. PICK f : IsLoop(f, S, n, start, Round) /\ f[n] = iter[1..n]
  <2>1. Unfolds(iter, S, n, start, Round)
    BY <1>7, <1>8 DEF Unfolds
  <2> HIDE DEF n, S, start, Round
  <2> QED
    BY <1>1, <1>2, <2>1, FoldLoop
<1>10. f \in [0..n -> S] /\ f[0] = start /\ \A i \in 1..n : f[i] = Round[i][f[i - 1]]
  BY <1>9 DEF IsLoop
<1>11. ASSUME NEW i \in 1..n PROVE f[i] = IF Later(list[i], f[i - 1]) THEN <<list[i]>> ELSE f[i - 1]
  <2> DEFINE acc == f[i - 1]
  <2>1. acc \in S /\ f[i] = Round[i][acc]
    <3>1. i - 1 \in 0..n
      BY <1>1
    <3> QED
      BY <1>10, <3>1
  <2> HIDE DEF acc
  <2>2. f[i] = IF Later(list[i], acc) THEN <<list[i]>> ELSE acc
    BY <2>1
  <2> QED
    BY <2>2, Zenon DEF acc
<1>12. LatestRounds(f, list)
  BY <1>10, <1>11 DEF LatestRounds
<1> QED
  BY <1>6, <1>9, <1>10, <1>12

\* The rounds of FlattenTraces.
FlattenRound(b, sp) ==
  IF b.tooMany \/ Len(b.spans) >= MaxSpans THEN [tooMany |-> TRUE, spans |-> <<>>]
  ELSE IF sp.tid = Empty \/ sp.id = Empty THEN b
  ELSE [b EXCEPT !.spans = Append(@, FlattenSpan(sp))]

FlattenRounds(f, seq) ==
  /\ f[0] = [tooMany |-> FALSE, spans |-> <<>>]
  /\ \A i \in 1..Len(seq) : f[i] = FlattenRound(f[i - 1], seq[i])

\* FlattenTraces as a loop.
LEMMA FlattenLoop ==
  ASSUME NEW Sp, NEW seq \in Seq(Sp), NEW R, MaxSpans \in Nat, \A sp \in Sp : FlattenSpan(sp) \in R
  PROVE  \E f \in [0..Len(seq) -> [tooMany : BOOLEAN, spans : Seq(R)]] :
           FlattenRounds(f, seq) /\ FlattenTraces(seq) = f[Len(seq)]
<1> DEFINE n == Len(seq)
           S == [tooMany : BOOLEAN, spans : Seq(R)]
           start == [tooMany |-> FALSE, spans |-> <<>>]
           Round == [i \in 1..n |-> [acc \in S |-> FlattenRound(acc, seq[i])]]
           Body(k) == [U \in SUBSET DOMAIN seq |->
                         IF U = {} THEN [tooMany |-> FALSE, spans |-> <<>>]
                         ELSE LET x == Max(U) IN FlattenRound(k[U \ {x}], seq[x])]
           iter == CHOOSE k : k = Body(k)
<1>1. n \in Nat /\ DOMAIN seq = 1..n /\ start \in S /\ \A i \in 1..n : seq[i] \in Sp
  OBVIOUS
<1>2. Round \in [1..n -> [S -> S]]
  <2>1. ASSUME NEW acc \in S, NEW sp \in Sp PROVE FlattenRound(acc, sp) \in S
    <3>1. FlattenSpan(sp) \in R
      OBVIOUS
    <3>2. acc.spans \in Seq(R) /\ Append(acc.spans, FlattenSpan(sp)) \in Seq(R)
      BY <3>1
    <3>3. [acc EXCEPT !.spans = Append(@, FlattenSpan(sp))] \in S
      BY <3>2
    <3> QED
      BY <3>3 DEF FlattenRound
  <2> QED
    BY <1>1, <2>1
<1>3. PICK g \in [SUBSET (1..n) -> S] : Folds(g, n, start, Round)
  <2> HIDE DEF n, S, start, Round
  <2> QED
    BY <1>1, <1>2, FoldIsDefined
<1>4. g = Body(g)
  <2>1. ASSUME NEW U \in SUBSET (1..n), U # {}
        PROVE  Max(U) \in 1..n /\ U \ {Max(U)} \in SUBSET (1..n)
    BY <1>1, <2>1, MaxOfNumbers
  <2>2. ASSUME NEW U \in SUBSET (1..n), U # {} PROVE g[U] = Body(g)[U]
    <3> DEFINE x == Max(U)
               V == U \ {x}
    <3>1. x \in 1..n /\ V \in SUBSET (1..n)
      BY <2>1, <2>2
    <3>2. g[U] = Round[x][g[V]] /\ g[V] \in S
      BY <1>3, <2>2, <3>1 DEF Folds
    <3>3. Body(g)[U] = FlattenRound(g[V], seq[x])
      BY <1>1, <2>2
    <3> HIDE DEF x, V
    <3>4. g[U] = FlattenRound(g[V], seq[x])
      BY <3>1, <3>2
    <3> QED
      BY <3>3, <3>4, Zenon
  <2>3. g[{}] = Body(g)[{}]
    BY <1>1, <1>3 DEF Folds
  <2>4. \A U \in SUBSET (1..n) : g[U] = Body(g)[U]
    BY <2>2, <2>3
  <2> QED
    BY <1>1, <2>4
<1>5. iter = Body(iter)
  BY <1>4
<1>6. FlattenTraces(seq) = iter[1..n]
  BY <1>1 DEF FlattenTraces, FlattenRound, FoldLeft, MapThenFoldSet
<1> HIDE DEF iter
<1>7. iter[{}] = start
  BY <1>5
<1>8. ASSUME NEW i \in 1..n, iter[1..(i - 1)] \in S PROVE iter[1..i] = Round[i][iter[1..(i - 1)]]
  <2>1. 1..i \in SUBSET DOMAIN seq /\ 1..i # {} /\ Max(1..i) = i /\ (1..i) \ {i} = 1..(i - 1)
    BY <1>1, MaxUpto
  <2>2. iter[1..i] = Body(iter)[1..i]
    BY <1>5, Zenon
  <2>3. Body(iter)[1..i] = FlattenRound(iter[1..(i - 1)], seq[i])
    BY <2>1
  <2> DEFINE acc == iter[1..(i - 1)]
  <2> HIDE DEF acc
  <2>4. acc \in S /\ Round[i][acc] = FlattenRound(acc, seq[i])
    BY <1>8 DEF acc
  <2> QED
    BY <2>2, <2>3, <2>4, Zenon DEF acc
<1>9. PICK f : IsLoop(f, S, n, start, Round) /\ f[n] = iter[1..n]
  <2>1. Unfolds(iter, S, n, start, Round)
    BY <1>7, <1>8 DEF Unfolds
  <2> HIDE DEF n, S, start, Round
  <2> QED
    BY <1>1, <1>2, <2>1, FoldLoop
<1>10. f \in [0..n -> S] /\ f[0] = start /\ \A i \in 1..n : f[i] = Round[i][f[i - 1]]
  BY <1>9 DEF IsLoop
<1>11. ASSUME NEW i \in 1..n PROVE f[i] = FlattenRound(f[i - 1], seq[i])
  <2> DEFINE acc == f[i - 1]
  <2>1. acc \in S /\ f[i] = Round[i][acc]
    <3>1. i - 1 \in 0..n
      BY <1>1
    <3> QED
      BY <1>10, <3>1
  <2> HIDE DEF acc
  <2>2. f[i] = FlattenRound(acc, seq[i])
    BY <2>1
  <2> QED
    BY <2>2, Zenon DEF acc
<1>12. FlattenRounds(f, seq)
  BY <1>10, <1>11 DEF FlattenRounds
<1> QED
  BY <1>6, <1>9, <1>10, <1>12

-----------------------------------------------------------------------------
(* Sorted *)

\* p says where in the first i elements of seq those of v come from, which are the same.
Permutes(p, v, seq, i) ==
  /\ Len(v) = i
  /\ p \in [1..i -> 1..i]
  /\ \A k, l \in 1..i : p[k] = p[l] => k = l
  /\ \A j \in 1..i : \E k \in 1..i : p[k] = j
  /\ \A k \in 1..i : v[k] = seq[p[k]]

\* An insertion extends a permutation of the elements seen by one.
LEMMA InsertPermutes ==
  ASSUME NEW R, NEW seq \in Seq(R), NEW i \in 1..Len(seq), NEW w \in Seq(R), NEW before,
         NEW p, Permutes(p, w, seq, i - 1)
  PROVE  \E r : Permutes(r, Inserted(w, seq[i], before), seq, i)
<1> DEFINE e == seq[i]
           v == Inserted(w, e, before)
<1>1. i \in Nat /\ i >= 1 /\ e \in R /\ Len(w) = i - 1
  BY DEF Permutes
<1>2. PICK q \in 1..i :
        /\ v \in Seq(R) /\ Len(v) = i
        /\ \A k \in 1..i : v[k] = IF k < q THEN w[k] ELSE IF k = q THEN e ELSE w[k - 1]
  <2>1. Len(w) + 1 = i
    BY <1>1
  <2>2. PICK q \in 1..(Len(w) + 1) : v \in Seq(R) /\ PutAt(v, w, e, q)
    <3> HIDE DEF e
    <3> QED
      BY <1>1, InsertedIs
  <2> HIDE DEF v, e
  <2> QED
    BY <2>1, <2>2 DEF PutAt
<1> HIDE DEF v
<1>3. /\ p \in [1..(i - 1) -> 1..(i - 1)]
      /\ \A k, l \in 1..(i - 1) : p[k] = p[l] => k = l
      /\ \A j \in 1..(i - 1) : \E k \in 1..(i - 1) : p[k] = j
      /\ \A k \in 1..(i - 1) : w[k] = seq[p[k]]
  BY DEF Permutes
<1> DEFINE r == [k \in 1..i |-> IF k < q THEN p[k] ELSE IF k = q THEN i ELSE p[k - 1]]
<1>4. \A k \in 1..i : \/ k < q /\ k \in 1..(i - 1) /\ r[k] = p[k]
                      \/ k = q /\ r[k] = i
                      \/ k > q /\ k - 1 \in 1..(i - 1) /\ k - 1 >= q /\ r[k] = p[k - 1]
  BY <1>1
<1>5. r \in [1..i -> 1..i]
  <2>1. \A k \in 1..(i - 1) : p[k] \in 1..(i - 1) /\ p[k] \in 1..i
    BY <1>1, <1>3
  <2>2. i \in 1..i
    BY <1>1
  <2>3. \A k \in 1..i : r[k] \in 1..i
    BY <1>4, <2>1, <2>2
  <2> QED
    BY <2>3
<1> HIDE DEF r
<1>6. \A k \in 1..(i - 1) : p[k] \in Nat /\ p[k] < i
  BY <1>1, <1>3
<1>7. \A k \in 1..i : r[k] = i => k = q
  <2>1. ASSUME NEW k \in 1..i, r[k] = i, k # q PROVE FALSE
    <3>1. \/ k \in 1..(i - 1) /\ r[k] = p[k]
          \/ k - 1 \in 1..(i - 1) /\ r[k] = p[k - 1]
      BY <1>4, <2>1
    <3> QED
      BY <1>1, <1>6, <2>1, <3>1
  <2> QED
    BY <2>1
<1> DEFINE Old(k) == IF k < q THEN k ELSE k - 1
<1>8. \A k \in 1..i : k # q => Old(k) \in 1..(i - 1) /\ r[k] = p[Old(k)]
  BY <1>1, <1>4
<1>9. \A k, l \in 1..i : k # q /\ l # q /\ Old(k) = Old(l) => k = l
  BY <1>1
<1> HIDE DEF Old
<1>10. ASSUME NEW k \in 1..i, NEW l \in 1..i, r[k] = r[l] PROVE k = l
  <2>1. CASE k = q \/ l = q
    <3>1. r[q] = i
      BY <1>1, <1>4
    <3> QED
      BY <1>7, <1>10, <2>1, <3>1
  <2>2. CASE k # q /\ l # q
    <3>1. Old(k) = Old(l)
      BY <1>3, <1>8, <1>10, <2>2
    <3> QED
      BY <1>9, <2>2, <3>1
  <2> QED
    BY <2>1, <2>2
<1>11. ASSUME NEW j \in 1..i PROVE \E k \in 1..i : r[k] = j
  <2>1. CASE j = i
    <3>1. r[q] = i
      BY <1>1, <1>4
    <3> QED
      BY <2>1, <3>1
  <2>2. CASE j # i
    <3>1. j \in 1..(i - 1)
      BY <1>1, <2>2
    <3>2. PICK k \in 1..(i - 1) : p[k] = j
      BY <1>3, <3>1
    <3>3. CASE k < q
      <4>1. k \in 1..i
        BY <1>1
      <4>2. r[k] = p[k]
        BY <1>1, <1>4, <3>3, <4>1
      <4> QED
        BY <3>2, <4>1, <4>2
    <3>4. CASE k >= q
      <4>1. k + 1 \in 1..i /\ k + 1 > q /\ (k + 1) - 1 = k
        BY <1>1, <3>4
      <4>2. r[k + 1] = p[(k + 1) - 1]
        BY <1>1, <1>4, <4>1
      <4> QED
        BY <3>2, <4>1, <4>2
    <3> QED
      BY <1>1, <3>3, <3>4
  <2> QED
    BY <2>1, <2>2
<1>12. ASSUME NEW k \in 1..i PROVE v[k] = seq[r[k]]
  <2>1. CASE k = q
    <3>1. v[q] = e /\ r[q] = i
      BY <1>1, <1>2, <1>4
    <3> QED
      BY <2>1, <3>1
  <2>2. CASE k # q
    <3>1. v[k] = w[Old(k)]
      BY <1>1, <1>2, <2>2 DEF Old
    <3> QED
      BY <1>3, <1>8, <2>2, <3>1
  <2> QED
    BY <2>1, <2>2
<1>13. Permutes(r, v, seq, i)
  BY <1>2, <1>5, <1>10, <1>11, <1>12 DEF Permutes
<1> QED
  BY <1>13 DEF v

\* Sorting moves the elements, and neither adds nor loses any.
LEMMA SortedPermutes ==
  ASSUME NEW R, NEW seq \in Seq(R), NEW before
  PROVE  Sorted(seq, before) \in Seq(R) /\ \E p : Permutes(p, Sorted(seq, before), seq, Len(seq))
<1> DEFINE n == Len(seq)
<1>1. PICK f \in [0..n -> Seq(R)] : SortedRounds(f, seq, before) /\ Sorted(seq, before) = f[n]
  BY SortedLoop
<1>2. n \in Nat /\ f[0] = <<>> /\ \A i \in 1..n : f[i] = Inserted(f[i - 1], seq[i], before)
  BY <1>1 DEF SortedRounds
<1> DEFINE P == {i \in 0..n : \E p : Permutes(p, f[i], seq, i)}
<1>3. 0 \in P
  <2>1. Permutes([k \in 1..0 |-> 1], f[0], seq, 0)
    BY <1>2 DEF Permutes
  <2> QED
    BY <1>2, <2>1
<1>4. ASSUME NEW i \in 1..n, i - 1 \in P PROVE i \in P
  <2>1. PICK p : Permutes(p, f[i - 1], seq, i - 1)
    BY <1>4
  <2> DEFINE w == f[i - 1]
  <2>2. w \in Seq(R) /\ i \in 0..n
    BY <1>2
  <2>3. f[i] = Inserted(w, seq[i], before)
    BY <1>2
  <2>4. Permutes(p, w, seq, i - 1)
    BY <2>1
  <2> HIDE DEF w
  <2>5. \E r : Permutes(r, f[i], seq, i)
    BY <2>2, <2>3, <2>4, InsertPermutes
  <2> QED
    BY <2>2, <2>5
<1>5. n \in P
  <2> HIDE DEF P
  <2>1. \A i \in 1..n : i - 1 \in P => i \in P
    BY <1>4
  <2>2. \A i \in 0..n : i \in P
    BY <1>2, <1>3, <2>1, Rounds, Zenon
  <2> QED
    BY <1>2, <2>2
<1> QED
  BY <1>1, <1>2, <1>5

StrictOrder(before, R) ==
  /\ \A x \in R : <<x, x>> \notin before
  /\ \A x, y, z \in R : <<x, y>> \in before /\ <<y, z>> \in before => <<x, z>> \in before

InLine(v, before) == \A k, l \in 1..Len(v) : k < l => <<v[l], v[k]>> \notin before

\* An insertion keeps the list in line.
LEMMA InsertInLine ==
  ASSUME NEW R, NEW w \in Seq(R), NEW e \in R, NEW before, StrictOrder(before, R), InLine(w, before)
  PROVE  InLine(Inserted(w, e, before), before)
<1> DEFINE v == Inserted(w, e, before)
           n == Len(w)
<1>0. PICK q \in 1..(n + 1) :
        /\ v \in Seq(R) /\ PutAt(v, w, e, q)
        /\ \A k \in 1..(q - 1) : <<e, w[k]>> \notin before
        /\ q <= n => <<e, w[q]>> \in before
  BY InsertedIs
<1>1. /\ v \in Seq(R) /\ Len(v) = n + 1
      /\ \A k \in 1..(n + 1) : v[k] = IF k < q THEN w[k] ELSE IF k = q THEN e ELSE w[k - 1]
      /\ \A k \in 1..(q - 1) : <<e, w[k]>> \notin before
      /\ q <= n => <<e, w[q]>> \in before
  BY <1>0 DEF PutAt
<1>2. n \in Nat /\ \A k \in 1..n : w[k] \in R
  OBVIOUS
<1>3. \A k, l \in 1..n : k < l => <<w[l], w[k]>> \notin before
  BY DEF InLine
<1> HIDE DEF v, n
<1>4. ASSUME NEW l \in q..n PROVE <<w[l], e>> \notin before
  <2>1. l \in 1..n /\ q \in 1..n /\ q <= n
    BY <1>2
  <2>2. <<e, w[q]>> \in before /\ w[q] \in R /\ w[l] \in R
    BY <1>1, <1>2, <2>1
  <2>3. <<w[l], w[q]>> \notin before
    <3>1. CASE l = q
      BY <2>2, <3>1 DEF StrictOrder
    <3>2. CASE l # q
      BY <1>2, <1>3, <2>1, <3>2
    <3> QED
      BY <3>1, <3>2
  <2> QED
    BY <2>2, <2>3 DEF StrictOrder
<1>5. ASSUME NEW k \in 1..(n + 1), NEW l \in 1..(n + 1), k < l PROVE <<v[l], v[k]>> \notin before
  <2>1. k \in Nat /\ l \in Nat /\ q \in Nat /\ k < l /\ k >= 1 /\ l <= n + 1
    BY <1>2, <1>5
  <2>2. CASE l < q
    <3>1. v[l] = w[l] /\ v[k] = w[k] /\ l \in 1..n /\ k \in 1..n
      BY <1>1, <1>2, <2>1, <2>2
    <3> QED
      BY <1>3, <2>1, <3>1
  <2>3. CASE l = q
    <3>1. v[l] = e /\ v[k] = w[k] /\ k \in 1..(q - 1)
      BY <1>1, <1>2, <2>1, <2>3
    <3> QED
      BY <1>1, <3>1
  <2>4. CASE l > q
    <3>1. v[l] = w[l - 1] /\ l - 1 \in q..n /\ l - 1 \in 1..n
      BY <1>1, <1>2, <2>1, <2>4
    <3>2. CASE k < q
      <4>1. v[k] = w[k] /\ k \in 1..n /\ k < l - 1
        BY <1>1, <1>2, <2>1, <2>4, <3>2
      <4> QED
        BY <1>3, <3>1, <4>1
    <3>3. CASE k = q
      <4>1. v[k] = e
        BY <1>1, <2>1, <3>3
      <4> QED
        BY <1>4, <3>1, <4>1
    <3>4. CASE k > q
      <4>1. v[k] = w[k - 1] /\ k - 1 \in 1..n /\ k - 1 < l - 1
        BY <1>1, <1>2, <2>1, <3>4
      <4> QED
        BY <1>3, <3>1, <4>1
    <3> QED
      BY <2>1, <3>2, <3>3, <3>4
  <2> QED
    BY <2>1, <2>2, <2>3, <2>4
<1>6. InLine(v, before)
  BY <1>1, <1>5 DEF InLine
<1> QED
  BY <1>6 DEF v

\* Sorting by a strict order leaves no element below one that it stands before.
LEMMA SortedInLine ==
  ASSUME NEW R, NEW seq \in Seq(R), NEW before, StrictOrder(before, R)
  PROVE  InLine(Sorted(seq, before), before)
<1> DEFINE n == Len(seq)
<1>1. PICK f \in [0..n -> Seq(R)] : SortedRounds(f, seq, before) /\ Sorted(seq, before) = f[n]
  BY SortedLoop
<1>2. n \in Nat /\ f[0] = <<>> /\ \A i \in 1..n : f[i] = Inserted(f[i - 1], seq[i], before) /\ seq[i] \in R
  BY <1>1 DEF SortedRounds
<1> DEFINE P == {i \in 0..n : InLine(f[i], before)}
<1>3. 0 \in P
  BY <1>2 DEF InLine
<1>4. ASSUME NEW i \in 1..n, i - 1 \in P PROVE i \in P
  <2> DEFINE w == f[i - 1]
  <2>1. w \in Seq(R) /\ i \in 0..n /\ seq[i] \in R /\ InLine(w, before) /\ f[i] = Inserted(w, seq[i], before)
    BY <1>2, <1>4
  <2> HIDE DEF w
  <2>2. InLine(f[i], before)
    BY <2>1, InsertInLine
  <2> QED
    BY <2>1, <2>2
<1>5. n \in P
  <2> HIDE DEF P
  <2>1. \A i \in 1..n : i - 1 \in P => i \in P
    BY <1>4
  <2>2. \A i \in 0..n : i \in P
    BY <1>2, <1>3, <2>1, Rounds, Zenon
  <2> QED
    BY <1>2, <2>2
<1> QED
  BY <1>1, <1>5

\* Sorting keeps the set of the elements, and how many there are of a kind.
LEMMA SortedIs ==
  ASSUME NEW R, NEW seq \in Seq(R), NEW before
  PROVE  /\ Sorted(seq, before) \in Seq(R)
         /\ Len(Sorted(seq, before)) = Len(seq)
         /\ ToSet(Sorted(seq, before)) = ToSet(seq)
<1> DEFINE v == Sorted(seq, before)
           n == Len(seq)
<1>1. v \in Seq(R) /\ n \in Nat /\ DOMAIN seq = 1..n /\ DOMAIN v = 1..Len(v)
  BY SortedPermutes
<1>2. PICK p : Permutes(p, v, seq, n)
  BY SortedPermutes
<1> HIDE DEF v
<1>3. Len(v) = n /\ p \in [1..n -> 1..n] /\ (\A j \in 1..n : \E k \in 1..n : p[k] = j) /\ \A k \in 1..n : v[k] = seq[p[k]]
  BY <1>2 DEF Permutes
<1> HIDE DEF n
<1>4. \A k \in 1..n : \E j \in 1..n : v[k] = seq[j]
  BY <1>3
<1>5. \A j \in 1..n : \E k \in 1..n : v[k] = seq[j]
  BY <1>3
<1>6. ToSet(v) = {v[k] : k \in 1..n} /\ ToSet(seq) = {seq[j] : j \in 1..n}
  BY <1>1, <1>3 DEF ToSet
<1>7. ToSet(v) = ToSet(seq)
  BY ZenonT(40), <1>4, <1>5, <1>6
<1> QED
  BY <1>1, <1>3, <1>7 DEF v, n

\* Sorting keeps the number of elements in T.
LEMMA SortedCounts ==
  ASSUME NEW R, NEW seq \in Seq(R), NEW before, NEW T
  PROVE  Cardinality(Places(Sorted(seq, before), T)) = Cardinality(Places(seq, T))
<1> DEFINE v == Sorted(seq, before)
           n == Len(seq)
           A == {k \in DOMAIN v : v[k] \in T}
           B == {i \in DOMAIN seq : seq[i] \in T}
<1>1. v \in Seq(R) /\ n \in Nat /\ DOMAIN seq = 1..n /\ DOMAIN v = 1..Len(v)
  BY SortedPermutes
<1>2. PICK p : Permutes(p, v, seq, n)
  BY SortedPermutes
<1> HIDE DEF v
<1>3. /\ DOMAIN v = 1..n /\ p \in [1..n -> 1..n]
      /\ \A k, l \in 1..n : p[k] = p[l] => k = l
      /\ \A j \in 1..n : \E k \in 1..n : p[k] = j
      /\ \A k \in 1..n : v[k] = seq[p[k]]
  BY <1>1, <1>2 DEF Permutes
<1> DEFINE r == [k \in A |-> p[k]]
<1>4. A \in SUBSET (1..n) /\ B \in SUBSET (1..n) /\ \A k \in A : r[k] = p[k]
  BY <1>1, <1>3
<1>5. r \in [A -> B]
  <2>1. \A k \in A : p[k] \in B
    BY <1>1, <1>3
  <2> QED
    BY <2>1
<1>6. \A k, l \in A : r[k] = r[l] => k = l
  BY <1>3, <1>4
<1>7. \A j \in B : \E k \in A : r[k] = j
  <2> SUFFICES ASSUME NEW j \in B PROVE \E k \in A : r[k] = j
    OBVIOUS
  <2>1. j \in 1..n /\ seq[j] \in T
    BY <1>1
  <2>2. PICK k \in 1..n : p[k] = j
    BY <1>3, <2>1
  <2>3. k \in A
    BY <1>3, <2>1, <2>2
  <2> QED
    BY <1>4, <2>2, <2>3
<1> HIDE DEF r, A, B
<1>8. r \in Bijection(A, B)
  BY <1>5, <1>6, <1>7 DEF Bijection, Injection, Surjection, IsInjective
<1>9. IsFiniteSet(A)
  BY <1>1, <1>4, UptoIsFinite, FS_Subset
<1>10. Cardinality(A) = Cardinality(B)
  BY <1>8, <1>9, FS_Bijection DEF ExistsBijection
<1> QED
  BY <1>10 DEF A, B, v, Places

-----------------------------------------------------------------------------
(* The rows of a request *)

Stored == [tid : Int, id : Int, parent : Int, start : Nat, dur : Nat, svc : Int, status : Int]
Valid == {s \in Stored : s.tid # Empty /\ s.id # Empty}

\* The spans of a batch are valid, and no more than the cap.
LEMMA FlattenIs ==
  ASSUME NEW seq \in Seq(Offered)
  PROVE  FlattenTraces(seq).spans \in Seq(Valid) /\ Len(FlattenTraces(seq).spans) <= MaxSpans
<1> DEFINE n == Len(seq)
<1>1. ASSUME NEW sp \in Offered
      PROVE  /\ FlattenSpan(sp) \in Stored
             /\ FlattenSpan(sp).tid = sp.tid /\ FlattenSpan(sp).id = sp.id
  <2>1. sp \in [tid : Int, id : Int, parent : Int, start : Nat, end : Nat, svc : Int, status : Int]
    BY OfferedAreSpans
  <2>2. (IF sp.end > sp.start THEN sp.end - sp.start ELSE 0) \in Nat
    BY <2>1
  <2> QED
    BY <2>1, <2>2 DEF FlattenSpan, Stored
<1>2. MaxSpans \in Nat /\ MaxSpans > 0
  BY LimitsArePositive
<1>3. PICK f \in [0..n -> [tooMany : BOOLEAN, spans : Seq(Stored)]] :
        FlattenRounds(f, seq) /\ FlattenTraces(seq) = f[n]
  BY <1>1, <1>2, FlattenLoop
<1>4. /\ n \in Nat /\ f[0] = [tooMany |-> FALSE, spans |-> <<>>]
      /\ \A i \in 1..n : seq[i] \in Offered /\ f[i] = FlattenRound(f[i - 1], seq[i])
  BY <1>3 DEF FlattenRounds
<1> DEFINE P == {i \in 0..n : f[i].spans \in Seq(Valid) /\ Len(f[i].spans) <= MaxSpans}
<1>5. 0 \in P
  BY <1>2, <1>4
<1>6. ASSUME NEW i \in 1..n, i - 1 \in P PROVE i \in P
  <2> DEFINE b == f[i - 1]
             sp == seq[i]
  <2>1. /\ b \in [tooMany : BOOLEAN, spans : Seq(Stored)] /\ sp \in Offered
        /\ b.spans \in Seq(Valid) /\ Len(b.spans) <= MaxSpans /\ f[i] = FlattenRound(b, sp) /\ i \in 0..n
    BY SMTT(20), <1>4, <1>6
  <2> HIDE DEF b, sp
  <2>2. CASE b.tooMany \/ Len(b.spans) >= MaxSpans
    <3>1. f[i].spans = <<>>
      BY <2>1, <2>2 DEF FlattenRound
    <3> QED
      BY <1>2, <2>1, <3>1
  <2>3. CASE ~ (b.tooMany \/ Len(b.spans) >= MaxSpans) /\ (sp.tid = Empty \/ sp.id = Empty)
    <3>1. f[i] = b
      BY <2>1, <2>3 DEF FlattenRound
    <3> QED
      BY <2>1, <3>1
  <2>4. CASE ~ (b.tooMany \/ Len(b.spans) >= MaxSpans) /\ ~ (sp.tid = Empty \/ sp.id = Empty)
    <3> DEFINE s == FlattenSpan(sp)
    <3>1. f[i] = [b EXCEPT !.spans = Append(@, s)]
      BY <2>1, <2>4 DEF FlattenRound
    <3>2. s \in Valid
      BY <1>1, <2>1, <2>4 DEF Valid
    <3> HIDE DEF s
    <3>3. f[i].spans = Append(b.spans, s)
      BY <2>1, <3>1
    <3>4. Append(b.spans, s) \in Seq(Valid) /\ Len(Append(b.spans, s)) = Len(b.spans) + 1 /\ Len(b.spans) \in Nat
      BY <2>1, <3>2, AppendProperties
    <3>5. Len(b.spans) + 1 <= MaxSpans
      BY <1>2, <2>4, <3>4
    <3> QED
      BY <2>1, <3>3, <3>4, <3>5
  <2> QED
    BY <2>2, <2>3, <2>4
<1>7. n \in P
  <2> HIDE DEF P
  <2>1. \A i \in 1..n : i - 1 \in P => i \in P
    BY <1>6
  <2>2. \A i \in 0..n : i \in P
    BY <1>4, <1>5, <2>1, Rounds, Zenon
  <2> QED
    BY <1>4, <2>2
<1> QED
  BY <1>3, <1>7

-----------------------------------------------------------------------------
(* TypeOK *)

\* The order of the SELECT, and what it does to the rows.
Earlier(rs) == {so \in ToSet(rs) \X ToSet(rs) :
                  so[1].start < so[2].start \/ (so[1].start = so[2].start /\ so[1].id < so[2].id)}

\* The rows of a trace come back by start, and none is lost.
LEMMA OrderedIs ==
  ASSUME NEW rs \in Seq(Valid)
  PROVE  /\ Ordered(rs) = Sorted(rs, Earlier(rs))
         /\ Ordered(rs) \in Seq(Valid)
         /\ Len(Ordered(rs)) = Len(rs)
         /\ ToSet(Ordered(rs)) = ToSet(rs)
         /\ \A i, j \in DOMAIN Ordered(rs) : i < j => Ordered(rs)[i].start <= Ordered(rs)[j].start
<1> DEFINE v == Ordered(rs)
           E == Earlier(rs)
           R == ToSet(rs)
<1>1. v = Sorted(rs, E)
  BY DEF Ordered, Earlier
<1>2. v \in Seq(Valid) /\ Len(v) = Len(rs) /\ ToSet(v) = R
  BY <1>1, SortedIs
<1>3. rs \in Seq(R) /\ \A x \in R : x \in Valid
  <2>1. \A i \in 1..Len(rs) : rs[i] \in R /\ rs[i] \in Valid
    BY DEF ToSet
  <2>2. \A x \in R : \E i \in 1..Len(rs) : x = rs[i]
    BY DEF ToSet
  <2> HIDE DEF R
  <2>3. rs \in [1..Len(rs) -> R] /\ Len(rs) \in Nat
    BY <2>1
  <2> QED
    BY <2>1, <2>2, <2>3
<1>4. \A x \in Valid : x.start \in Int /\ x.id \in Int /\ x.start >= 0
  BY DEF Valid, Stored
<1>5. \A x, y \in R : <<x, y>> \in E <=> x.start < y.start \/ (x.start = y.start /\ x.id < y.id)
  BY DEF Earlier
<1> HIDE DEF v, E, R
<1>6. StrictOrder(E, R)
  <2>1. \A x \in R : <<x, x>> \notin E
    BY <1>3, <1>4, <1>5
  <2>2. ASSUME NEW x \in R, NEW y \in R, NEW z \in R, <<x, y>> \in E, <<y, z>> \in E
        PROVE  <<x, z>> \in E
    <3>1. x.start \in Int /\ y.start \in Int /\ z.start \in Int /\ x.id \in Int /\ y.id \in Int /\ z.id \in Int
      BY <1>3, <1>4
    <3> QED
      BY <1>5, <2>2, <3>1
  <2> QED
    BY <2>1, <2>2 DEF StrictOrder
<1>7. InLine(v, E)
  BY <1>1, <1>3, <1>6, SortedInLine
<1>8. ASSUME NEW i \in DOMAIN v, NEW j \in DOMAIN v, i < j PROVE v[i].start <= v[j].start
  <2>1. DOMAIN v = 1..Len(v) /\ v[i] \in R /\ v[j] \in R
    BY <1>2 DEF ToSet
  <2>2. <<v[j], v[i]>> \notin E
    BY <1>7, <1>8, <2>1 DEF InLine
  <2>3. v[i].start \in Int /\ v[j].start \in Int
    BY <1>3, <1>4, <2>1
  <2> QED
    BY <1>5, <2>1, <2>2, <2>3
<1> QED
  BY <1>1, <1>2, <1>8 DEF v, E, R

\* The page is what GetTrace made of valid spans, and the waterfall is theirs.
PageIsRead ==
  page.status = "ok" =>
    /\ page.spans \in Seq(Valid) /\ Len(page.spans) \in 1..MaxTraceSpans
    /\ page = AssembleTrace(page.spans)
    /\ laid = LayoutWaterfall(page.spans)

\* The inductive invariant: what the table, the page and the waterfall hold.
IInv ==
  /\ request \in Seq(Offered) /\ Len(request) <= MaxRequest
  /\ inserts \in 0..MaxInserts
  /\ rows \in Seq(Valid) /\ Len(rows) = inserts * Len(Batch.spans)
  /\ inserts = 1 => rows = Ordered(Batch.spans)
  /\ \A i, j \in DOMAIN rows : i < j => rows[i].start <= rows[j].start
  /\ trace \in Traces \cup {Empty}
  /\ page.status \in {"none", "not_found", "too_large", "ok"}
  /\ PageIsRead

\* k batches of at most b spans.
LEMMA TimesLimit ==
  ASSUME NEW k \in Nat, NEW a \in Nat, NEW b \in Nat, a <= b
  PROVE  k * a <= k * b /\ k * a \in Nat
BY SMT

\* One batch more.
LEMMA OneMore ==
  ASSUME NEW k \in Nat, NEW a \in Nat
  PROVE  (k + 1) * a = k * a + a
BY SMT

\* What a request of offered spans is flattened to.
LEMMA BatchIs ==
  ASSUME request \in Seq(Offered)
  PROVE  Batch.spans \in Seq(Valid) /\ Len(Batch.spans) \in Nat /\ Len(Batch.spans) <= MaxSpans
<1>1. Batch.spans \in Seq(Valid) /\ Len(Batch.spans) <= MaxSpans
  BY FlattenIs DEF Batch
<1> QED
  BY <1>1

\* The invariant holds at first.
LEMMA InvInit == Init => IInv
<1> SUFFICES ASSUME Init PROVE IInv
  OBVIOUS
<1>1. request = <<>> /\ rows = <<>> /\ inserts = 0 /\ trace = Empty /\ page = [status |-> "none"] /\ laid = <<>>
  BY DEF Init
<1>2. MaxRequest \in Nat /\ MaxInserts \in Nat
  BY BoundsAreNumbers
<1>3. request \in Seq(Offered) /\ rows \in Seq(Valid) /\ Len(request) = 0 /\ Len(rows) = 0 /\ DOMAIN rows = {}
  BY <1>1
<1>4. Len(Batch.spans) \in Nat
  BY <1>3, BatchIs
<1>5. Len(rows) = inserts * Len(Batch.spans)
  BY <1>1, <1>3, <1>4
<1>6. PageIsRead
  BY <1>1 DEF PageIsRead
<1>7. page.status = "none"
  BY <1>1
<1> QED
  BY <1>1, <1>2, <1>3, <1>5, <1>6, <1>7 DEF IInv

\* A span added to the request keeps the invariant.
LEMMA InvAddSpan ==
  ASSUME IInv, NEW sp \in Offered, AddSpan(sp)
  PROVE  IInv'
<1>1. /\ inserts = 0 /\ Len(request) < MaxRequest /\ request' = Append(request, sp)
      /\ rows' = rows /\ inserts' = inserts /\ trace' = trace /\ page' = page /\ laid' = laid
  BY DEF AddSpan, readerVars
<1>2. request \in Seq(Offered) /\ Len(request) \in Nat /\ MaxRequest \in Nat
  BY BoundsAreNumbers DEF IInv
<1>3. request' \in Seq(Offered) /\ Len(request') = Len(request) + 1
  BY <1>1, <1>2, AppendProperties
<1>4. Len(Batch.spans) \in Nat
  BY <1>2, BatchIs
<1>5. Len(Batch'.spans) \in Nat
  BY <1>3, FlattenIs DEF Batch
<1>6. Len(rows) = 0
  BY <1>1, <1>4 DEF IInv
<1>7. Len(rows') = inserts' * Len(Batch'.spans)
  BY <1>1, <1>5, <1>6
<1>8. PageIsRead'
  BY <1>1 DEF IInv, PageIsRead
<1>9. Len(request') <= MaxRequest
  BY <1>1, <1>2, <1>3
<1>10. (inserts = 1 => rows = Ordered(Batch.spans))'
  BY <1>1
<1> QED
  BY <1>1, <1>3, <1>7, <1>8, <1>9, <1>10 DEF IInv, Traces

\* Storing a batch keeps the invariant.
LEMMA InvStore ==
  ASSUME IInv, Store
  PROVE  IInv'
<1> DEFINE b == Batch.spans
           all == rows \o b
<1>1. /\ inserts < MaxInserts /\ rows' = Ordered(all) /\ inserts' = inserts + 1
      /\ request' = request /\ trace' = trace /\ page' = page /\ laid' = laid
  BY DEF Store, readerVars
<1>2. /\ request \in Seq(Offered) /\ rows \in Seq(Valid) /\ inserts \in Nat /\ MaxInserts \in Nat
      /\ Len(rows) = inserts * Len(b)
  BY BoundsAreNumbers DEF IInv
<1>3. b \in Seq(Valid) /\ Len(b) \in Nat
  BY <1>2, BatchIs
<1>4. Batch' = Batch
  BY <1>1 DEF Batch
<1> HIDE DEF b
<1>5. all \in Seq(Valid) /\ Len(all) = Len(rows) + Len(b)
  BY <1>2, <1>3, ConcatProperties
<1> HIDE DEF all
<1>6. /\ rows' \in Seq(Valid) /\ Len(rows') = Len(all)
      /\ \A i, j \in DOMAIN rows' : i < j => rows'[i].start <= rows'[j].start
  BY <1>1, <1>5, OrderedIs
<1>7. Len(rows') = inserts' * Len(b)
  BY <1>1, <1>2, <1>3, <1>5, <1>6, OneMore
<1>8. ASSUME inserts' = 1 PROVE rows' = Ordered(b)
  <2>1. inserts = 0
    BY <1>1, <1>2, <1>8
  <2>2. Len(rows) = 0
    BY <1>2, <1>3, <2>1
  <2>3. rows = <<>>
    BY <1>2, <2>2, EmptySeq
  <2>4. all = b
    BY <1>3, <2>3, ConcatEmptySeq DEF all
  <2> QED
    BY <1>1, <2>4
<1>9. PageIsRead'
  BY <1>1 DEF IInv, PageIsRead
<1>10. inserts' \in 0..MaxInserts
  BY <1>1, <1>2
<1>11. Len(rows') = inserts' * Len(Batch'.spans) /\ (inserts' = 1 => rows' = Ordered(Batch'.spans))
  BY <1>4, <1>7, <1>8 DEF b
<1>12. request' \in Seq(Offered) /\ Len(request') <= MaxRequest /\ trace' \in Traces \cup {Empty}
       /\ page'.status \in {"none", "not_found", "too_large", "ok"}
  BY <1>1 DEF IInv
<1> QED
  BY <1>6, <1>9, <1>10, <1>11, <1>12 DEF IInv, Traces

\* What GetTrace answers for rows of valid spans.
LEMMA GetTraceIs ==
  ASSUME NEW rs \in Seq(Valid), NEW t
  PROVE  /\ GetTrace(rs, t).status \in {"not_found", "too_large", "ok"}
         /\ GetTrace(rs, t).status = "ok" =>
              /\ GetTrace(rs, t).spans = Only(rs, {s \in ToSet(rs) : s.tid = t})
              /\ GetTrace(rs, t).spans \in Seq(Valid)
              /\ Len(GetTrace(rs, t).spans) \in 1..MaxTraceSpans
              /\ GetTrace(rs, t) = AssembleTrace(GetTrace(rs, t).spans)
<1> DEFINE spans == Only(rs, {s \in ToSet(rs) : s.tid = t})
           got == GetTrace(rs, t)
<1>1. spans \in Seq(Valid)
  BY OnlyIs
<1>2. got = IF spans = <<>> THEN [status |-> "not_found"]
            ELSE IF Len(spans) > MaxTraceSpans THEN [status |-> "too_large"]
            ELSE AssembleTrace(spans)
  BY DEF GetTrace
<1> HIDE DEF spans, got
<1>3. AssembleTrace(spans).status = "ok" /\ AssembleTrace(spans).spans = spans
  BY DEF AssembleTrace
<1>4. MaxTraceSpans \in Nat /\ Len(spans) \in Nat
  BY <1>1, LimitsArePositive
<1>5. CASE spans = <<>>
  BY <1>2, <1>5 DEF got
<1>6. CASE spans # <<>> /\ Len(spans) > MaxTraceSpans
  BY <1>2, <1>6 DEF got
<1>7. CASE spans # <<>> /\ ~ (Len(spans) > MaxTraceSpans)
  <2>1. got = AssembleTrace(spans)
    BY <1>2, <1>7
  <2>2. Len(spans) \in 1..MaxTraceSpans
    BY <1>1, <1>4, <1>7, EmptySeq
  <2>3. got.status = "ok" /\ got.spans = spans /\ got = AssembleTrace(got.spans)
    BY <1>3, <2>1
  <2> QED
    BY <1>1, <2>2, <2>3 DEF got, spans
<1> QED
  BY <1>5, <1>6, <1>7

\* Loading a trace makes the page what the invariant says of it.
LEMMA InvLoad ==
  ASSUME IInv, NEW t \in Traces, Load(t)
  PROVE  IInv'
<1>1. /\ trace' = t /\ page' = GetTrace(rows, t)
      /\ laid' = IF page'.status = "ok" THEN LayoutWaterfall(page'.spans) ELSE <<>>
      /\ request' = request /\ rows' = rows /\ inserts' = inserts
  BY DEF Load
<1>2. rows \in Seq(Valid)
  BY DEF IInv
<1>3. /\ page'.status \in {"not_found", "too_large", "ok"}
      /\ page'.status = "ok" =>
           /\ page'.spans \in Seq(Valid)
           /\ Len(page'.spans) \in 1..MaxTraceSpans
           /\ page' = AssembleTrace(page'.spans)
  BY <1>1, <1>2, GetTraceIs
<1>4. PageIsRead'
  BY <1>1, <1>3 DEF PageIsRead
<1>5. Batch' = Batch
  BY <1>1 DEF Batch
<1> QED
  BY <1>1, <1>3, <1>4, <1>5 DEF IInv, Traces

\* Every step keeps the invariant.
LEMMA InvNext == IInv /\ [Next]_vars => IInv'
<1> SUFFICES ASSUME IInv, [Next]_vars PROVE IInv'
  OBVIOUS
<1>1. ASSUME NEW sp \in Offered, AddSpan(sp) PROVE IInv'
  BY <1>1, InvAddSpan
<1>2. ASSUME Store PROVE IInv'
  BY <1>2, InvStore
<1>3. ASSUME NEW t \in Traces, Load(t) PROVE IInv'
  BY <1>3, InvLoad
<1>4. ASSUME UNCHANGED vars PROVE IInv'
  <2>1. request' = request /\ rows' = rows /\ inserts' = inserts /\ trace' = trace /\ page' = page /\ laid' = laid
    BY <1>4 DEF vars, readerVars
  <2>2. Batch' = Batch
    BY <2>1 DEF Batch
  <2>3. PageIsRead'
    BY <2>1 DEF IInv, PageIsRead
  <2> QED
    BY <2>1, <2>2, <2>3 DEF IInv, Traces
<1> QED
  BY <1>1, <1>2, <1>3, <1>4 DEF Next

\* The invariant holds of every behaviour.
LEMMA InvHolds == Spec => []IInv
BY InvInit, InvNext, PTL DEF Spec

\* The types follow.
LEMMA InvTypes == IInv => TypeOK
<1> SUFFICES ASSUME IInv PROVE TypeOK
  OBVIOUS
<1> DEFINE b == Batch.spans
<1>1. /\ request \in Seq(Offered) /\ rows \in Seq(Valid) /\ inserts \in Nat
      /\ Len(rows) = inserts * Len(b)
  BY BoundsAreNumbers DEF IInv
<1>2. Len(b) \in Nat /\ Len(b) <= MaxSpans /\ MaxSpans \in Nat
  BY <1>1, BatchIs, LimitsArePositive
<1> HIDE DEF b
<1>3. Len(rows) <= inserts * MaxSpans
  BY <1>1, <1>2, TimesLimit
<1>4. \A i \in DOMAIN rows : rows[i].dur >= 0 /\ rows[i].id # Empty /\ rows[i].tid # Empty
  <2>1. \A i \in DOMAIN rows : rows[i] \in Valid
    BY <1>1
  <2> QED
    BY <2>1 DEF Valid, Stored
<1>5. page.status = "ok" => Len(page.spans) \in 1..MaxTraceSpans
  BY DEF IInv, PageIsRead
<1> QED
  BY <1>1, <1>3, <1>4, <1>5 DEF IInv, TypeOK, b

\* For requests of any length, stored any number of times: the table holds the
\* valid spans of the request as often as it was stored, in the order of the
\* SELECT, no duration is negative, and a page shows no more than it may.
THEOREM TraceViewTypes == Spec => []TypeOK
BY InvHolds, InvTypes, PTL

-----------------------------------------------------------------------------
(* The critical path *)

\* The fields of a valid span.
LEMMA ValidTimes ==
  ASSUME NEW s \in Valid
  PROVE  /\ s.start \in Nat /\ s.dur \in Nat /\ End(s) \in Nat /\ End(s) = s.start + s.dur /\ s.start <= End(s)
         /\ s.tid \in Int /\ s.id \in Int /\ s.parent \in Int /\ s.svc \in Int /\ s.status \in Int
         /\ s.tid # Empty /\ s.id # Empty
BY DEF Valid, Stored, End

\* s ends later than o, or with it and has taken longer.
Beats(s, o) == End(s) > End(o) \/ (End(s) = End(o) /\ s.dur > o.dur)

\* The first of the spans of the list that no other of its first n beats.
BestAt(list, n, k) ==
  /\ k \in 1..n
  /\ \A j \in 1..n : ~ Beats(list[j], list[k])
  /\ \A j \in 1..n : j < k => Beats(list[k], list[j])

\* PickLatestEnd finds the span no other is better than.
LEMMA LatestIs ==
  ASSUME NEW list \in Seq(Valid)
  PROVE  /\ list = <<>> => PickLatestEnd(list) = <<>>
         /\ list # <<>> => \E k : BestAt(list, Len(list), k) /\ PickLatestEnd(list) = <<list[k]>>
<1> DEFINE n == Len(list)
<1>1. PICK f \in [0..n -> ({<<>>} \cup {<<r>> : r \in Valid})] :
           LatestRounds(f, list) /\ PickLatestEnd(list) = f[n]
  BY PickLatestEndLoop
<1>2. /\ n \in Nat /\ f[0] = <<>>
      /\ \A i \in 1..n : f[i] = IF Later(list[i], f[i - 1]) THEN <<list[i]>> ELSE f[i - 1]
  BY <1>1 DEF LatestRounds
<1>3. \A i \in 1..n : list[i] \in Valid /\ End(list[i]) \in Int /\ list[i].dur \in Int
  <2>1. \A i \in 1..n : list[i] \in Valid
    OBVIOUS
  <2> QED
    BY <2>1, ValidTimes
<1> DEFINE P == {i \in 0..n : i = 0 \/ \E k : BestAt(list, i, k) /\ f[i] = <<list[k]>>}
<1>4. 0 \in P
  BY <1>2
<1>5. ASSUME NEW i \in 1..n, i - 1 \in P PROVE i \in P
  <2>1. i \in 0..n /\ i \in Nat /\ i >= 1
    BY <1>2
  <2>2. CASE i = 1
    <3>1. Later(list[1], f[0])
      BY <1>2 DEF Later
    <3>2. f[1] = <<list[1]>>
      BY <1>2, <2>1, <2>2, <3>1
    <3>3. BestAt(list, 1, 1)
      BY <1>3, <2>1, <2>2 DEF BestAt, Beats
    <3> QED
      BY <2>1, <2>2, <3>2, <3>3
  <2>3. CASE i # 1
    <3>1. PICK k : BestAt(list, i - 1, k) /\ f[i - 1] = <<list[k]>>
      BY <1>5, <2>1, <2>3
    <3>2. /\ k \in 1..(i - 1) /\ k \in 1..n
          /\ \A j \in 1..(i - 1) : ~ Beats(list[j], list[k])
          /\ \A j \in 1..(i - 1) : j < k => Beats(list[k], list[j])
      BY <1>2, <2>1, <3>1 DEF BestAt
    <3>3. Later(list[i], f[i - 1]) <=> Beats(list[i], list[k])
      BY <3>1 DEF Later, Beats
    <3>4. f[i] = IF Beats(list[i], list[k]) THEN <<list[i]>> ELSE <<list[k]>>
      BY <1>2, <3>1, <3>3
    <3>5. \A j \in 1..i : j = i \/ j \in 1..(i - 1)
      BY <2>1
    <3>6. CASE Beats(list[i], list[k])
      <4>1. \A j \in 1..(i - 1) : Beats(list[i], list[j])
        <5> SUFFICES ASSUME NEW j \in 1..(i - 1) PROVE Beats(list[i], list[j])
          OBVIOUS
        <5>1. j \in 1..n
          BY <1>2, <2>1
        <5>2. /\ End(list[i]) \in Int /\ list[i].dur \in Int /\ End(list[j]) \in Int /\ list[j].dur \in Int
              /\ End(list[k]) \in Int /\ list[k].dur \in Int
          BY <1>3, <3>2, <5>1
        <5>3. ~ Beats(list[j], list[k])
          BY <3>2
        <5> QED
          BY <3>6, <5>2, <5>3 DEF Beats
      <4>2. \A j \in 1..(i - 1) : ~ Beats(list[j], list[i])
        <5> SUFFICES ASSUME NEW j \in 1..(i - 1) PROVE ~ Beats(list[j], list[i])
          OBVIOUS
        <5>1. j \in 1..n
          BY <1>2, <2>1
        <5>2. /\ End(list[i]) \in Int /\ list[i].dur \in Int /\ End(list[j]) \in Int /\ list[j].dur \in Int
          BY <1>3, <5>1
        <5> QED
          BY <4>1, <5>2 DEF Beats
      <4>3. ~ Beats(list[i], list[i])
        BY <1>3 DEF Beats
      <4>4. \A j \in 1..i : ~ Beats(list[j], list[i])
        BY <3>5, <4>2, <4>3
      <4>5. \A j \in 1..i : j < i => Beats(list[i], list[j])
        BY <2>1, <3>5, <4>1
      <4>6. BestAt(list, i, i)
        BY <2>1, <4>4, <4>5 DEF BestAt
      <4> QED
        BY <2>1, <3>4, <3>6, <4>6
    <3>7. CASE ~ Beats(list[i], list[k])
      <4>1. k \in 1..i /\ ~ (i < k)
        BY <2>1, <3>2
      <4>2. \A j \in 1..i : ~ Beats(list[j], list[k])
        BY <3>2, <3>5, <3>7
      <4>3. \A j \in 1..i : j < k => Beats(list[k], list[j])
        BY <3>2, <3>5, <4>1
      <4>4. BestAt(list, i, k)
        BY <4>1, <4>2, <4>3 DEF BestAt
      <4> QED
        BY <2>1, <3>4, <3>7, <4>4
    <3> QED
      BY <3>6, <3>7
  <2> QED
    BY <2>2, <2>3
<1>6. n \in P
  <2> HIDE DEF P
  <2>1. \A i \in 1..n : i - 1 \in P => i \in P
    BY <1>5
  <2>2. \A i \in 0..n : i \in P
    BY <1>2, <1>4, <2>1, Rounds, Zenon
  <2> QED
    BY <1>2, <2>2
<1>7. CASE list = <<>>
  BY <1>1, <1>2, <1>7
<1>8. CASE list # <<>>
  <2>1. n # 0
    BY <1>8, EmptySeq
  <2> QED
    BY <1>1, <1>6, <1>8, <2>1
<1> QED
  BY <1>7, <1>8

\* The chosen span is of the list, and none of the list ends later.
LEMMA LatestOfList ==
  ASSUME NEW list \in Seq(Valid)
  PROVE  /\ PickLatestEnd(list) \in Seq(Valid)
         /\ list = <<>> => PickLatestEnd(list) = <<>>
         /\ list # <<>> => \E s \in ToSet(list) : PickLatestEnd(list) = <<s>> /\ NobodyLater(list, s) /\ s \in Valid
<1>1. CASE list = <<>>
  BY <1>1, LatestIs, EmptySeq
<1>2. CASE list # <<>>
  <2>1. PICK k : BestAt(list, Len(list), k) /\ PickLatestEnd(list) = <<list[k]>>
    BY <1>2, LatestIs
  <2>2. k \in 1..Len(list) /\ list[k] \in Valid /\ list[k] \in ToSet(list)
    BY <2>1 DEF BestAt, ToSet
  <2>3. ASSUME NEW o \in ToSet(list) PROVE End(o) <= End(list[k])
    <3>1. PICK j \in 1..Len(list) : o = list[j]
      BY DEF ToSet
    <3>2. o \in Valid /\ End(o) \in Int /\ End(list[k]) \in Int
      BY <2>2, <3>1, ValidTimes
    <3> QED
      BY <2>1, <3>1, <3>2 DEF BestAt, Beats
  <2>4. NobodyLater(list, list[k])
    BY <2>3 DEF NobodyLater
  <2> QED
    BY <1>2, <2>1, <2>2, <2>4
<1> QED
  BY <1>1, <1>2

\* The lists of the tree are lists of its spans.
LEMMA TreeLists ==
  ASSUME NEW spans \in Seq(Valid)
  PROVE  /\ Roots(spans) \in Seq(Valid)
         /\ ToSet(Roots(spans)) = {s \in ToSet(spans) : ~ HasParent(spans, s)}
         /\ \A p : /\ Kids(spans, p) \in Seq(Valid)
                   /\ ToSet(Kids(spans, p)) = {s \in ToSet(spans) : HasParent(spans, s) /\ s.parent = p}
<1>1. Roots(spans) \in Seq(Valid) /\ ToSet(Roots(spans)) = ToSet(spans) \cap {s \in ToSet(spans) : ~ HasParent(spans, s)}
  BY OnlyIs DEF Roots
<1>2. ASSUME NEW p
      PROVE  /\ Kids(spans, p) \in Seq(Valid)
             /\ ToSet(Kids(spans, p)) = {s \in ToSet(spans) : HasParent(spans, s) /\ s.parent = p}
  <2> DEFINE T == {s \in ToSet(spans) : HasParent(spans, s) /\ s.parent = p}
  <2>1. Kids(spans, p) = Only(spans, T)
    BY DEF Kids
  <2>2. ToSet(spans) \cap T = T
    OBVIOUS
  <2>3. Only(spans, T) \in Seq(Valid) /\ ToSet(Only(spans, T)) = ToSet(spans) \cap T
    <3> HIDE DEF T
    <3> QED
      BY OnlyIs
  <2>4. Only(spans, T) \in Seq(Valid) /\ ToSet(Only(spans, T)) = T
    <3> HIDE DEF T
    <3> QED
      BY <2>2, <2>3, Zenon
  <2>5. Kids(spans, p) \in Seq(Valid) /\ ToSet(Kids(spans, p)) = T
    <3> HIDE DEF T
    <3> QED
      BY <2>1, <2>4, Zenon
  <2> QED
    BY <2>5
<1> QED
  BY <1>1, <1>2

\* Where the path begins, and its rounds.
First(spans) == PickLatestEnd(IF Roots(spans) # <<>> THEN Roots(spans) ELSE spans)

PathRounds(f, spans) ==
  /\ f[0] = First(spans)
  /\ \A i \in 1..Len(spans) : f[i] = Follow(spans, f[i - 1])

\* CriticalPath as a loop.
LEMMA CriticalPathLoop ==
  ASSUME NEW spans \in Seq(Valid)
  PROVE  \E f \in [0..Len(spans) -> Seq(Valid)] : PathRounds(f, spans) /\ CriticalPath(spans) = f[Len(spans)]
<1> DEFINE n == Len(spans)
           S == Seq(Valid)
           start == First(spans)
           Round == [i \in 1..n |-> [acc \in S |-> Follow(spans, acc)]]
           Body(k) == [U \in SUBSET DOMAIN spans |->
                         IF U = {} THEN First(spans)
                         ELSE LET x == Max(U) IN Follow(spans, k[U \ {x}])]
           iter == CHOOSE k : k = Body(k)
<1>1. n \in Nat /\ DOMAIN spans = 1..n /\ start \in S
  <2>1. start \in S
    BY TreeLists, LatestOfList DEF First
  <2> QED
    BY <2>1
<1>2. Round \in [1..n -> [S -> S]]
  <2>1. ASSUME NEW acc \in S PROVE Follow(spans, acc) \in S
    <3> DEFINE next == PickLatestEnd(Kids(spans, Last(acc).id))
    <3>1. next \in Seq(Valid)
      BY TreeLists, LatestOfList
    <3>2. Follow(spans, acc) \in {acc, acc \o next}
      BY DEF Follow
    <3> HIDE DEF next
    <3> QED
      BY <3>1, <3>2, ConcatProperties
  <2> QED
    BY <2>1
<1>3. PICK g \in [SUBSET (1..n) -> S] : Folds(g, n, start, Round)
  <2> HIDE DEF n, S, start, Round
  <2> QED
    BY <1>1, <1>2, FoldIsDefined
<1>4. g = Body(g)
  <2>1. ASSUME NEW U \in SUBSET (1..n), U # {}
        PROVE  Max(U) \in 1..n /\ U \ {Max(U)} \in SUBSET (1..n)
    BY <1>1, <2>1, MaxOfNumbers
  <2>2. ASSUME NEW U \in SUBSET (1..n), U # {} PROVE g[U] = Body(g)[U]
    <3> DEFINE x == Max(U)
               V == U \ {x}
    <3>1. x \in 1..n /\ V \in SUBSET (1..n)
      BY <2>1, <2>2
    <3>2. g[U] = Round[x][g[V]] /\ g[V] \in S
      BY <1>3, <2>2, <3>1 DEF Folds
    <3>3. Body(g)[U] = Follow(spans, g[V])
      BY <1>1, <2>2
    <3> HIDE DEF x, V
    <3>4. g[U] = Follow(spans, g[V])
      BY <3>1, <3>2
    <3> QED
      BY <3>3, <3>4, Zenon
  <2>3. g[{}] = Body(g)[{}]
    BY <1>1, <1>3 DEF Folds
  <2>4. \A U \in SUBSET (1..n) : g[U] = Body(g)[U]
    BY <2>2, <2>3
  <2> QED
    BY <1>1, <2>4
<1>5. iter = Body(iter)
  BY <1>4
<1>6. CriticalPath(spans) = iter[1..n]
  BY <1>1 DEF CriticalPath, First, FoldLeft, MapThenFoldSet
<1> HIDE DEF iter
<1>7. iter[{}] = start
  BY <1>5
<1>8. ASSUME NEW i \in 1..n, iter[1..(i - 1)] \in S PROVE iter[1..i] = Round[i][iter[1..(i - 1)]]
  <2>1. 1..i \in SUBSET DOMAIN spans /\ 1..i # {} /\ Max(1..i) = i /\ (1..i) \ {i} = 1..(i - 1)
    BY <1>1, MaxUpto
  <2>2. iter[1..i] = Body(iter)[1..i]
    BY <1>5, Zenon
  <2>3. Body(iter)[1..i] = Follow(spans, iter[1..(i - 1)])
    BY <2>1
  <2> DEFINE acc == iter[1..(i - 1)]
  <2> HIDE DEF acc
  <2>4. acc \in S /\ Round[i][acc] = Follow(spans, acc)
    BY <1>8 DEF acc
  <2> QED
    BY <2>2, <2>3, <2>4, Zenon DEF acc
<1>9. PICK f : IsLoop(f, S, n, start, Round) /\ f[n] = iter[1..n]
  <2>1. Unfolds(iter, S, n, start, Round)
    BY <1>7, <1>8 DEF Unfolds
  <2> HIDE DEF n, S, start, Round
  <2> QED
    BY <1>1, <1>2, <2>1, FoldLoop
<1>10. f \in [0..n -> S] /\ f[0] = start /\ \A i \in 1..n : f[i] = Round[i][f[i - 1]]
  BY <1>9 DEF IsLoop
<1>11. ASSUME NEW i \in 1..n PROVE f[i] = Follow(spans, f[i - 1])
  <2> DEFINE acc == f[i - 1]
  <2>1. acc \in S /\ f[i] = Round[i][acc]
    <3>1. i - 1 \in 0..n
      BY <1>1
    <3> QED
      BY <1>10, <3>1
  <2> HIDE DEF acc
  <2>2. f[i] = Follow(spans, acc)
    BY <2>1
  <2> QED
    BY <2>2, Zenon DEF acc
<1>12. PathRounds(f, spans)
  BY <1>10, <1>11 DEF PathRounds
<1> QED
  BY <1>6, <1>9, <1>10, <1>12

\* One step of the path: to the child that ends last, unless it is on the path.
LEMMA FollowIs ==
  ASSUME NEW spans \in Seq(Valid), NEW path \in Seq(Valid), path # <<>>
  PROVE  \/ /\ Follow(spans, path) = path
            /\ Kids(spans, Last(path).id) = <<>>
         \/ \E k \in ToSet(Kids(spans, Last(path).id)) :
              /\ k \in Valid /\ k \in ToSet(spans) /\ k.parent = Last(path).id
              /\ NobodyLater(Kids(spans, Last(path).id), k)
              /\ IF k.id \in Known(path) THEN Follow(spans, path) = path
                 ELSE Follow(spans, path) = path \o <<k>>
<1> DEFINE kids == Kids(spans, Last(path).id)
           next == PickLatestEnd(kids)
<1>1. Follow(spans, path) = IF next = <<>> \/ Known(next) \subseteq Known(path) THEN path ELSE path \o next
  BY DEF Follow
<1>2. kids \in Seq(Valid) /\ ToSet(kids) = {s \in ToSet(spans) : HasParent(spans, s) /\ s.parent = Last(path).id}
  BY TreeLists
<1>3. CASE kids = <<>>
  <2>1. next = <<>>
    BY <1>2, <1>3, LatestOfList, EmptySeq
  <2> QED
    BY <1>1, <1>3, <2>1
<1>4. CASE kids # <<>>
  <2> HIDE DEF kids
  <2>1. PICK k \in ToSet(kids) : next = <<k>> /\ NobodyLater(kids, k) /\ k \in Valid
    BY <1>2, <1>4, LatestOfList
  <2>2. k \in ToSet(spans) /\ k.parent = Last(path).id
    BY <1>2
  <2>3. next # <<>> /\ Known(next) = {k.id}
    <3>1. Len(<<k>>) = 1 /\ <<k>>[1] = k /\ DOMAIN <<k>> = 1..1 /\ <<k>> # <<>>
      OBVIOUS
    <3>2. ToSet(<<k>>) = {k}
      BY <3>1 DEF ToSet
    <3> QED
      BY <2>1, <3>1, <3>2 DEF Known
  <2>4. IF k.id \in Known(path) THEN Follow(spans, path) = path ELSE Follow(spans, path) = path \o <<k>>
    <3> HIDE DEF next
    <3>1. Known(next) \subseteq Known(path) <=> k.id \in Known(path)
      BY <2>3
    <3> QED
      BY <1>1, <2>1, <2>3, <3>1
  <2> QED
    BY <2>1, <2>2, <2>4 DEF kids
<1> QED
  BY <1>3, <1>4

\* A chain of spans that wait for one another, and its end.
Chain(spans, path) ==
  /\ path \in Seq(Valid) /\ Len(path) >= 1
  /\ path[1] = First(spans)[1]
  /\ \A i \in 1..Len(path) : path[i] \in ToSet(spans)
  /\ \A i \in 2..Len(path) : path[i].parent = path[i - 1].id
  /\ \A i \in 2..Len(path) : NobodyLater(Kids(spans, path[i - 1].id), path[i])
  /\ \A i \in 2..Len(path) : \A j \in 1..(i - 1) : path[j].id # path[i].id

\* The span the walk of the path starts with.
LEMMA FirstIs ==
  ASSUME NEW spans \in Seq(Valid), spans # <<>>
  PROVE  \E s \in Valid :
           /\ First(spans) = <<s>> /\ s \in ToSet(spans)
           /\ Roots(spans) # <<>> => s \in ToSet(Roots(spans)) /\ NobodyLater(Roots(spans), s)
           /\ Roots(spans) = <<>> => NobodyLater(spans, s)
<1>1. Roots(spans) \in Seq(Valid) /\ ToSet(Roots(spans)) = {s \in ToSet(spans) : ~ HasParent(spans, s)}
  BY TreeLists
<1>2. CASE Roots(spans) # <<>>
  <2>1. First(spans) = PickLatestEnd(Roots(spans))
    BY <1>2 DEF First
  <2>2. PICK s \in ToSet(Roots(spans)) :
          PickLatestEnd(Roots(spans)) = <<s>> /\ NobodyLater(Roots(spans), s) /\ s \in Valid
    BY <1>1, <1>2, LatestOfList
  <2> QED
    BY <1>1, <1>2, <2>1, <2>2
<1>3. CASE Roots(spans) = <<>>
  <2>1. First(spans) = PickLatestEnd(spans)
    BY <1>3 DEF First
  <2>2. PICK s \in ToSet(spans) : PickLatestEnd(spans) = <<s>> /\ NobodyLater(spans, s) /\ s \in Valid
    BY LatestOfList
  <2> QED
    BY <1>3, <2>1, <2>2
<1> QED
  BY <1>2, <1>3

\* A chain is followed to a longer one, until it ends.
LEMMA ChainFollow ==
  ASSUME NEW spans \in Seq(Valid), NEW path, Chain(spans, path)
  PROVE  /\ Chain(spans, Follow(spans, path))
         /\ Follow(spans, path) = path \/ Len(Follow(spans, path)) = Len(path) + 1
<1> DEFINE n == Len(path)
<1>1. path \in Seq(Valid) /\ n \in Nat /\ n >= 1 /\ path # <<>>
  <2>1. path \in Seq(Valid) /\ Len(path) >= 1
    BY DEF Chain
  <2> QED
    BY <2>1, EmptySeq
<1>2. Last(path) = path[n]
  BY DEF Last
<1>3. CASE Follow(spans, path) = path
  BY <1>3
<1>4. CASE Follow(spans, path) # path
  <2>1. PICK k \in Valid :
          /\ k \in ToSet(spans) /\ k.parent = path[n].id /\ NobodyLater(Kids(spans, path[n].id), k)
          /\ k.id \notin Known(path) /\ Follow(spans, path) = path \o <<k>>
    BY <1>1, <1>2, <1>4, FollowIs
  <2> DEFINE v == path \o <<k>>
  <2>2. v \in Seq(Valid) /\ Len(v) = n + 1 /\ v[n + 1] = k /\ \A i \in 1..n : v[i] = path[i]
    BY <1>1
  <2> HIDE DEF v
  <2>3. \A i \in 1..(n + 1) : (i \in 1..n /\ v[i] = path[i]) \/ (i = n + 1 /\ v[i] = k)
    BY <1>1, <2>2
  <2>4. \A i \in 2..(n + 1) : \/ i \in 2..n /\ v[i] = path[i] /\ v[i - 1] = path[i - 1]
                              \/ i = n + 1 /\ v[i] = k /\ v[i - 1] = path[n]
    <3> SUFFICES ASSUME NEW i \in 2..(n + 1)
                 PROVE  \/ i \in 2..n /\ v[i] = path[i] /\ v[i - 1] = path[i - 1]
                        \/ i = n + 1 /\ v[i] = k /\ v[i - 1] = path[n]
      OBVIOUS
    <3>1. i - 1 \in 1..n
      BY <1>1
    <3>2. i = n + 1 => i - 1 = n
      BY <1>1
    <3>3. i \in 2..n \/ i = n + 1
      BY <1>1
    <3>4. i \in 2..n => i \in 1..n
      OBVIOUS
    <3> QED
      BY <2>2, <3>1, <3>2, <3>3, <3>4
  <2>5. \A i \in 1..(n + 1) : v[i] \in ToSet(spans)
    BY <2>1, <2>3 DEF Chain
  <2>6. \A i \in 2..(n + 1) : v[i].parent = v[i - 1].id
    BY <2>1, <2>4 DEF Chain
  <2>7. \A i \in 2..(n + 1) : NobodyLater(Kids(spans, v[i - 1].id), v[i])
    BY <2>1, <2>4 DEF Chain
  <2>8. \A i \in 2..(n + 1) : \A j \in 1..(i - 1) : v[j].id # v[i].id
    <3> SUFFICES ASSUME NEW i \in 2..(n + 1), NEW j \in 1..(i - 1) PROVE v[j].id # v[i].id
      OBVIOUS
    <3>1. j \in 1..n /\ v[j] = path[j]
      BY <1>1, <2>2
    <3>2. path[j].id \in Known(path)
      BY <1>1, <3>1 DEF Known, ToSet
    <3> QED
      BY <2>1, <2>4, <3>1, <3>2 DEF Chain
  <2>9. v[1] = path[1]
    BY <1>1, <2>2
  <2>10. Chain(spans, v)
    BY <1>1, <2>2, <2>5, <2>6, <2>7, <2>8, <2>9 DEF Chain
  <2> QED
    BY <2>1, <2>2, <2>10 DEF v
<1> QED
  BY <1>3, <1>4

\* A chain has no more spans than the trace.
LEMMA ChainIsBounded ==
  ASSUME NEW spans \in Seq(Valid), NEW path, Chain(spans, path)
  PROVE  Len(path) \in Nat /\ Len(path) <= Len(spans)
<1> DEFINE n == Len(path)
           m == Len(spans)
           at == [i \in 1..n |-> CHOOSE j \in 1..m : spans[j] = path[i]]
<1>1. n \in Nat /\ m \in Nat /\ DOMAIN spans = 1..m
  BY DEF Chain
<1>2. \A i \in 1..n : \E j \in 1..m : spans[j] = path[i]
  BY <1>1 DEF Chain, ToSet
<1>3. \A i \in 1..n : at[i] \in 1..m /\ spans[at[i]] = path[i]
  BY <1>2
<1>4. at \in [1..n -> 1..m]
  BY <1>3
<1> HIDE DEF at, n, m
<1>5. IsFiniteSet(1..n) /\ Cardinality(1..n) = n /\ IsFiniteSet(1..m) /\ Cardinality(1..m) = m
  BY <1>1, UptoIsFinite
<1>6. ASSUME m < n PROVE FALSE
  <2>1. PICK x, y \in 1..n : x # y /\ at[x] = at[y]
    BY <1>4, <1>5, <1>6, FS_PigeonHole
  <2>2. path[x] = path[y]
    BY <1>3, <2>1
  <2>3. x < y \/ y < x
    BY <1>1, <2>1
  <2>4. CASE x < y
    <3>1. y \in 2..n /\ x \in 1..(y - 1)
      BY <1>1, <2>4
    <3> QED
      BY <2>2, <3>1 DEF Chain, n
  <2>5. CASE y < x
    <3>1. x \in 2..n /\ y \in 1..(x - 1)
      BY <1>1, <2>5
    <3> QED
      BY <2>2, <3>1 DEF Chain, n
  <2> QED
    BY <2>3, <2>4, <2>5
<1> QED
  BY <1>1, <1>6 DEF n, m

\* The critical path is a chain that cannot be followed any further.
LEMMA PathIs ==
  ASSUME NEW spans \in Seq(Valid), spans # <<>>
  PROVE  Chain(spans, CriticalPath(spans)) /\ Follow(spans, CriticalPath(spans)) = CriticalPath(spans)
<1> DEFINE n == Len(spans)
<1>1. PICK f \in [0..n -> Seq(Valid)] : PathRounds(f, spans) /\ CriticalPath(spans) = f[n]
  BY CriticalPathLoop
<1>2. /\ n \in Nat /\ f[0] = First(spans)
      /\ \A i \in 1..n : f[i] = Follow(spans, f[i - 1])
  BY <1>1 DEF PathRounds
<1> DEFINE P == {i \in 0..n : Chain(spans, f[i]) /\ (Follow(spans, f[i]) = f[i] \/ Len(f[i]) = i + 1)}
<1>3. 0 \in P
  <2>1. PICK s \in Valid : First(spans) = <<s>> /\ s \in ToSet(spans)
    BY FirstIs
  <2>2. f[0] = <<s>> /\ f[0] \in Seq(Valid) /\ Len(f[0]) = 1 /\ f[0][1] = s
    BY <1>2, <2>1
  <2>3. Chain(spans, f[0])
    BY <1>2, <2>1, <2>2 DEF Chain
  <2> QED
    BY <1>2, <2>2, <2>3
<1>4. ASSUME NEW i \in 1..n, i - 1 \in P PROVE i \in P
  <2>1. f[i] = Follow(spans, f[i - 1]) /\ i \in 0..n /\ i \in Nat
    BY <1>2
  <2>2. Chain(spans, f[i - 1]) /\ (Follow(spans, f[i - 1]) = f[i - 1] \/ Len(f[i - 1]) = i)
    BY <1>2, <1>4
  <2>3. Chain(spans, f[i]) /\ (f[i] = f[i - 1] \/ Len(f[i]) = Len(f[i - 1]) + 1)
    BY <2>1, <2>2, ChainFollow
  <2> QED
    BY <2>1, <2>2, <2>3
<1>5. n \in P
  <2> HIDE DEF P
  <2>1. \A i \in 1..n : i - 1 \in P => i \in P
    BY <1>4
  <2>2. \A i \in 0..n : i \in P
    BY <1>2, <1>3, <2>1, Rounds, Zenon
  <2> QED
    BY <1>2, <2>2
<1>6. Chain(spans, f[n]) /\ (Follow(spans, f[n]) = f[n] \/ Len(f[n]) = n + 1)
  BY <1>5
<1>7. Len(f[n]) \in Nat /\ Len(f[n]) <= n
  BY <1>6, ChainIsBounded
<1> QED
  BY <1>1, <1>2, <1>6, <1>7

\* The first start and the last end of a trace bound all of its spans.
LEMMA TraceBounds ==
  ASSUME NEW spans \in Seq(Valid), spans # <<>>
  PROVE  /\ Min({s.start : s \in ToSet(spans)}) \in {s.start : s \in ToSet(spans)}
         /\ Max({End(s) : s \in ToSet(spans)}) \in {End(s) : s \in ToSet(spans)}
         /\ \A s \in ToSet(spans) : /\ Min({o.start : o \in ToSet(spans)}) <= s.start
                                    /\ End(s) <= Max({End(o) : o \in ToSet(spans)})
<1> DEFINE n == Len(spans)
           starts == [i \in 1..n |-> spans[i].start]
           ends == [i \in 1..n |-> End(spans[i])]
           A == {s.start : s \in ToSet(spans)}
           B == {End(s) : s \in ToSet(spans)}
<1>1. n \in Nat \ {0} /\ DOMAIN spans = 1..n /\ ToSet(spans) = {spans[i] : i \in 1..n}
  BY EmptySeq DEF ToSet
<1>2. \A i \in 1..n : spans[i] \in Valid /\ spans[i].start \in Int /\ End(spans[i]) \in Int
  <2>1. \A i \in 1..n : spans[i] \in Valid
    OBVIOUS
  <2> QED
    BY <2>1, ValidTimes
<1>3. starts \in [1..n -> Int] /\ ends \in [1..n -> Int]
  BY <1>2
<1>4. A = {starts[i] : i \in 1..n} /\ B = {ends[i] : i \in 1..n}
  BY <1>1
<1> HIDE DEF n, A, B, starts, ends
<1>5. Min(A) \in A /\ \A x \in A : Min(A) <= x
  BY <1>1, <1>3, <1>4, MinOf
<1>6. Max(B) \in B /\ \A x \in B : x <= Max(B)
  BY <1>1, <1>3, <1>4, MaxOf
<1> QED
  BY <1>5, <1>6 DEF A, B

\* The path takes no longer than the trace.
LEMMA PathTime ==
  ASSUME NEW spans \in Seq(Valid), spans # <<>>, NEW path, Chain(spans, path)
  PROVE  PathWallNs(spans, path)
           \in 0..(Max({End(s) : s \in ToSet(spans)}) - Min({s.start : s \in ToSet(spans)}))
<1> DEFINE a == Min({s.start : s \in ToSet(spans)})
           b == Max({End(s) : s \in ToSet(spans)})
           first == ByID(spans, path[1].id)
           last == ByID(spans, Last(path).id)
<1>1. ASSUME NEW s \in ToSet(spans) PROVE ByID(spans, s.id) \in ToSet(spans)
  <2> DEFINE T == {o \in ToSet(spans) : o.id = s.id}
             w == Only(spans, T)
  <2>1. s \in T /\ T \subseteq ToSet(spans)
    BY <1>1
  <2>2. w \in Seq(Valid) /\ ToSet(w) = ToSet(spans) \cap T
    <3> HIDE DEF T
    <3> QED
      BY OnlyIs
  <2>3. ByID(spans, s.id) = Last(w)
    BY DEF ByID
  <2> HIDE DEF w, T
  <2>4. s \in ToSet(w)
    BY <2>1, <2>2
  <2>5. w # <<>> /\ Len(w) \in Nat /\ Len(w) # 0
    BY <2>2, <2>4, EmptySeq DEF ToSet
  <2>6. w[Len(w)] \in ToSet(w)
    BY <2>2, <2>5 DEF ToSet
  <2> QED
    BY <2>2, <2>3, <2>6 DEF Last
<1>2. path[1] \in ToSet(spans) /\ Last(path) \in ToSet(spans)
  <2>1. Len(path) \in Nat /\ Len(path) >= 1 /\ \A i \in 1..Len(path) : path[i] \in ToSet(spans)
    BY DEF Chain
  <2>2. 1 \in 1..Len(path) /\ Len(path) \in 1..Len(path)
    BY <2>1
  <2> QED
    BY <2>1, <2>2 DEF Last
<1>3. first \in ToSet(spans) /\ last \in ToSet(spans)
  BY <1>1, <1>2
<1>4. \A s \in ToSet(spans) : s \in Valid
  BY DEF ToSet
<1>5. PathWallNs(spans, path) = IF End(last) > first.start THEN End(last) - first.start ELSE last.dur
  BY DEF PathWallNs
<1> HIDE DEF first, last
<1>6. /\ first.start \in Nat /\ last.start \in Nat /\ last.dur \in Nat /\ End(last) \in Nat
      /\ End(last) = last.start + last.dur
  BY <1>3, <1>4, ValidTimes
<1>7. a <= first.start /\ a <= last.start /\ End(last) <= b
  BY <1>3, TraceBounds
<1>8. a \in Nat /\ b \in Nat
  <2>1. \A s \in ToSet(spans) : s.start \in Nat /\ End(s) \in Nat
    BY <1>4, ValidTimes
  <2> QED
    BY <2>1, TraceBounds
<1> HIDE DEF a, b
<1> QED
  BY <1>5, <1>6, <1>7, <1>8 DEF a, b

\* The property of the path follows from the invariant.
LEMMA InvPath == IInv => PathIsTheWaitChain
<1> SUFFICES ASSUME IInv, page.status = "ok" PROVE PathIsTheWaitChain
  BY DEF PathIsTheWaitChain
<1> DEFINE spans == page.spans
           path == page.path
<1>1. /\ spans \in Seq(Valid) /\ Len(spans) >= 1 /\ page = AssembleTrace(spans)
  BY LimitsArePositive DEF IInv, PageIsRead
<1>2. /\ path = CriticalPath(spans) /\ page.pathNs = PathWallNs(spans, path)
      /\ page.dur = Max({End(s) : s \in ToSet(spans)}) - Min({s.start : s \in ToSet(spans)})
  BY <1>1 DEF AssembleTrace
<1> HIDE DEF spans, path
<1>3. spans # <<>>
  BY <1>1, EmptySeq
<1>4. Chain(spans, path) /\ Follow(spans, path) = path
  BY <1>1, <1>2, <1>3, PathIs
<1>5. path \in Seq(Valid) /\ path # <<>> /\ Len(path) \in Nat
  <2>1. path \in Seq(Valid) /\ Len(path) >= 1
    BY <1>4 DEF Chain
  <2> QED
    BY <2>1, EmptySeq
<1>6. PICK s \in Valid :
        /\ First(spans) = <<s>>
        /\ Roots(spans) # <<>> => s \in ToSet(Roots(spans)) /\ NobodyLater(Roots(spans), s)
        /\ Roots(spans) = <<>> => NobodyLater(spans, s)
  BY <1>1, <1>3, FirstIs
<1>7. path[1] = s
  BY <1>4, <1>6 DEF Chain
<1>8. \/ Kids(spans, Last(path).id) = <<>>
      \/ \E k \in ToSet(Kids(spans, Last(path).id)) :
           k.id \in Known(path) /\ NobodyLater(Kids(spans, Last(path).id), k)
  <2>1. SUFFICES ASSUME NEW k \in ToSet(Kids(spans, Last(path).id)), k \in Valid,
                        NobodyLater(Kids(spans, Last(path).id), k),
                        IF k.id \in Known(path) THEN Follow(spans, path) = path
                        ELSE Follow(spans, path) = path \o <<k>>
                 PROVE  k.id \in Known(path)
    BY <1>1, <1>5, FollowIs
  <2>2. path \o <<k>> # path
    <3>1. Len(path \o <<k>>) = Len(path) + 1
      BY <1>5, <2>1
    <3> QED
      BY <1>5, <3>1
  <2> QED
    BY <1>4, <2>1, <2>2
<1>9. page.pathNs \in 0..page.dur
  BY <1>1, <1>2, <1>3, <1>4, PathTime
<1>10. /\ \A i \in 2..Len(path) : path[i].parent = path[i - 1].id
       /\ \A i \in 2..Len(path) : NobodyLater(Kids(spans, path[i - 1].id), path[i])
       /\ \A i \in 2..Len(path) : \A j \in 1..(i - 1) : path[j].id # path[i].id
  BY <1>4 DEF Chain
<1> QED
  BY <1>5, <1>6, <1>7, <1>8, <1>9, <1>10 DEF PathIsTheWaitChain, spans, path

\* For spans of any number and shape, cycles and orphans and copies included: the
\* critical path begins at the root that ends last, goes from each span to the
\* child that no sibling outlasts, passes no span twice, stops only at a leaf or
\* where a cycle closes, and takes no longer than the trace.
THEOREM PathWaits == Spec => []PathIsTheWaitChain
BY InvHolds, InvPath, PTL

-----------------------------------------------------------------------------
(* The live row and the search's row *)

\* r names the trace rather than o, or does as well: a span without a parent, or
\* the earlier one.
Leads(r, o) ==
  \/ r.parent = Empty /\ o.parent # Empty
  \/ (r.parent = Empty <=> o.parent = Empty) /\ r.start <= o.start

\* PickRoot finds a span that leads all others.
LEMMA PickRootIs ==
  ASSUME NEW list \in Seq(Valid), list # <<>>
  PROVE  /\ PickRoot(list)[1] \in ToSet(list)
         /\ \A o \in ToSet(list) : Leads(PickRoot(list)[1], o)
<1> DEFINE n == Len(list)
<1>1. PICK f \in [0..n -> ({<<>>} \cup {<<r>> : r \in Valid})] :
           RootRounds(f, list) /\ PickRoot(list) = f[n]
  BY PickRootLoop
<1>2. /\ n \in Nat /\ n # 0 /\ f[0] = <<>>
      /\ \A i \in 1..n : f[i] = IF BetterRoot(f[i - 1], list[i]) THEN <<list[i]>> ELSE f[i - 1]
  BY <1>1, EmptySeq DEF RootRounds
<1>3. \A i \in 1..n : list[i] \in Valid /\ list[i].start \in Nat /\ list[i].parent \in Int
  <2>1. \A i \in 1..n : list[i] \in Valid
    OBVIOUS
  <2> QED
    BY <2>1, ValidTimes
<1> DEFINE P == {i \in 0..n : i = 0 \/ \E k \in 1..i : f[i] = <<list[k]>> /\ \A j \in 1..i : Leads(list[k], list[j])}
<1>4. 0 \in P
  BY <1>2
<1>5. ASSUME NEW i \in 1..n, i - 1 \in P PROVE i \in P
  <2>1. i \in 0..n /\ i \in Nat /\ i >= 1 /\ i \in 1..i
    BY <1>2
  <2>2. CASE i = 1
    <3>1. BetterRoot(f[0], list[1])
      BY <1>2 DEF BetterRoot
    <3>2. f[1] = <<list[1]>>
      <4>1. i - 1 = 0
        BY <2>2
      <4>2. f[i] = IF BetterRoot(f[0], list[i]) THEN <<list[i]>> ELSE f[0]
        BY <1>2, <4>1
      <4> QED
        BY <2>2, <3>1, <4>2
    <3>3. Leads(list[1], list[1])
      BY <1>3, <2>1, <2>2 DEF Leads
    <3>4. \A j \in 1..i : j = 1
      BY <2>2
    <3> QED
      BY <2>1, <2>2, <3>2, <3>3, <3>4
  <2>3. CASE i # 1
    <3>1. PICK k \in 1..(i - 1) : f[i - 1] = <<list[k]>> /\ \A j \in 1..(i - 1) : Leads(list[k], list[j])
      BY <1>5, <2>1, <2>3
    <3>2. k \in 1..n /\ k \in 1..i /\ \A j \in 1..i : j = i \/ j \in 1..(i - 1)
      BY <1>2, <2>1
    <3>3. <<list[k]>> # <<>> /\ <<list[k]>>[1] = list[k]
      OBVIOUS
    <3>4. BetterRoot(f[i - 1], list[i]) <=>
             \/ list[k].parent # Empty /\ list[i].parent = Empty
             \/ (list[k].parent # Empty) = (list[i].parent # Empty) /\ list[i].start < list[k].start
      BY <3>1, <3>3 DEF BetterRoot
    <3>5. CASE BetterRoot(f[i - 1], list[i])
      <4>1. Leads(list[i], list[k])
        BY <1>3, <3>2, <3>4, <3>5 DEF Leads
      <4>2. ASSUME NEW j \in 1..(i - 1) PROVE Leads(list[i], list[j])
        <5>1. j \in 1..n /\ Leads(list[k], list[j])
          BY <1>2, <2>1, <3>1
        <5> QED
          BY <1>3, <3>2, <4>1, <5>1 DEF Leads
      <4>3. Leads(list[i], list[i])
        BY <1>3 DEF Leads
      <4>4. \A j \in 1..i : Leads(list[i], list[j])
        BY <3>2, <4>2, <4>3
      <4> QED
        BY <1>2, <2>1, <3>5, <4>4
    <3>6. CASE ~ BetterRoot(f[i - 1], list[i])
      <4>1. Leads(list[k], list[i])
        BY <1>3, <3>2, <3>4, <3>6 DEF Leads
      <4>2. \A j \in 1..i : Leads(list[k], list[j])
        BY <3>1, <3>2, <4>1
      <4> QED
        BY <1>2, <2>1, <3>1, <3>2, <3>6, <4>2
    <3> QED
      BY <3>5, <3>6
  <2> QED
    BY <2>2, <2>3
<1>6. n \in P
  <2> HIDE DEF P
  <2>1. \A i \in 1..n : i - 1 \in P => i \in P
    BY <1>5
  <2>2. \A i \in 0..n : i \in P
    BY <1>2, <1>4, <2>1, Rounds, Zenon
  <2> QED
    BY <1>2, <2>2
<1>7. PICK k \in 1..n : f[n] = <<list[k]>> /\ \A j \in 1..n : Leads(list[k], list[j])
  BY <1>2, <1>6
<1>8. PickRoot(list)[1] = list[k]
  BY <1>1, <1>7
<1>9. ToSet(list) = {list[j] : j \in 1..n}
  BY DEF ToSet
<1> QED
  BY <1>7, <1>8, <1>9

\* The rows of a search, from the spans of the trace.
LEMMA SearchRowsHave ==
  ASSUME NEW rs, NEW t, NEW own, own = Only(rs, {s \in ToSet(rs) : s.tid = t}),
         NEW r \in ToSet(own), \A o \in ToSet(own) : Leads(r, o)
  PROVE  [tid |-> t, start |-> Min({s.start : s \in ToSet(own)}),
          dur |-> Max({End(s) : s \in ToSet(own)}) - Min({s.start : s \in ToSet(own)}),
          count |-> Len(own), status |-> Max({s.status : s \in ToSet(own)}), svc |-> r.svc]
         \in SearchRows(rs, t)
<1> DEFINE spans == ToSet(own)
           Key(s) == <<IF s.parent = Empty THEN 0 ELSE 1, s.start>>
           Leq(k, l) == k[1] < l[1] \/ (k[1] = l[1] /\ k[2] <= l[2])
<1>1. \A o \in spans : Leq(Key(r), Key(o))
  BY DEF Leads
<1>2. r \in {s \in spans : \A o \in spans : Leq(Key(s), Key(o))}
  BY <1>1
<1> QED
  BY <1>2 DEF SearchRows

\* The spans of a trace in the batch and in the sorted table.
LEMMA OwnSpans ==
  ASSUME NEW batch \in Seq(Valid), NEW t
  PROVE  LET own == Only(batch, {s \in ToSet(batch) : s.tid = t})
             kept == Only(Ordered(batch), {s \in ToSet(Ordered(batch)) : s.tid = t})
         IN  /\ own \in Seq(Valid) /\ ToSet(own) = {s \in ToSet(batch) : s.tid = t}
             /\ ToSet(kept) = ToSet(own) /\ Len(kept) = Len(own)
<1> DEFINE T == {s \in ToSet(batch) : s.tid = t}
           v == Sorted(batch, Earlier(batch))
           own == Only(batch, T)
           kept == Only(v, T)
<1>1. v = Ordered(batch) /\ v \in Seq(Valid) /\ ToSet(v) = ToSet(batch)
  BY OrderedIs
<1>2. T \subseteq ToSet(batch)
  OBVIOUS
<1>3. {s \in ToSet(v) : s.tid = t} = T
  BY <1>1
<1> HIDE DEF T, v
<1>4. /\ own \in Seq(Valid) /\ ToSet(own) = ToSet(batch) \cap T
      /\ Len(own) = Cardinality(Places(batch, T))
  BY OnlyIs
<1>5. /\ ToSet(kept) = ToSet(v) \cap T
      /\ Len(kept) = Cardinality(Places(v, T))
  BY <1>1, OnlyIs
<1>6. Cardinality(Places(v, T)) = Cardinality(Places(batch, T))
  BY SortedCounts DEF v
<1>7. own \in Seq(Valid) /\ ToSet(own) = T /\ ToSet(kept) = T /\ Len(kept) = Len(own)
  <2> HIDE DEF own, kept
  <2> QED
    BY <1>1, <1>2, <1>4, <1>5, <1>6
<1> QED
  BY <1>1, <1>3, <1>7 DEF T

\* The property of the live row follows from the invariant.
LEMMA InvRow == IInv => LiveRowIsSearchRow
<1> SUFFICES ASSUME IInv, inserts = 1, NEW row \in SummarizeBatch(Batch.spans)
             PROVE  row \in SearchRows(rows, row.tid)
  BY DEF LiveRowIsSearchRow
<1> DEFINE batch == Batch.spans
<1>1. rows = Ordered(batch) /\ batch \in Seq(Valid)
  BY BatchIs DEF IInv
<1>2. PICK s0 \in ToSet(batch) : row = Summary(batch, s0.tid)
  BY DEF SummarizeBatch
<1> DEFINE t == s0.tid
           own == Only(batch, {s \in ToSet(batch) : s.tid = t})
           kept == Only(rows, {s \in ToSet(rows) : s.tid = t})
           from == Min({s.start : s \in ToSet(own)})
           to == Max({End(s) : s \in ToSet(own)})
           r == PickRoot(own)[1]
<1>3. row = [tid |-> t, start |-> from, dur |-> IF to > from THEN to - from ELSE 0,
             count |-> Len(own), status |-> Max({s.status : s \in ToSet(own)}), svc |-> r.svc]
  BY <1>2 DEF Summary
<1> HIDE DEF batch
<1>4. /\ own \in Seq(Valid) /\ ToSet(own) = {s \in ToSet(batch) : s.tid = t}
      /\ ToSet(kept) = ToSet(own) /\ Len(kept) = Len(own)
  BY <1>1, OwnSpans
<1>5. kept = Only(rows, {s \in ToSet(rows) : s.tid = t})
  OBVIOUS
<1> HIDE DEF t, own, kept
<1>6. s0 \in ToSet(own)
  BY <1>4 DEF t
<1>7. own # <<>>
  BY <1>6 DEF ToSet
<1>8. r \in ToSet(own) /\ \A o \in ToSet(own) : Leads(r, o)
  BY <1>4, <1>7, PickRootIs
<1>9. (IF to > from THEN to - from ELSE 0) = to - from
  <2>1. /\ from \in {s.start : s \in ToSet(own)} /\ to \in {End(s) : s \in ToSet(own)}
        /\ from <= s0.start /\ End(s0) <= to
    BY <1>4, <1>6, <1>7, TraceBounds
  <2>2. \A s \in ToSet(own) : s \in Valid /\ s.start \in Nat /\ End(s) \in Nat /\ s.start <= End(s)
    <3>1. \A s \in ToSet(own) : s \in Valid
      BY <1>4 DEF ToSet
    <3> QED
      BY <3>1, ValidTimes
  <2>3. from \in Nat /\ to \in Nat /\ s0.start \in Nat /\ End(s0) \in Nat /\ s0.start <= End(s0)
    BY <1>6, <2>1, <2>2
  <2> HIDE DEF from, to
  <2> QED
    BY <2>1, <2>3
<1> HIDE DEF r
<1>10. [tid |-> t, start |-> Min({s.start : s \in ToSet(kept)}),
        dur |-> Max({End(s) : s \in ToSet(kept)}) - Min({s.start : s \in ToSet(kept)}),
        count |-> Len(kept), status |-> Max({s.status : s \in ToSet(kept)}), svc |-> r.svc]
       \in SearchRows(rows, t)
  <2>1. r \in ToSet(kept) /\ \A o \in ToSet(kept) : Leads(r, o)
    BY <1>4, <1>8
  <2> QED
    BY <1>5, <2>1, SearchRowsHave
<1>11. row \in SearchRows(rows, t)
  BY <1>3, <1>4, <1>9, <1>10
<1>12. row.tid = t
  BY <1>3
<1> QED
  BY <1>11, <1>12

\* For batches of any size, of any number of traces: the row the live stream
\* shows for a trace of the batch is one a search may show once the batch is
\* stored, with the same count, times and status and named by the same span.
THEOREM LiveRowsAgree == Spec => []LiveRowIsSearchRow
BY InvHolds, InvRow, PTL

-----------------------------------------------------------------------------
(* The waterfall *)

\* A row of the waterfall, and what walk has to do and has done.
TreeRow(spans) == [span : ToSet(spans), depth : Nat]
WalkState(spans) == [left : Seq(TreeRow(spans)), laid : Seq(TreeRow(spans))]

\* A list of elements of A.
LEMMA ListOf ==
  ASSUME NEW R, NEW seq \in Seq(R), NEW A, ToSet(seq) \subseteq A
  PROVE  seq \in Seq(A)
<1>1. Len(seq) \in Nat /\ seq \in [1..Len(seq) -> R]
  OBVIOUS
<1>2. \A i \in 1..Len(seq) : seq[i] \in A
  BY <1>1 DEF ToSet
<1>3. seq \in [1..Len(seq) -> A]
  BY <1>1, <1>2
<1> QED
  BY <1>1, <1>3

\* The children the layout visits below a span.
LEMMA ChildrenAre ==
  ASSUME NEW spans \in Seq(Valid), NEW id
  PROVE  /\ Children(spans, id) \in Seq(ToSet(spans))
         /\ Len(Children(spans, id)) = Len(Kids(spans, id))
         /\ ToSet(Children(spans, id)) = {s \in ToSet(spans) : HasParent(spans, s) /\ s.parent = id}
<1>1. Kids(spans, id) \in Seq(Valid)
      /\ ToSet(Kids(spans, id)) = {s \in ToSet(spans) : HasParent(spans, s) /\ s.parent = id}
  BY TreeLists
<1>2. /\ Children(spans, id) \in Seq(Valid)
      /\ Len(Children(spans, id)) = Len(Kids(spans, id))
      /\ ToSet(Children(spans, id)) = ToSet(Kids(spans, id))
  BY <1>1, OrderedIs DEF Children
<1>3. ToSet(Children(spans, id)) \subseteq ToSet(spans)
  BY <1>1, <1>2
<1>4. Children(spans, id) \in Seq(ToSet(spans))
  BY <1>2, <1>3, ListOf
<1> QED
  BY <1>1, <1>2, <1>4

\* The rows put on the stack for a list of spans.
LEMMA RowsAre ==
  ASSUME NEW spans \in Seq(Valid), NEW list \in Seq(ToSet(spans)), NEW depth \in Nat
  PROVE  /\ Rows(list, depth) \in Seq(TreeRow(spans))
         /\ Len(Rows(list, depth)) = Len(list)
         /\ \A i \in 1..Len(list) : Rows(list, depth)[i] = [span |-> list[i], depth |-> depth]
<1> DEFINE n == Len(list)
           v == Rows(list, depth)
<1>1. n \in Nat /\ DOMAIN list = 1..n /\ \A i \in 1..n : list[i] \in ToSet(spans)
  OBVIOUS
<1>2. v = [i \in 1..n |-> [span |-> list[i], depth |-> depth]]
  BY <1>1 DEF Rows
<1>3. v \in [1..n -> TreeRow(spans)] /\ \A i \in 1..n : v[i] = [span |-> list[i], depth |-> depth]
  BY <1>1, <1>2 DEF TreeRow
<1> HIDE DEF v
<1>4. v \in Seq(TreeRow(spans)) /\ Len(v) = n
  BY <1>1, <1>3
<1> QED
  BY <1>3, <1>4 DEF v

\* The two things a call of walk may do.
Skips(spans, w) ==
  /\ w.left # <<>> /\ w.left[1].span.id \in Seen(w.laid)
  /\ Visit(spans, w) = [left |-> Tail(w.left), laid |-> w.laid]
Takes(spans, w) ==
  /\ w.left # <<>> /\ w.left[1].span.id \notin Seen(w.laid)
  /\ Visit(spans, w) = [left |-> Rows(Children(spans, w.left[1].span.id), w.left[1].depth + 1) \o Tail(w.left),
                        laid |-> Append(w.laid, w.left[1])]

\* A visit leaves a finished walk alone, skips a span, or takes one.
LEMMA VisitIs ==
  ASSUME NEW spans \in Seq(Valid), NEW w \in WalkState(spans)
  PROVE  /\ Visit(spans, w) \in WalkState(spans)
         /\ \/ w.left = <<>> /\ Visit(spans, w) = w
            \/ Skips(spans, w)
            \/ Takes(spans, w)
<1>1. w.left \in Seq(TreeRow(spans)) /\ w.laid \in Seq(TreeRow(spans)) /\ w = [left |-> w.left, laid |-> w.laid]
  BY DEF WalkState
<1>2. CASE w.left = <<>>
  BY <1>2 DEF Visit
<1>3. ASSUME w.left # <<>>
      PROVE  Head(w.left) = w.left[1] /\ w.left[1] \in TreeRow(spans) /\ Tail(w.left) \in Seq(TreeRow(spans))
  BY <1>1, <1>3
<1>4. CASE w.left # <<>> /\ w.left[1].span.id \in Seen(w.laid)
  <2>1. Visit(spans, w) = [w EXCEPT !.left = Tail(@)]
    BY <1>3, <1>4 DEF Visit
  <2>2. Visit(spans, w) = [left |-> Tail(w.left), laid |-> w.laid]
    BY <1>1, <2>1
  <2> QED
    BY <1>1, <1>3, <1>4, <2>2 DEF Skips, WalkState
<1>5. CASE w.left # <<>> /\ w.left[1].span.id \notin Seen(w.laid)
  <2> DEFINE top == w.left[1]
             kids == Rows(Children(spans, top.span.id), top.depth + 1)
  <2>1. Visit(spans, w) = [left |-> kids \o Tail(w.left), laid |-> Append(w.laid, top)]
    BY <1>3, <1>5 DEF Visit
  <2>2. top \in TreeRow(spans) /\ top.depth + 1 \in Nat
    BY <1>3, <1>5 DEF TreeRow
  <2>3. kids \in Seq(TreeRow(spans))
    BY <2>2, ChildrenAre, RowsAre
  <2> HIDE DEF kids, top
  <2>4. kids \o Tail(w.left) \in Seq(TreeRow(spans)) /\ Append(w.laid, top) \in Seq(TreeRow(spans))
    BY <1>1, <1>3, <1>5, <2>2, <2>3
  <2> QED
    BY SMTT(20), <1>5, <2>1, <2>4 DEF WalkState, Takes, top, kids
<1> QED
  BY <1>2, <1>4, <1>5

\* A walk as a fold of its calls.
Walks(spans, list, laid0) ==
  FoldLeft(LAMBDA w, s : Visit(spans, w), [left |-> Rows(list, 0), laid |-> laid0], spans \o spans)

WalkRounds(f, spans, list, laid0) ==
  /\ f[0] = [left |-> Rows(list, 0), laid |-> laid0]
  /\ \A i \in 1..Len(spans \o spans) : f[i] = Visit(spans, f[i - 1])

\* Walk as a loop.
LEMMA WalkLoop ==
  ASSUME NEW spans \in Seq(Valid), NEW list \in Seq(ToSet(spans)), NEW laid0 \in Seq(TreeRow(spans))
  PROVE  \E f \in [0..Len(spans \o spans) -> WalkState(spans)] :
           WalkRounds(f, spans, list, laid0) /\ Walks(spans, list, laid0) = f[Len(spans \o spans)]
<1> DEFINE n == Len(spans \o spans)
           S == WalkState(spans)
           start == [left |-> Rows(list, 0), laid |-> laid0]
           Round == [i \in 1..n |-> [acc \in S |-> Visit(spans, acc)]]
           Body(k) == [U \in SUBSET DOMAIN (spans \o spans) |->
                         IF U = {} THEN [left |-> Rows(list, 0), laid |-> laid0]
                         ELSE LET x == Max(U) IN Visit(spans, k[U \ {x}])]
           iter == CHOOSE k : k = Body(k)
<1>1. n \in Nat /\ DOMAIN (spans \o spans) = 1..n /\ start \in S
  <2>1. spans \o spans \in Seq(Valid)
    BY ConcatProperties
  <2>2. start \in S
    BY RowsAre DEF WalkState
  <2> QED
    BY <2>1, <2>2
<1>2. Round \in [1..n -> [S -> S]]
  <2>1. \A acc \in S : Visit(spans, acc) \in S
    BY VisitIs
  <2> QED
    BY <2>1
<1>3. PICK g \in [SUBSET (1..n) -> S] : Folds(g, n, start, Round)
  <2> HIDE DEF n, S, start, Round
  <2> QED
    BY <1>1, <1>2, FoldIsDefined
<1>4. g = Body(g)
  <2>1. ASSUME NEW U \in SUBSET (1..n), U # {}
        PROVE  Max(U) \in 1..n /\ U \ {Max(U)} \in SUBSET (1..n)
    BY <1>1, <2>1, MaxOfNumbers
  <2>2. ASSUME NEW U \in SUBSET (1..n), U # {} PROVE g[U] = Body(g)[U]
    <3> DEFINE x == Max(U)
               V == U \ {x}
    <3>1. x \in 1..n /\ V \in SUBSET (1..n)
      BY <2>1, <2>2
    <3>2. g[U] = Round[x][g[V]] /\ g[V] \in S
      BY <1>3, <2>2, <3>1 DEF Folds
    <3>3. Body(g)[U] = Visit(spans, g[V])
      BY <1>1, <2>2
    <3> HIDE DEF x, V
    <3>4. g[U] = Visit(spans, g[V])
      BY <3>1, <3>2
    <3> QED
      BY <3>3, <3>4, Zenon
  <2>3. g[{}] = Body(g)[{}]
    BY <1>1, <1>3 DEF Folds
  <2>4. \A U \in SUBSET (1..n) : g[U] = Body(g)[U]
    BY <2>2, <2>3
  <2> QED
    BY <1>1, <2>4
<1>5. iter = Body(iter)
  BY <1>4
<1>6. Walks(spans, list, laid0) = iter[1..n]
  BY <1>1 DEF Walks, FoldLeft, MapThenFoldSet
<1> HIDE DEF iter
<1>7. iter[{}] = start
  BY <1>5
<1>8. ASSUME NEW i \in 1..n, iter[1..(i - 1)] \in S PROVE iter[1..i] = Round[i][iter[1..(i - 1)]]
  <2>1. 1..i \in SUBSET DOMAIN (spans \o spans) /\ 1..i # {} /\ Max(1..i) = i /\ (1..i) \ {i} = 1..(i - 1)
    BY <1>1, MaxUpto
  <2>2. iter[1..i] = Body(iter)[1..i]
    BY <1>5, Zenon
  <2>3. Body(iter)[1..i] = Visit(spans, iter[1..(i - 1)])
    BY <2>1
  <2> DEFINE acc == iter[1..(i - 1)]
  <2> HIDE DEF acc
  <2>4. acc \in S /\ Round[i][acc] = Visit(spans, acc)
    BY <1>8 DEF acc
  <2> QED
    BY <2>2, <2>3, <2>4, Zenon DEF acc
<1>9. PICK f : IsLoop(f, S, n, start, Round) /\ f[n] = iter[1..n]
  <2>1. Unfolds(iter, S, n, start, Round)
    BY <1>7, <1>8 DEF Unfolds
  <2> HIDE DEF n, S, start, Round
  <2> QED
    BY <1>1, <1>2, <2>1, FoldLoop
<1>10. f \in [0..n -> S] /\ f[0] = start /\ \A i \in 1..n : f[i] = Round[i][f[i - 1]]
  BY <1>9 DEF IsLoop
<1>11. ASSUME NEW i \in 1..n PROVE f[i] = Visit(spans, f[i - 1])
  <2> DEFINE acc == f[i - 1]
  <2>1. acc \in S /\ f[i] = Round[i][acc]
    <3>1. i - 1 \in 0..n
      BY <1>1
    <3> QED
      BY <1>10, <3>1
  <2> HIDE DEF acc
  <2>2. f[i] = Visit(spans, acc)
    BY <2>1
  <2> QED
    BY <2>2, Zenon DEF acc
<1>12. WalkRounds(f, spans, list, laid0)
  BY <1>10, <1>11 DEF WalkRounds
<1> QED
  BY <1>6, <1>9, <1>10, <1>12

\* The calls of a walk become fewer: Work bounds how many are left.
Waiting(spans, shown) == Places(spans, {s \in ToSet(spans) : HasParent(spans, s) /\ s.parent \notin Seen(shown)})
Work(spans, w) == Len(w.left) + Cardinality(Waiting(spans, w.laid))

\* The places of a list are finitely many.
LEMMA PlacesAreFinite ==
  ASSUME NEW R, NEW seq \in Seq(R), NEW T
  PROVE  IsFiniteSet(Places(seq, T)) /\ Cardinality(Places(seq, T)) \in Nat /\ Cardinality(Places(seq, T)) <= Len(seq)
<1> DEFINE n == Len(seq)
           D == Places(seq, T)
<1>1. n \in Nat /\ D \in SUBSET (1..n)
  BY DEF Places
<1>2. IsFiniteSet(1..n) /\ Cardinality(1..n) = n
  BY <1>1, UptoIsFinite
<1> HIDE DEF D, n
<1>3. IsFiniteSet(D) /\ Cardinality(D) <= Cardinality(1..n)
  BY <1>1, <1>2, FS_Subset
<1>4. Cardinality(D) \in Nat
  BY <1>3, FS_CardinalityType
<1> QED
  BY <1>2, <1>3, <1>4 DEF D, n

\* Taking a span uses up the children that waited for it.
LEMMA KidsWait ==
  ASSUME NEW spans \in Seq(Valid), NEW shown, NEW more, NEW id, id \notin Seen(shown), Seen(more) = Seen(shown) \cup {id}
  PROVE  Cardinality(Waiting(spans, shown)) = Cardinality(Waiting(spans, more)) + Len(Kids(spans, id))
<1> DEFINE T == {s \in ToSet(spans) : HasParent(spans, s) /\ s.parent = id}
           A == Waiting(spans, more)
           B == Places(spans, T)
           C == Waiting(spans, shown)
<1>1. Kids(spans, id) = Only(spans, T)
  BY DEF Kids
<1>2. Len(Only(spans, T)) = Cardinality(Places(spans, T))
  <2> HIDE DEF T
  <2> QED
    BY OnlyIs
<1>3. Len(Kids(spans, id)) = Cardinality(B)
  <2> HIDE DEF T
  <2> QED
    BY <1>1, <1>2
<1>4. \A i \in DOMAIN spans : spans[i] \in ToSet(spans)
  BY DEF ToSet
<1>5. A = {i \in DOMAIN spans : HasParent(spans, spans[i]) /\ spans[i].parent \notin Seen(more)}
  BY <1>4 DEF Waiting, Places
<1>6. B = {i \in DOMAIN spans : HasParent(spans, spans[i]) /\ spans[i].parent = id}
  BY <1>4 DEF Places
<1>7. C = {i \in DOMAIN spans : HasParent(spans, spans[i]) /\ spans[i].parent \notin Seen(shown)}
  BY <1>4 DEF Waiting, Places
<1>8. C = A \cup B
  BY <1>5, <1>6, <1>7
<1>9. A \cap B = {}
  BY <1>5, <1>6
<1>10. IsFiniteSet(A) /\ IsFiniteSet(B) /\ Cardinality(A) \in Nat /\ Cardinality(B) \in Nat
  <2> HIDE DEF T
  <2> QED
    BY PlacesAreFinite DEF Waiting
<1> HIDE DEF A, B, C
<1>11. Cardinality(A \cup B) = Cardinality(A) + Cardinality(B) - Cardinality(A \cap B)
  BY <1>10, FS_Union
<1>12. Cardinality(A \cap B) = 0
  BY <1>9, FS_EmptySet
<1>13. Cardinality(C) = Cardinality(A) + Cardinality(B)
  BY <1>8, <1>10, <1>11, <1>12
<1> QED
  BY <1>3, <1>13 DEF A, C

\* A row added to the layout is seen.
LEMMA SeenAppend ==
  ASSUME NEW R, NEW shown \in Seq(R), NEW row \in R
  PROVE  Seen(Append(shown, row)) = Seen(shown) \cup {row.span.id}
<1> DEFINE p == Len(shown)
           v == Append(shown, row)
<1>1. p \in Nat /\ Len(v) = p + 1 /\ DOMAIN v = 1..(p + 1) /\ DOMAIN shown = 1..p
  OBVIOUS
<1>2. /\ \A i \in 1..p : v[i] = shown[i] /\ i \in 1..(p + 1)
      /\ v[p + 1] = row /\ p + 1 \in 1..(p + 1)
      /\ \A i \in 1..(p + 1) : i \in 1..p \/ i = p + 1
  BY <1>1
<1> HIDE DEF v, p
<1>3. Seen(v) = {v[i].span.id : i \in 1..(p + 1)}
  BY <1>1 DEF Seen, ToSet
<1>4. Seen(shown) = {shown[i].span.id : i \in 1..p}
  BY <1>1 DEF Seen, ToSet
<1>5. Seen(v) = Seen(shown) \cup {row.span.id}
  BY <1>2, <1>3, <1>4
<1> QED
  BY <1>5 DEF v

\* Each visit leaves less work.
LEMMA VisitWorks ==
  ASSUME NEW spans \in Seq(Valid), NEW w \in WalkState(spans)
  PROVE  /\ Work(spans, w) \in Nat /\ Len(w.left) <= Work(spans, w)
         /\ w.left # <<>> => Work(spans, Visit(spans, w)) < Work(spans, w)
<1>1. w.left \in Seq(TreeRow(spans)) /\ w.laid \in Seq(TreeRow(spans))
  BY DEF WalkState
<1>2. Len(w.left) \in Nat /\ Cardinality(Waiting(spans, w.laid)) \in Nat
  BY <1>1, PlacesAreFinite DEF Waiting
<1>3. ASSUME w.left # <<>>
      PROVE  w.left[1] \in TreeRow(spans) /\ Tail(w.left) \in Seq(TreeRow(spans)) /\ Len(Tail(w.left)) = Len(w.left) - 1
  BY <1>1, <1>3
<1>4. CASE Skips(spans, w)
  <2>1. w.left # <<>> /\ Visit(spans, w) = [left |-> Tail(w.left), laid |-> w.laid]
    BY <1>4 DEF Skips
  <2>2. Visit(spans, w).left = Tail(w.left) /\ Visit(spans, w).laid = w.laid
    BY <2>1
  <2> QED
    BY <1>2, <1>3, <2>1, <2>2 DEF Work
<1>5. CASE Takes(spans, w)
  <2> DEFINE top == w.left[1]
             kids == Children(spans, top.span.id)
             front == Rows(kids, top.depth + 1)
             rest == Tail(w.left)
             more == Append(w.laid, top)
             next == front \o rest
  <2>1. w.left # <<>> /\ top.span.id \notin Seen(w.laid) /\ Visit(spans, w) = [left |-> next, laid |-> more]
    BY <1>5 DEF Takes
  <2>2. Visit(spans, w).left = next /\ Visit(spans, w).laid = more
    <3> HIDE DEF next, more
    <3> QED
      BY <2>1
  <2>3. /\ top \in TreeRow(spans) /\ top.depth + 1 \in Nat
        /\ rest \in Seq(TreeRow(spans)) /\ Len(rest) = Len(w.left) - 1
    BY <1>3, <2>1 DEF TreeRow
  <2>4. kids \in Seq(ToSet(spans)) /\ Len(kids) = Len(Kids(spans, top.span.id)) /\ Len(kids) \in Nat
    BY ChildrenAre
  <2>5. Seen(more) = Seen(w.laid) \cup {top.span.id}
    BY <1>1, <2>3, SeenAppend
  <2> HIDE DEF more, kids, rest
  <2>6. front \in Seq(TreeRow(spans)) /\ Len(front) = Len(kids)
    BY <2>3, <2>4, RowsAre
  <2> HIDE DEF front
  <2>7. Len(next) = Len(kids) + (Len(w.left) - 1)
    <3>1. Len(next) = Len(front) + Len(rest)
      BY <2>3, <2>6, ConcatProperties
    <3>2. Len(next) = Len(front) + (Len(w.left) - 1)
      BY <2>3, <3>1
    <3> QED
      BY <2>6, <3>2
  <2> HIDE DEF next
  <2>8. Cardinality(Waiting(spans, w.laid)) = Cardinality(Waiting(spans, more)) + Len(kids)
    BY <2>1, <2>4, <2>5, KidsWait
  <2>9. Cardinality(Waiting(spans, more)) \in Nat
    BY PlacesAreFinite DEF Waiting
  <2>10. Work(spans, Visit(spans, w)) = Len(next) + Cardinality(Waiting(spans, more))
    BY <2>2 DEF Work
  <2>11. Work(spans, w) = Len(w.left) + (Cardinality(Waiting(spans, more)) + Len(kids))
    BY <2>8 DEF Work
  <2>12. Work(spans, w) \in Nat /\ Len(w.left) <= Work(spans, w)
    BY <1>2 DEF Work
  <2>13. Work(spans, Visit(spans, w)) < Work(spans, w)
    <3> DEFINE a == Len(w.left)
               b == Len(kids)
               c == Cardinality(Waiting(spans, more))
    <3>1. a \in Nat /\ b \in Nat /\ c \in Nat
      BY <1>2, <2>4, <2>9
    <3>2. Work(spans, Visit(spans, w)) = (b + (a - 1)) + c /\ Work(spans, w) = a + (c + b)
      BY <2>7, <2>10, <2>11
    <3> HIDE DEF a, b, c
    <3> QED
      BY <3>1, <3>2
  <2> QED
    BY <2>12, <2>13
<1> QED
  BY <1>2, <1>4, <1>5, VisitIs DEF Work

\* The row that a row lies under: all rows after it, up to e, are deeper.
ParentRow(shown, row, j, e) ==
  /\ shown[j].span.id = row.span.parent
  /\ shown[j].depth = row.depth - 1
  /\ \A k \in (j + 1)..e : shown[k].depth > shown[j].depth

\* Rows that are shown out: an id once, and under their parents.
Grown(shown) ==
  /\ \A i, j \in 1..Len(shown) : shown[i].span.id = shown[j].span.id => i = j
  /\ \A i \in 1..Len(shown) : shown[i].depth > 0 => \E j \in 1..(i - 1) : ParentRow(shown, shown[i], j, i - 1)

\* What is left to visit lies under rows that are shown out, the deepest first.
Pending(w) ==
  /\ \A i \in 1..Len(w.left) :
       w.left[i].depth > 0 => \E j \in 1..Len(w.laid) : ParentRow(w.laid, w.left[i], j, Len(w.laid))
  /\ \A i, j \in 1..Len(w.left) : i <= j => w.left[j].depth <= w.left[i].depth

\* What a walk of list has come by, after the rows old.
Reached(w) == Seen(w.laid) \cup Seen(w.left)
Covers(spans, list, old, w) ==
  /\ Len(old) <= Len(w.laid) /\ \A i \in 1..Len(old) : w.laid[i] = old[i]
  /\ \A s \in ToSet(list) : s.id \in Reached(w)
  /\ \A i \in (Len(old) + 1)..Len(w.laid) :
       /\ \A s \in ToSet(Kids(spans, w.laid[i].span.id)) : s.id \in Reached(w)
       /\ w.laid[i].depth = 0 => w.laid[i].span \in ToSet(list)
  /\ \A i \in 1..Len(w.left) : w.left[i].depth = 0 => w.left[i].span \in ToSet(list)

Walking(spans, list, old, w) ==
  /\ w \in WalkState(spans)
  /\ Grown(w.laid)
  /\ Pending(w)
  /\ Covers(spans, list, old, w)

\* What is seen is in some row.
LEMMA SeenAre ==
  ASSUME NEW R, NEW shown \in Seq(R)
  PROVE  /\ Len(shown) \in Nat
         /\ \A i \in 1..Len(shown) : shown[i] \in R /\ shown[i].span.id \in Seen(shown)
         /\ \A x \in Seen(shown) : \E i \in 1..Len(shown) : shown[i].span.id = x
<1>1. Len(shown) \in Nat /\ DOMAIN shown = 1..Len(shown) /\ \A i \in 1..Len(shown) : shown[i] \in R
  OBVIOUS
<1>2. Seen(shown) = {shown[i].span.id : i \in 1..Len(shown)}
  BY <1>1 DEF Seen, ToSet
<1> QED
  BY <1>1, <1>2

\* A skip keeps the invariant of the walk.
LEMMA SkipWalks ==
  ASSUME NEW spans \in Seq(Valid), NEW list, NEW old, Len(old) \in Nat,
         NEW w, Walking(spans, list, old, w), Skips(spans, w)
  PROVE  Walking(spans, list, old, Visit(spans, w))
<1> DEFINE v == Visit(spans, w)
           R == TreeRow(spans)
           n == Len(w.left)
<1>1. w \in WalkState(spans) /\ w.left \in Seq(R) /\ w.laid \in Seq(R)
  BY DEF Walking, WalkState
<1>2. v \in WalkState(spans)
  BY <1>1, VisitIs
<1>3. w.left # <<>> /\ w.left[1].span.id \in Seen(w.laid) /\ v = [left |-> Tail(w.left), laid |-> w.laid]
  BY DEF Skips
<1>4. v.left = Tail(w.left) /\ v.laid = w.laid
  BY <1>3
<1>5. /\ n \in Nat /\ n >= 1 /\ Len(v.left) = n - 1
      /\ \A i \in 1..(n - 1) : v.left[i] = w.left[i + 1] /\ i + 1 \in 1..n /\ i + 1 # 1
  BY <1>1, <1>3, <1>4
<1> HIDE DEF v, R, n
<1>6. Pending(v)
  <2>1. ASSUME NEW i \in 1..(n - 1), v.left[i].depth > 0
        PROVE  \E j \in 1..Len(v.laid) : ParentRow(v.laid, v.left[i], j, Len(v.laid))
    BY <1>4, <1>5, <2>1 DEF Walking, Pending, n
  <2>2. ASSUME NEW i \in 1..(n - 1), NEW j \in 1..(n - 1), i <= j PROVE v.left[j].depth <= v.left[i].depth
    <3>1. i + 1 <= j + 1
      BY <2>2
    <3> QED
      BY <1>5, <3>1 DEF Walking, Pending, n
  <2> QED
    BY <1>5, <2>1, <2>2 DEF Pending
<1>7. Reached(w) \subseteq Reached(v)
  <2>1. ASSUME NEW x \in Seen(w.left) PROVE x \in Reached(v)
    <3>1. PICK i \in 1..n : w.left[i].span.id = x
      BY <1>1, SeenAre DEF n
    <3>2. CASE i = 1
      BY <1>3, <1>4, <3>1, <3>2 DEF Reached
    <3>3. CASE i # 1
      <4>1. i - 1 \in 1..(n - 1) /\ (i - 1) + 1 = i
        BY <1>5, <3>3
      <4>2. v.left[i - 1] = w.left[i]
        BY <1>5, <4>1
      <4>3. v.left[i - 1].span.id \in Seen(v.left)
        BY <1>2, <1>5, <4>1, SeenAre DEF WalkState
      <4> QED
        BY <3>1, <4>2, <4>3 DEF Reached
    <3> QED
      BY <3>2, <3>3
  <2> QED
    BY <1>4, <2>1 DEF Reached
<1>8. Covers(spans, list, old, v)
  <2>1. \A i \in 1..Len(v.left) : v.left[i].depth = 0 => v.left[i].span \in ToSet(list)
    BY <1>5 DEF Walking, Covers, n
  <2> QED
    BY <1>4, <1>7, <2>1 DEF Walking, Covers
<1> QED
  BY <1>2, <1>4, <1>6, <1>8 DEF Walking, v

\* What a row lies under stays when a row follows that is no less deep.
LEMMA StaysUnder ==
  ASSUME NEW R, NEW shown \in Seq(R), NEW more, NEW row, NEW e \in 0..Len(shown), NEW j \in 1..e,
         ParentRow(shown, row, j, e), \A i \in 1..Len(shown) : more[i] = shown[i]
  PROVE  ParentRow(more, row, j, e)
<1>1. Len(shown) \in Nat
  OBVIOUS
<1>2. j \in 1..Len(shown) /\ \A k \in (j + 1)..e : k \in 1..Len(shown)
  BY <1>1
<1> QED
  BY <1>2 DEF ParentRow

\* So does taking a span.
LEMMA TakeWalks ==
  ASSUME NEW spans \in Seq(Valid), NEW list, NEW old, Len(old) \in Nat,
         NEW w, Walking(spans, list, old, w), Takes(spans, w)
  PROVE  Walking(spans, list, old, Visit(spans, w))
<1> DEFINE v == Visit(spans, w)
           R == TreeRow(spans)
           n == Len(w.left)
           p == Len(w.laid)
           top == w.left[1]
           d == top.depth
           list2 == Children(spans, top.span.id)
           kids == Rows(list2, d + 1)
           m == Len(kids)
           rest == Tail(w.left)
<1>1. w \in WalkState(spans) /\ w.left \in Seq(R) /\ w.laid \in Seq(R)
  BY DEF Walking, WalkState
<1>2. v \in WalkState(spans)
  BY <1>1, VisitIs
<1>3. w.left # <<>> /\ top.span.id \notin Seen(w.laid) /\ v = [left |-> kids \o rest, laid |-> Append(w.laid, top)]
  BY DEF Takes
<1>4. v.left = kids \o rest /\ v.laid = Append(w.laid, top)
  <2> DEFINE a == kids \o rest
             b == Append(w.laid, top)
  <2>1. v = [left |-> a, laid |-> b]
    BY <1>3
  <2> HIDE DEF v, a, b
  <2>2. v.left = a /\ v.laid = b
    BY <2>1
  <2> QED
    BY <2>2 DEF v, a, b
<1>5. /\ n \in Nat /\ n >= 1 /\ rest \in Seq(R) /\ Len(rest) = n - 1
      /\ \A i \in 1..(n - 1) : rest[i] = w.left[i + 1]
      /\ top \in R /\ d \in Nat
  <2>1. w.left # <<>>
    BY <1>3
  <2>2. top \in R
    BY <1>1, <2>1
  <2>3. d \in Nat
    BY <2>2 DEF TreeRow
  <2> QED
    BY <1>1, <2>1, <2>2, <2>3
<1>6. /\ p \in Nat /\ Len(v.laid) = p + 1 /\ v.laid[p + 1] = top
      /\ \A i \in 1..p : v.laid[i] = w.laid[i]
  BY <1>1, <1>4
<1>7. /\ list2 \in Seq(ToSet(spans)) /\ Len(list2) \in Nat
      /\ ToSet(list2) = {s \in ToSet(spans) : HasParent(spans, s) /\ s.parent = top.span.id}
      /\ ToSet(list2) = ToSet(Kids(spans, top.span.id))
  <2>1. list2 \in Seq(ToSet(spans)) /\ ToSet(list2) = {s \in ToSet(spans) : HasParent(spans, s) /\ s.parent = top.span.id}
    BY ChildrenAre
  <2>2. ToSet(Kids(spans, top.span.id)) = {s \in ToSet(spans) : HasParent(spans, s) /\ s.parent = top.span.id}
    BY TreeLists
  <2> HIDE DEF list2
  <2> QED
    BY <2>1, <2>2
<1> HIDE DEF list2
<1>8. /\ kids \in Seq(R) /\ m = Len(list2) /\ m \in Nat
      /\ \A i \in 1..m : kids[i] = [span |-> list2[i], depth |-> d + 1] /\ list2[i] \in ToSet(list2)
  <2>1. d + 1 \in Nat
    BY <1>5
  <2>2. /\ kids \in Seq(R) /\ m = Len(list2)
        /\ \A i \in 1..Len(list2) : kids[i] = [span |-> list2[i], depth |-> d + 1]
    <3> HIDE DEF d
    <3> QED
      BY <1>7, <2>1, RowsAre
  <2>3. \A i \in 1..Len(list2) : list2[i] \in ToSet(list2)
    BY <1>7 DEF ToSet
  <2> HIDE DEF kids, m
  <2> QED
    BY <1>7, <2>2, <2>3
<1> HIDE DEF kids, rest, v, m, R
<1>9. /\ Len(v.left) = m + (n - 1)
      /\ \A i \in 1..m : v.left[i] = kids[i]
      /\ \A i \in (m + 1)..(m + (n - 1)) : (i - m) + 1 \in 2..n /\ v.left[i] = w.left[(i - m) + 1]
  <2>1. Len(kids) = m
    BY DEF m
  <2>2. /\ Len(v.left) = m + (n - 1)
        /\ \A i \in 1..(m + (n - 1)) : v.left[i] = IF i <= m THEN kids[i] ELSE rest[i - m]
    <3> DEFINE a == kids \o rest
    <3>1. /\ Len(a) = m + (n - 1)
          /\ \A i \in 1..(m + (n - 1)) : a[i] = IF i <= m THEN kids[i] ELSE rest[i - m]
      <4>1. kids \in Seq(R) /\ rest \in Seq(R) /\ Len(rest) = n - 1
        BY <1>5, <1>8
      <4> HIDE DEF n
      <4>2. /\ Len(a) = Len(kids) + Len(rest)
            /\ \A i \in 1..(Len(kids) + Len(rest)) : a[i] = IF i <= Len(kids) THEN kids[i] ELSE rest[i - Len(kids)]
        BY <4>1, ConcatProperties
      <4> HIDE DEF a
      <4> QED
        BY <2>1, <4>1, <4>2
    <3>2. v.left = a
      BY <1>4
    <3> HIDE DEF a
    <3> QED
      BY <3>1, <3>2
  <2>3. \A i \in 1..m : v.left[i] = kids[i]
    <3> SUFFICES ASSUME NEW i \in 1..m PROVE v.left[i] = kids[i]
      OBVIOUS
    <3>1. i \in 1..(m + (n - 1)) /\ i <= m
      BY <1>5, <1>8
    <3> QED
      BY <2>2, <3>1
  <2>4. ASSUME NEW i \in (m + 1)..(m + (n - 1))
        PROVE  (i - m) + 1 \in 2..n /\ v.left[i] = w.left[(i - m) + 1]
    <3>1. i - m \in 1..(n - 1) /\ i \in 1..(m + (n - 1)) /\ ~ (i <= m) /\ (i - m) + 1 \in 2..n
      BY <1>5, <1>8
    <3> QED
      BY <1>5, <2>2, <3>1
  <2> QED
    BY <2>2, <2>3, <2>4
<1>10. \A i \in 1..m : v.left[i].span \in ToSet(list2) /\ v.left[i].depth = d + 1 /\ v.left[i].span = list2[i]
  <2> SUFFICES ASSUME NEW i \in 1..m
               PROVE  v.left[i].span \in ToSet(list2) /\ v.left[i].depth = d + 1 /\ v.left[i].span = list2[i]
    OBVIOUS
  <2>1. kids[i] = [span |-> list2[i], depth |-> d + 1] /\ list2[i] \in ToSet(list2)
    BY <1>8
  <2>2. kids[i].span = list2[i] /\ kids[i].depth = d + 1
    BY <2>1
  <2>3. v.left[i] = kids[i]
    BY <1>9
  <2> QED
    BY <2>1, <2>2, <2>3
<1> HIDE DEF n, p, top, d
<1>11. 1 \in 1..n /\ w.left[1] = top /\ top.depth = d
  BY <1>5 DEF top, d
<1>12. \A i \in 1..(m + (n - 1)) : i \in 1..m \/ i \in (m + 1)..(m + (n - 1))
  BY <1>5, <1>8
<1>13. \A i \in 1..n : w.left[i] \in R /\ w.left[i].depth \in Nat
  <2>1. \A i \in 1..n : w.left[i] \in R
    BY <1>1 DEF n
  <2> QED
    BY <2>1 DEF R, TreeRow
<1>14. \A i \in 1..p : w.laid[i].depth \in Nat
  <2>1. \A i \in 1..p : w.laid[i] \in R
    BY <1>1 DEF p
  <2> QED
    BY <2>1 DEF R, TreeRow
<1>15. \A i \in 1..(p + 1) : (i \in 1..p /\ v.laid[i] = w.laid[i]) \/ (i = p + 1 /\ v.laid[i] = top)
  BY <1>6
<1>16. \A i \in 1..n : w.left[i].depth <= d
  BY <1>11 DEF Walking, Pending, n
<1>17. Grown(v.laid)
  <2>1. ASSUME NEW i \in 1..(p + 1), NEW j \in 1..(p + 1), v.laid[i].span.id = v.laid[j].span.id PROVE i = j
    <3>1. \A k \in 1..p : w.laid[k].span.id \in Seen(w.laid)
      BY <1>1, SeenAre DEF p
    <3>2. \A k, l \in 1..p : w.laid[k].span.id = w.laid[l].span.id => k = l
      BY DEF Walking, Grown, p
    <3> QED
      BY ZenonT(40), <1>3, <1>15, <2>1, <3>1, <3>2 DEF top
  <2>2. ASSUME NEW i \in 1..(p + 1), v.laid[i].depth > 0
        PROVE  \E j \in 1..(i - 1) : ParentRow(v.laid, v.laid[i], j, i - 1)
    <3>1. CASE i \in 1..p
      <4>1. PICK j \in 1..(i - 1) : ParentRow(w.laid, w.laid[i], j, i - 1)
        BY <1>6, <2>2, <3>1 DEF Walking, Grown, p
      <4>2. i - 1 \in 0..Len(w.laid)
        BY <1>6, <3>1 DEF p
      <4>3. ParentRow(v.laid, w.laid[i], j, i - 1)
        BY <1>1, <1>6, <4>1, <4>2, StaysUnder DEF p
      <4> QED
        BY <1>6, <3>1, <4>3
    <3>2. CASE i = p + 1
      <4>1. v.laid[i] = top /\ i - 1 = p
        BY <1>6, <3>2
      <4>2. PICK j \in 1..p : ParentRow(w.laid, top, j, p)
        BY <1>11, <2>2, <4>1 DEF Walking, Pending, n, p
      <4>3. p \in 0..Len(w.laid)
        BY <1>6 DEF p
      <4>4. ParentRow(v.laid, top, j, p)
        BY <1>1, <1>6, <4>2, <4>3, StaysUnder DEF p
      <4> QED
        BY <4>1, <4>4
    <3> QED
      BY <1>15, <3>1, <3>2
  <2> QED
    BY <1>6, <2>1, <2>2 DEF Grown
<1>18. Pending(v)
  <2>1. ASSUME NEW i \in 1..(m + (n - 1)), v.left[i].depth > 0
        PROVE  \E j \in 1..(p + 1) : ParentRow(v.laid, v.left[i], j, p + 1)
    <3>1. CASE i \in 1..m
      <4>1. v.left[i].span.parent = top.span.id /\ v.left[i].depth = d + 1
        BY <1>7, <1>10, <3>1
      <4>2. v.laid[p + 1].span.id = top.span.id /\ v.laid[p + 1].depth = (d + 1) - 1
        BY <1>5, <1>6, <1>11
      <4>3. \A k \in ((p + 1) + 1)..(p + 1) : FALSE
        BY <1>6
      <4>4. ParentRow(v.laid, v.left[i], p + 1, p + 1)
        BY <4>1, <4>2, <4>3 DEF ParentRow
      <4> QED
        BY <1>6, <4>4
    <3>2. CASE i \in (m + 1)..(m + (n - 1))
      <4> DEFINE l == (i - m) + 1
      <4>1. l \in 1..n /\ v.left[i] = w.left[l]
        BY <1>5, <1>9, <3>2
      <4> HIDE DEF l
      <4>2. PICK j \in 1..p : ParentRow(w.laid, w.left[l], j, p)
        BY <2>1, <4>1 DEF Walking, Pending, n, p
      <4>3. p \in 0..Len(w.laid)
        BY <1>6 DEF p
      <4>4. ParentRow(v.laid, w.left[l], j, p)
        BY <1>1, <1>6, <4>2, <4>3, StaysUnder DEF p
      <4>5. v.laid[p + 1].depth > v.laid[j].depth
        <5>1. v.laid[j].depth = w.left[l].depth - 1
          BY <4>4 DEF ParentRow
        <5>2. w.left[l].depth <= d /\ w.left[l].depth \in Nat /\ v.laid[p + 1].depth = d
          BY <1>6, <1>11, <1>13, <1>16, <4>1
        <5> QED
          BY <1>5, <5>1, <5>2
      <4>6. \A k \in (j + 1)..(p + 1) : k \in (j + 1)..p \/ k = p + 1
        BY <1>6
      <4>7. ParentRow(v.laid, w.left[l], j, p + 1)
        BY <4>4, <4>5, <4>6 DEF ParentRow
      <4>8. j \in 1..(p + 1)
        BY <1>6
      <4> QED
        BY <4>1, <4>7, <4>8
    <3> QED
      BY <1>12, <3>1, <3>2
  <2>2. ASSUME NEW i \in 1..(m + (n - 1)), NEW j \in 1..(m + (n - 1)), i <= j
        PROVE  v.left[j].depth <= v.left[i].depth
    <3>1. CASE j \in 1..m
      <4>1. i \in 1..m
        BY <1>5, <1>8, <2>2, <3>1
      <4> QED
        BY <1>5, <1>10, <3>1, <4>1
    <3>2. CASE j \in (m + 1)..(m + (n - 1))
      <4>1. (j - m) + 1 \in 1..n /\ v.left[j] = w.left[(j - m) + 1]
        BY <1>5, <1>9, <3>2
      <4>2. CASE i \in 1..m
        BY <1>5, <1>10, <1>13, <1>16, <4>1, <4>2
      <4>3. CASE i \in (m + 1)..(m + (n - 1))
        <5>1. (i - m) + 1 \in 1..n /\ v.left[i] = w.left[(i - m) + 1]
          BY <1>5, <1>9, <4>3
        <5>2. (i - m) + 1 <= (j - m) + 1
          BY <1>5, <1>8, <2>2
        <5> QED
          BY <4>1, <5>1, <5>2 DEF Walking, Pending, n
      <4> QED
        BY <1>12, <4>2, <4>3
    <3> QED
      BY <1>12, <3>1, <3>2
  <2> QED
    BY <1>6, <1>9, <2>1, <2>2 DEF Pending
<1>19. Seen(v.laid) = Seen(w.laid) \cup {top.span.id}
  BY <1>1, <1>4, <1>5, SeenAppend
<1>20. \A i \in 1..(m + (n - 1)) : v.left[i].span.id \in Seen(v.left)
  <2>1. v.left \in Seq(R)
    BY <1>2 DEF WalkState, R
  <2> QED
    BY <1>9, <2>1, SeenAre
<1>21. Reached(w) \subseteq Reached(v)
  <2>1. ASSUME NEW x \in Seen(w.left) PROVE x \in Reached(v)
    <3>1. PICK i \in 1..n : w.left[i].span.id = x
      BY <1>1, SeenAre DEF n
    <3>2. CASE i = 1
      BY <1>11, <1>19, <3>1, <3>2 DEF Reached
    <3>3. CASE i # 1
      <4> DEFINE l == m + (i - 1)
      <4>1. l \in (m + 1)..(m + (n - 1)) /\ (l - m) + 1 = i /\ l \in 1..(m + (n - 1))
        BY <1>5, <1>8, <3>3
      <4> HIDE DEF l
      <4>2. v.left[l] = w.left[i]
        BY <1>9, <4>1
      <4> QED
        BY <1>20, <3>1, <4>1, <4>2 DEF Reached
    <3> QED
      BY <3>2, <3>3
  <2> QED
    BY <1>19, <2>1 DEF Reached
<1>22. \A s \in ToSet(Kids(spans, top.span.id)) : s.id \in Reached(v)
  <2> SUFFICES ASSUME NEW s \in ToSet(list2) PROVE s.id \in Reached(v)
    BY <1>7
  <2>1. PICK i \in 1..m : list2[i] = s
    BY <1>7, <1>8 DEF ToSet
  <2>2. v.left[i].span = s
    BY <1>10, <2>1
  <2>3. i \in 1..(m + (n - 1))
    BY <1>5, <1>8
  <2> QED
    BY <1>20, <2>2, <2>3 DEF Reached
<1>23. Covers(spans, list, old, v)
  <2>1. Len(old) <= p /\ \A i \in 1..Len(old) : w.laid[i] = old[i]
    BY DEF Walking, Covers, p
  <2>2. Len(old) <= p + 1 /\ \A i \in 1..Len(old) : v.laid[i] = old[i]
    BY <1>6, <2>1
  <2>3. \A s \in ToSet(list) : s.id \in Reached(v)
    BY <1>21 DEF Walking, Covers
  <2>4. top.depth = 0 => top.span \in ToSet(list)
    BY <1>11 DEF Walking, Covers, n
  <2>5. ASSUME NEW i \in (Len(old) + 1)..(p + 1)
        PROVE  /\ \A s \in ToSet(Kids(spans, v.laid[i].span.id)) : s.id \in Reached(v)
               /\ v.laid[i].depth = 0 => v.laid[i].span \in ToSet(list)
    <3>1. i \in (Len(old) + 1)..p \/ i = p + 1
      BY <1>6
    <3>2. CASE i = p + 1
      BY <1>6, <1>22, <2>4, <3>2
    <3>3. CASE i \in (Len(old) + 1)..p
      <4>1. v.laid[i] = w.laid[i]
        <5>1. i \in 1..p
          BY <3>3
        <5> QED
          BY <1>6, <5>1
      <4>2. /\ \A s \in ToSet(Kids(spans, w.laid[i].span.id)) : s.id \in Reached(w)
            /\ w.laid[i].depth = 0 => w.laid[i].span \in ToSet(list)
        BY <3>3 DEF Walking, Covers, p
      <4> QED
        BY <1>21, <4>1, <4>2
    <3> QED
      BY <3>1, <3>2, <3>3
  <2>6. ASSUME NEW i \in 1..(m + (n - 1)), v.left[i].depth = 0 PROVE v.left[i].span \in ToSet(list)
    <3>1. i \notin 1..m
      BY <1>5, <1>10, <2>6
    <3>2. (i - m) + 1 \in 1..n /\ v.left[i] = w.left[(i - m) + 1]
      BY <1>5, <1>9, <1>12, <3>1
    <3> QED
      BY <2>6, <3>2 DEF Walking, Covers, n
  <2> QED
    BY <1>6, <1>9, <2>2, <2>3, <2>5, <2>6 DEF Covers
<1> QED
  BY <1>2, <1>17, <1>18, <1>23 DEF Walking, v

\* An empty layout.
LEMMA EmptySeen == Seen(<<>>) = {} /\ Grown(<<>>)
<1>1. Len(<<>>) = 0 /\ DOMAIN <<>> = {} /\ 1..0 = {}
  OBVIOUS
<1> QED
  BY <1>1 DEF Seen, ToSet, Grown

\* Every walk comes to an end, with nothing left to visit.
LEMMA WalkIs ==
  ASSUME NEW spans \in Seq(Valid), NEW list \in Seq(ToSet(spans)), Len(list) <= Len(spans),
         NEW old \in Seq(TreeRow(spans)), Grown(old)
  PROVE  \E w : Walking(spans, list, old, w) /\ w.left = <<>> /\ Walk(spans, list, old) = w.laid
<1> DEFINE n == Len(spans)
           N == Len(spans \o spans)
<1>1. PICK f \in [0..N -> WalkState(spans)] : WalkRounds(f, spans, list, old) /\ Walks(spans, list, old) = f[N]
  BY WalkLoop
<1>2. n \in Nat /\ N = n + n /\ N \in Nat /\ Len(list) \in Nat /\ Len(old) \in Nat
  BY ConcatProperties
<1>3. f[0] = [left |-> Rows(list, 0), laid |-> old] /\ \A i \in 1..N : f[i] = Visit(spans, f[i - 1])
  BY <1>1 DEF WalkRounds
<1> HIDE DEF N
<1> DEFINE P == {i \in 0..N : /\ Walking(spans, list, old, f[i])
                              /\ f[i].left = <<>> \/ Work(spans, f[i]) + i <= N}
<1>4. 0 \in P
  <2> DEFINE v == Rows(list, 0)
  <2>1. /\ v \in Seq(TreeRow(spans)) /\ Len(v) = Len(list)
        /\ \A i \in 1..Len(list) : v[i] = [span |-> list[i], depth |-> 0]
    BY RowsAre
  <2>2. \A i \in 1..Len(v) : v[i].span = list[i] /\ v[i].depth = 0 /\ list[i] \in ToSet(list)
    <3>1. \A i \in 1..Len(list) : list[i] \in ToSet(list)
      BY DEF ToSet
    <3> HIDE DEF v
    <3> SUFFICES ASSUME NEW i \in 1..Len(v) PROVE v[i].span = list[i] /\ v[i].depth = 0 /\ list[i] \in ToSet(list)
      OBVIOUS
    <3>2. i \in 1..Len(list) /\ v[i] = [span |-> list[i], depth |-> 0]
      BY <2>1
    <3> QED
      BY <3>1, <3>2
  <2> HIDE DEF v
  <2>3. f[0] \in WalkState(spans) /\ f[0].left = v /\ f[0].laid = old
    BY <1>1, <1>2, <1>3 DEF v
  <2>4. Grown(f[0].laid)
    BY <2>3
  <2>5. Pending(f[0])
    BY <2>2, <2>3 DEF Pending
  <2>6. \A s \in ToSet(list) : s.id \in Reached(f[0])
    <3> SUFFICES ASSUME NEW s \in ToSet(list) PROVE s.id \in Seen(v)
      BY <2>3 DEF Reached
    <3>1. PICK i \in 1..Len(list) : list[i] = s
      BY <1>2 DEF ToSet
    <3>2. v[i].span = s
      BY <2>1, <2>2, <3>1
    <3> QED
      BY <2>1, <3>2, SeenAre
  <2>7. Covers(spans, list, old, f[0])
    <3> DEFINE w == f[0]
    <3>1. w.left = v /\ w.laid = old /\ \A s \in ToSet(list) : s.id \in Reached(w)
      BY <2>3, <2>6
    <3> HIDE DEF w
    <3>2. \A i \in (Len(old) + 1)..Len(w.laid) : FALSE
      BY <1>2, <3>1
    <3>3. \A i \in 1..Len(w.left) : w.left[i].depth = 0 => w.left[i].span \in ToSet(list)
      BY <2>2, <3>1
    <3>4. Len(old) <= Len(w.laid) /\ \A i \in 1..Len(old) : w.laid[i] = old[i]
      BY <1>2, <3>1
    <3>5. Covers(spans, list, old, w)
      BY <3>1, <3>2, <3>3, <3>4 DEF Covers
    <3> QED
      BY <3>5 DEF w
  <2>8. Work(spans, f[0]) + 0 <= N
    <3> DEFINE c == Cardinality(Waiting(spans, old))
    <3>1. c \in Nat /\ c <= n
      BY PlacesAreFinite DEF Waiting
    <3>2. Work(spans, f[0]) = Len(list) + c
      BY <2>1, <2>3 DEF Work
    <3> HIDE DEF c
    <3> QED
      BY <1>2, <3>1, <3>2
  <2> QED
    BY <1>2, <2>3, <2>4, <2>5, <2>7, <2>8 DEF Walking
<1>5. ASSUME NEW i \in 1..N, i - 1 \in P PROVE i \in P
  <2> DEFINE w == f[i - 1]
             v == Visit(spans, w)
  <2>1. f[i] = v /\ i \in 0..N /\ i \in Nat
    BY <1>2, <1>3
  <2>2. Walking(spans, list, old, w) /\ (w.left = <<>> \/ Work(spans, w) + (i - 1) <= N)
    BY <1>5
  <2> HIDE DEF w
  <2>3. w \in WalkState(spans)
    BY <2>2 DEF Walking
  <2>4. CASE w.left = <<>> /\ v = w
    BY <2>1, <2>2, <2>4
  <2>5. CASE Skips(spans, w) \/ Takes(spans, w)
    <3>1. Walking(spans, list, old, v)
      BY <1>2, <2>2, <2>5, SkipWalks, TakeWalks
    <3>2. w.left # <<>>
      BY <2>5 DEF Skips, Takes
    <3>3. v \in WalkState(spans)
      BY <2>3, VisitIs
    <3>4. Work(spans, v) < Work(spans, w) /\ Work(spans, w) \in Nat /\ Work(spans, v) \in Nat
      BY <2>3, <3>2, <3>3, VisitWorks
    <3> HIDE DEF v
    <3>5. Work(spans, v) + i <= N
      BY <1>2, <2>1, <2>2, <3>2, <3>4
    <3> QED
      BY <2>1, <3>1, <3>5
  <2> QED
    BY <2>3, <2>4, <2>5, VisitIs
<1>6. N \in P
  <2> HIDE DEF P
  <2>1. \A i \in 1..N : i - 1 \in P => i \in P
    BY <1>5
  <2>2. \A i \in 0..N : i \in P
    BY <1>2, <1>4, <2>1, Rounds, Zenon
  <2> QED
    BY <1>2, <2>2
<1>7. f[N].left = <<>>
  <2> DEFINE w == f[N]
  <2>1. w \in WalkState(spans) /\ (w.left = <<>> \/ Work(spans, w) + N <= N)
    BY <1>1, <1>2, <1>6
  <2> HIDE DEF w
  <2>2. Work(spans, w) \in Nat /\ Len(w.left) <= Work(spans, w)
    BY <2>1, VisitWorks
  <2>3. w.left \in Seq(TreeRow(spans))
    BY <2>1 DEF WalkState
  <2>4. ASSUME w.left # <<>> PROVE FALSE
    <3>1. Len(w.left) \in Nat \ {0}
      BY <2>3, <2>4, EmptySeq
    <3> QED
      BY <1>2, <2>1, <2>2, <2>4, <3>1
  <2> QED
    BY <2>4 DEF w
<1>8. Walk(spans, list, old) = f[N].laid
  BY <1>1 DEF Walk, Walks
<1> QED
  BY <1>6, <1>7, <1>8

\* The rows under the roots: closed under children, and only roots at the top.
LEMMA TreeIs ==
  ASSUME NEW spans \in Seq(Valid), NEW tree, tree = Walk(spans, Roots(spans), <<>>)
  PROVE  /\ tree \in Seq(TreeRow(spans)) /\ Grown(tree)
         /\ \A s \in ToSet(Roots(spans)) : s.id \in Seen(tree)
         /\ \A i \in 1..Len(tree) :
              /\ \A s \in ToSet(Kids(spans, tree[i].span.id)) : s.id \in Seen(tree)
              /\ tree[i].depth = 0 => tree[i].span \in ToSet(Roots(spans))
<1> DEFINE list == Roots(spans)
<1>1. list \in Seq(ToSet(spans)) /\ Len(list) <= Len(spans)
  <2>1. list \in Seq(Valid) /\ ToSet(list) \subseteq ToSet(spans)
    BY TreeLists
  <2>2. Len(list) <= Len(spans)
    BY OnlyIs DEF Roots
  <2> HIDE DEF list
  <2> QED
    BY <2>1, <2>2, ListOf
<1> DEFINE none == <<>>
<1>2. none \in Seq(TreeRow(spans)) /\ Len(none) = 0 /\ Grown(none) /\ tree = Walk(spans, list, none)
  BY EmptySeq, EmptySeen
<1> HIDE DEF list, none
<1>3. PICK w : Walking(spans, list, none, w) /\ w.left = <<>> /\ tree = w.laid
  BY <1>1, <1>2, WalkIs
<1>4. Reached(w) = Seen(tree)
  BY <1>3, EmptySeen DEF Reached
<1>5. w.laid \in Seq(TreeRow(spans)) /\ Grown(w.laid)
  BY <1>3 DEF Walking, WalkState
<1>6. /\ \A s \in ToSet(list) : s.id \in Seen(tree)
      /\ \A i \in (0 + 1)..Len(tree) :
           /\ \A s \in ToSet(Kids(spans, tree[i].span.id)) : s.id \in Seen(tree)
           /\ tree[i].depth = 0 => tree[i].span \in ToSet(list)
  BY <1>2, <1>3, <1>4 DEF Walking, Covers
<1> QED
  BY <1>3, <1>5, <1>6 DEF list

\* The waterfall: the tree, and below it what no root leads to.
LEMMA LayoutIs ==
  ASSUME NEW spans \in Seq(Valid), NEW tree, tree = Walk(spans, Roots(spans), <<>>),
         NEW out, out = LayoutWaterfall(spans)
  PROVE  /\ out \in Seq(TreeRow(spans)) /\ Grown(out)
         /\ Seen(out) = Known(spans)
         /\ Len(tree) <= Len(out) /\ \A i \in 1..Len(tree) : out[i] = tree[i]
<1> DEFINE T == {s \in ToSet(spans) : s.id \notin Seen(tree)}
           extra == Only(spans, T)
<1>1. tree \in Seq(TreeRow(spans)) /\ Grown(tree)
  BY TreeIs
<1>2. out = Walk(spans, extra, tree)
  BY DEF LayoutWaterfall
<1>3. T \subseteq ToSet(spans)
  OBVIOUS
<1>4. extra \in Seq(ToSet(spans)) /\ Len(extra) <= Len(spans) /\ ToSet(extra) = T
  <2> HIDE DEF T
  <2>1. extra \in Seq(Valid) /\ Len(extra) <= Len(spans) /\ ToSet(extra) = ToSet(spans) \cap T
    BY OnlyIs
  <2>2. ToSet(extra) = T
    BY <1>3, <2>1
  <2> HIDE DEF extra
  <2> QED
    BY <1>3, <2>1, <2>2, ListOf
<1> HIDE DEF extra
<1>5. PICK w : Walking(spans, extra, tree, w) /\ w.left = <<>> /\ out = w.laid
  BY <1>1, <1>2, <1>4, WalkIs
<1>6. Reached(w) = Seen(out)
  BY <1>5, EmptySeen DEF Reached
<1>7. out \in Seq(TreeRow(spans)) /\ Grown(out)
  BY <1>5 DEF Walking, WalkState
<1>8. /\ Len(tree) <= Len(out) /\ \A i \in 1..Len(tree) : out[i] = tree[i]
      /\ \A s \in ToSet(extra) : s.id \in Seen(out)
  BY <1>5, <1>6 DEF Walking, Covers
<1>9. Seen(out) \subseteq Known(spans)
  <2> SUFFICES ASSUME NEW x \in Seen(out) PROVE x \in Known(spans)
    OBVIOUS
  <2>1. PICK i \in 1..Len(out) : out[i].span.id = x
    BY <1>7, SeenAre
  <2>2. out[i] \in TreeRow(spans)
    BY <1>7
  <2> QED
    BY <2>1, <2>2 DEF Known, TreeRow
<1>10. Known(spans) \subseteq Seen(out)
  <2> SUFFICES ASSUME NEW s \in ToSet(spans) PROVE s.id \in Seen(out)
    BY DEF Known
  <2>1. CASE s.id \in Seen(tree)
    <3>1. PICK i \in 1..Len(tree) : tree[i].span.id = s.id
      BY <1>1, <2>1, SeenAre
    <3>2. i \in 1..Len(out) /\ out[i] = tree[i]
      <4>1. Len(tree) \in Nat /\ Len(out) \in Nat
        BY <1>1, <1>7
      <4> QED
        BY <1>8, <4>1
    <3> QED
      BY <1>7, <3>1, <3>2, SeenAre
  <2>2. CASE s.id \notin Seen(tree)
    BY <1>4, <1>8, <2>2
  <2> QED
    BY <2>1, <2>2
<1> QED
  BY <1>7, <1>8, <1>9, <1>10

\* The critical path goes down the tree, one row deeper with every step.
LEMMA PathIsABranch ==
  ASSUME NEW spans \in Seq(Valid), NEW tree, tree = Walk(spans, Roots(spans), <<>>), NEW path, Chain(spans, path),
         path[1] \in ToSet(Roots(spans)), \A s, o \in ToSet(spans) : s.id = o.id => s = o
  PROVE  \A i \in 1..Len(path) : \E j \in 1..Len(tree) : tree[j].span = path[i] /\ tree[j].depth = i - 1
<1> DEFINE n == Len(path)
           p == Len(tree)
           P == {i \in 0..n : i = 0 \/ \E j \in 1..p : tree[j].span = path[i] /\ tree[j].depth = i - 1}
<1>1. /\ tree \in Seq(TreeRow(spans)) /\ Grown(tree)
      /\ \A s \in ToSet(Roots(spans)) : s.id \in Seen(tree)
      /\ \A i \in 1..p : /\ \A s \in ToSet(Kids(spans, tree[i].span.id)) : s.id \in Seen(tree)
                         /\ tree[i].depth = 0 => tree[i].span \in ToSet(Roots(spans))
  BY TreeIs
<1>2. n \in Nat /\ p \in Nat
  BY <1>1 DEF Chain
<1>3. \A i \in 1..p : /\ tree[i] \in TreeRow(spans) /\ tree[i].span \in ToSet(spans) /\ tree[i].depth \in Nat
                      /\ tree[i].span \in Valid
  <2>1. \A i \in 1..p : tree[i] \in TreeRow(spans)
    BY <1>1
  <2>2. \A s \in ToSet(spans) : s \in Valid
    BY DEF ToSet
  <2> QED
    BY <2>1, <2>2 DEF TreeRow
<1> HIDE DEF n, p
<1>4. \A i \in 1..n : path[i] \in ToSet(spans)
  BY DEF Chain, n
<1>5. ASSUME NEW s \in ToSet(spans), s.id \in Seen(tree) PROVE \E j \in 1..p : tree[j].span = s
  <2>1. PICK j \in 1..p : tree[j].span.id = s.id
    BY <1>1, <1>5, SeenAre DEF p
  <2> QED
    BY <1>3, <2>1
<1>6. ToSet(Roots(spans)) = {s \in ToSet(spans) : ~ HasParent(spans, s)}
  BY TreeLists
<1>7. ASSUME NEW j \in 1..p
      PROVE  /\ tree[j].depth = 0 => ~ HasParent(spans, tree[j].span)
             /\ tree[j].depth # 0 => \E k \in 1..p : /\ tree[k].span.id = tree[j].span.parent
                                                      /\ tree[k].depth = tree[j].depth - 1
                                                      /\ HasParent(spans, tree[j].span)
  <2>1. tree[j].depth = 0 => ~ HasParent(spans, tree[j].span)
    BY <1>1, <1>6
  <2>2. ASSUME tree[j].depth # 0
        PROVE  \E k \in 1..p : /\ tree[k].span.id = tree[j].span.parent
                               /\ tree[k].depth = tree[j].depth - 1
                               /\ HasParent(spans, tree[j].span)
    <3>1. tree[j].depth > 0
      BY <1>3, <2>2
    <3>2. PICK k \in 1..(j - 1) : ParentRow(tree, tree[j], k, j - 1)
      BY <1>1, <3>1 DEF Grown, p
    <3>3. k \in 1..p
      BY <1>2
    <3>4. tree[k].span.id = tree[j].span.parent /\ tree[k].depth = tree[j].depth - 1
      BY <3>2 DEF ParentRow
    <3>5. tree[k].span.id # Empty /\ tree[k].span.id \in Known(spans)
      BY <1>3, <3>3, ValidTimes DEF Known
    <3> QED
      BY <3>3, <3>4, <3>5 DEF HasParent
  <2> QED
    BY <2>1, <2>2
<1>8. 0 \in P
  BY <1>2
<1>9. ASSUME NEW i \in 1..n, i - 1 \in P PROVE i \in P
  <2>1. i \in 0..n /\ i \in Nat /\ path[i] \in ToSet(spans)
    BY <1>2, <1>4
  <2>2. CASE i = 1
    <3>1. PICK j \in 1..p : tree[j].span = path[1]
      BY <1>1, <1>5, <2>1, <2>2
    <3>2. ~ HasParent(spans, path[1])
      BY <1>6
    <3>3. tree[j].depth = 0
      BY <1>7, <3>1, <3>2
    <3> QED
      BY <2>1, <2>2, <3>1, <3>3
  <2>3. CASE i # 1
    <3>1. i \in 2..n /\ i - 1 \in 1..n /\ i - 1 # 0
      BY <1>2, <2>3
    <3>2. PICK j \in 1..p : tree[j].span = path[i - 1] /\ tree[j].depth = (i - 1) - 1
      BY <1>9, <3>1
    <3>3. path[i].parent = path[i - 1].id
      BY <3>1 DEF Chain, n
    <3>4. HasParent(spans, path[i])
      <4>1. path[i - 1] \in ToSet(spans)
        BY <1>4, <3>1
      <4>2. path[i - 1] \in Valid
        BY <4>1 DEF ToSet
      <4> QED
        BY <3>3, <4>1, <4>2, ValidTimes DEF HasParent, Known
    <3>5. path[i] \in ToSet(Kids(spans, path[i - 1].id))
      BY <2>1, <3>3, <3>4, TreeLists
    <3>6. PICK l \in 1..p : tree[l].span = path[i]
      BY <1>1, <1>5, <2>1, <3>2, <3>5
    <3>7. PICK k \in 1..p : tree[k].span.id = path[i].parent /\ tree[k].depth = tree[l].depth - 1
      BY <1>7, <3>4, <3>6
    <3>8. k = j
      BY <1>1, <3>2, <3>3, <3>7 DEF Grown, p
    <3>9. tree[l].depth = i - 1
      <4>1. tree[l].depth \in Nat
        BY <1>3
      <4>2. tree[j].depth = tree[l].depth - 1
        BY <3>7, <3>8
      <4> QED
        BY <2>1, <3>2, <4>1, <4>2
    <3> QED
      BY <2>1, <3>6, <3>9
  <2> QED
    BY <2>2, <2>3
<1>10. \A i \in 0..n : i \in P
  <2> HIDE DEF P
  <2>1. \A i \in 1..n : i - 1 \in P => i \in P
    BY <1>9
  <2> QED
    BY <1>2, <1>8, <2>1, Rounds, Zenon
<1>11. \A i \in 1..n : i \in 0..n /\ i # 0
  BY <1>2
<1> QED
  BY <1>10, <1>11 DEF n, p

\* The property of the waterfall follows from the invariant.
LEMMA InvTree == IInv => WaterfallShowsTheTree
<1> SUFFICES ASSUME IInv, page.status = "ok" PROVE WaterfallShowsTheTree
  BY DEF WaterfallShowsTheTree
<1> DEFINE spans == page.spans
           path == page.path
           tree == Walk(spans, Roots(spans), <<>>)
<1>1. /\ spans \in Seq(Valid) /\ Len(spans) >= 1 /\ page = AssembleTrace(spans)
      /\ laid = LayoutWaterfall(spans)
  BY LimitsArePositive DEF IInv, PageIsRead
<1>2. path = CriticalPath(spans)
  BY <1>1 DEF AssembleTrace
<1> HIDE DEF spans, path
<1>3. spans # <<>>
  BY <1>1, EmptySeq
<1>4. Chain(spans, path)
  BY <1>1, <1>2, <1>3, PathIs
<1>5. path \in Seq(Valid) /\ DOMAIN path = 1..Len(path)
  <2>1. path \in Seq(Valid)
    BY <1>4 DEF Chain
  <2> QED
    BY <2>1
<1>6. /\ laid \in Seq(TreeRow(spans)) /\ Grown(laid) /\ Seen(laid) = Known(spans)
      /\ Len(tree) <= Len(laid) /\ \A i \in 1..Len(tree) : laid[i] = tree[i]
  BY <1>1, LayoutIs
<1>7. DOMAIN laid = 1..Len(laid) /\ Len(laid) \in Nat
  BY <1>6
<1>8. \A i, j \in DOMAIN laid : laid[i].span.id = laid[j].span.id => i = j
  BY <1>6, <1>7 DEF Grown
<1>9. ASSUME NEW i \in DOMAIN laid, laid[i].depth > 0
      PROVE  \E j \in 1..(i - 1) : /\ laid[j].span.id = laid[i].span.parent
                                   /\ laid[j].depth = laid[i].depth - 1
                                   /\ \A k \in (j + 1)..(i - 1) : laid[k].depth > laid[j].depth
  BY <1>6, <1>7, <1>9 DEF Grown, ParentRow
<1>10. ASSUME \A s, o \in ToSet(spans) : s.id = o.id => s = o, Roots(spans) # <<>>, NEW i \in DOMAIN path
       PROVE  \E j \in DOMAIN laid : laid[j].span = path[i] /\ laid[j].depth = i - 1
  <2>1. path[1] \in ToSet(Roots(spans))
    <3>1. PICK s \in Valid : First(spans) = <<s>> /\ s \in ToSet(Roots(spans))
      BY <1>1, <1>3, <1>10, FirstIs
    <3> QED
      BY <1>4, <3>1 DEF Chain
  <2>2. PICK j \in 1..Len(tree) : tree[j].span = path[i] /\ tree[j].depth = i - 1
    <3> HIDE DEF tree
    <3>1. \A k \in 1..Len(path) : \E j \in 1..Len(tree) : tree[j].span = path[k] /\ tree[j].depth = k - 1
      BY <1>1, <1>4, <1>10, <2>1, PathIsABranch DEF tree
    <3> QED
      BY <1>5, <3>1
  <2>3. tree \in Seq(TreeRow(spans)) /\ Len(tree) \in Nat
    <3>1. tree \in Seq(TreeRow(spans))
      BY <1>1, TreeIs
    <3> QED
      BY <3>1
  <2> HIDE DEF tree
  <2>4. j \in DOMAIN laid /\ laid[j] = tree[j]
    BY <1>6, <1>7, <2>3
  <2> QED
    BY <2>2, <2>4
<1> QED
  BY <1>6, <1>8, <1>9, <1>10 DEF WaterfallShowsTheTree, spans, path

\* For spans of any number and shape: every id of the trace has one row, cycles
\* and orphans included; a row below the top level lies under its parent's row;
\* and where an id has one version and there is a root the critical path is a
\* branch of the tree from the top.
THEOREM WaterfallIsTheTree == Spec => []WaterfallShowsTheTree
BY InvHolds, InvTree, PTL

-----------------------------------------------------------------------------
(* The bottlenecks *)

\* Max and Min of two numbers.
LEMMA MaxOfTwo ==
  ASSUME NEW x \in Int, NEW y \in Int
  PROVE  Max({x, y}) = (IF x >= y THEN x ELSE y) /\ Min({x, y}) = (IF x <= y THEN x ELSE y)
<1>1. \E z \in {x, y} : \A o \in {x, y} : z >= o
  <2>1. x >= y \/ y >= x
    OBVIOUS
  <2> QED
    BY <2>1
<1>2. \E z \in {x, y} : \A o \in {x, y} : z <= o
  <2>1. x <= y \/ y <= x
    OBVIOUS
  <2> QED
    BY <2>1
<1>3. Max({x, y}) \in {x, y} /\ \A o \in {x, y} : Max({x, y}) >= o
  BY <1>1 DEF Max
<1>4. Min({x, y}) \in {x, y} /\ \A o \in {x, y} : Min({x, y}) <= o
  BY <1>2 DEF Min
<1> QED
  BY <1>3, <1>4

\* The number of moments of an interval.
LEMMA IntervalIs ==
  ASSUME NEW a \in Nat, NEW b \in Nat, a <= b
  PROVE  IsFiniteSet(a..(b - 1)) /\ Cardinality(a..(b - 1)) = b - a
<1>1. b - 1 \in Int /\ a \in Int
  OBVIOUS
<1>2. IsFiniteSet(a..(b - 1)) /\ Cardinality(a..(b - 1)) = IF a > b - 1 THEN 0 ELSE (b - 1) - a + 1
  BY <1>1, FS_Interval
<1> QED
  BY <1>2

\* Intervals, the moments in the first i of them, and the rounds of Merged.
Iv == [a : Nat, b : Nat]
Moments(ivs, i) == {m \in Nat : \E j \in 1..i : ivs[j].a <= m /\ m < ivs[j].b}
MergeRound(acc, iv) ==
  IF iv.a <= acc.end THEN [acc EXCEPT !.end = Max({@, iv.b})]
  ELSE [n |-> acc.n + (acc.end - acc.start), start |-> iv.a, end |-> iv.b]

\* One round of the merge.
LEMMA MergeRoundIs ==
  ASSUME NEW acc \in [n : Int, start : Nat, end : Nat], NEW iv \in Iv
  PROVE  /\ MergeRound(acc, iv) \in [n : Int, start : Nat, end : Nat]
         /\ MergeRound(acc, iv)
            = IF iv.a <= acc.end
              THEN [n |-> acc.n, start |-> acc.start, end |-> IF acc.end >= iv.b THEN acc.end ELSE iv.b]
              ELSE [n |-> acc.n + (acc.end - acc.start), start |-> iv.a, end |-> iv.b]
<1>1. acc.n \in Int /\ acc.start \in Nat /\ acc.end \in Nat /\ iv.a \in Nat /\ iv.b \in Nat
  BY DEF Iv
<1>2. Max({acc.end, iv.b}) = IF acc.end >= iv.b THEN acc.end ELSE iv.b
  BY <1>1, MaxOfTwo
<1>3. [acc EXCEPT !.end = Max({@, iv.b})] = [n |-> acc.n, start |-> acc.start, end |-> Max({acc.end, iv.b})]
  OBVIOUS
<1> QED
  BY <1>1, <1>2, <1>3 DEF MergeRound

MergedRounds(f, ivs) ==
  /\ f[0] = [n |-> 0, start |-> ivs[1].a, end |-> ivs[1].b]
  /\ \A i \in 1..Len(Tail(ivs)) : f[i] = MergeRound(f[i - 1], Tail(ivs)[i])

\* MergedIvs as a loop.
LEMMA MergedLoop ==
  ASSUME NEW ivs \in Seq(Iv), ivs # <<>>
  PROVE  \E f \in [0..Len(Tail(ivs)) -> [n : Int, start : Nat, end : Nat]] :
           MergedRounds(f, ivs) /\ MergedIvs(ivs) = f[Len(Tail(ivs))]
<1> DEFINE n == Len(Tail(ivs))
           S == [n : Int, start : Nat, end : Nat]
           start == [n |-> 0, start |-> ivs[1].a, end |-> ivs[1].b]
           Round == [i \in 1..n |-> [acc \in S |-> MergeRound(acc, Tail(ivs)[i])]]
           Body(k) == [U \in SUBSET DOMAIN Tail(ivs) |->
                         IF U = {} THEN [n |-> 0, start |-> ivs[1].a, end |-> ivs[1].b]
                         ELSE LET x == Max(U) IN MergeRound(k[U \ {x}], Tail(ivs)[x])]
           iter == CHOOSE k : k = Body(k)
<1>1. n \in Nat /\ DOMAIN Tail(ivs) = 1..n /\ start \in S /\ \A i \in 1..n : Tail(ivs)[i] \in Iv
  <2>1. Tail(ivs) \in Seq(Iv) /\ ivs[1] \in Iv
    OBVIOUS
  <2>2. ivs[1].a \in Nat /\ ivs[1].b \in Nat
    BY <2>1 DEF Iv
  <2> QED
    BY <2>1, <2>2
<1>2. Round \in [1..n -> [S -> S]]
  <2>1. \A acc \in S, iv \in Iv : MergeRound(acc, iv) \in S
    BY MergeRoundIs
  <2> QED
    BY <1>1, <2>1
<1>3. PICK g \in [SUBSET (1..n) -> S] : Folds(g, n, start, Round)
  <2> HIDE DEF n, S, start, Round
  <2> QED
    BY <1>1, <1>2, FoldIsDefined
<1>4. g = Body(g)
  <2>1. ASSUME NEW U \in SUBSET (1..n), U # {}
        PROVE  Max(U) \in 1..n /\ U \ {Max(U)} \in SUBSET (1..n)
    BY <1>1, <2>1, MaxOfNumbers
  <2>2. ASSUME NEW U \in SUBSET (1..n), U # {} PROVE g[U] = Body(g)[U]
    <3> DEFINE x == Max(U)
               V == U \ {x}
    <3>1. x \in 1..n /\ V \in SUBSET (1..n)
      BY <2>1, <2>2
    <3>2. g[U] = Round[x][g[V]] /\ g[V] \in S
      BY <1>3, <2>2, <3>1 DEF Folds
    <3>3. Body(g)[U] = MergeRound(g[V], Tail(ivs)[x])
      BY <1>1, <2>2
    <3> HIDE DEF x, V
    <3>4. g[U] = MergeRound(g[V], Tail(ivs)[x])
      BY <3>1, <3>2
    <3> QED
      BY <3>3, <3>4, Zenon
  <2>3. g[{}] = Body(g)[{}]
    BY <1>1, <1>3 DEF Folds
  <2>4. \A U \in SUBSET (1..n) : g[U] = Body(g)[U]
    BY <2>2, <2>3
  <2> QED
    BY <1>1, <2>4
<1>5. iter = Body(iter)
  BY <1>4
<1>6. MergedIvs(ivs) = iter[1..n]
  BY <1>1 DEF MergedIvs, MergeRound, FoldLeft, MapThenFoldSet
<1> HIDE DEF iter
<1>7. iter[{}] = start
  BY <1>5
<1>8. ASSUME NEW i \in 1..n, iter[1..(i - 1)] \in S PROVE iter[1..i] = Round[i][iter[1..(i - 1)]]
  <2>1. 1..i \in SUBSET DOMAIN Tail(ivs) /\ 1..i # {} /\ Max(1..i) = i /\ (1..i) \ {i} = 1..(i - 1)
    BY <1>1, MaxUpto
  <2>2. iter[1..i] = Body(iter)[1..i]
    BY <1>5, Zenon
  <2>3. Body(iter)[1..i] = MergeRound(iter[1..(i - 1)], Tail(ivs)[i])
    BY <2>1
  <2> DEFINE acc == iter[1..(i - 1)]
  <2> HIDE DEF acc
  <2>4. acc \in S /\ Round[i][acc] = MergeRound(acc, Tail(ivs)[i])
    BY <1>8 DEF acc
  <2> QED
    BY <2>2, <2>3, <2>4, Zenon DEF acc
<1>9. PICK f : IsLoop(f, S, n, start, Round) /\ f[n] = iter[1..n]
  <2>1. Unfolds(iter, S, n, start, Round)
    BY <1>7, <1>8 DEF Unfolds
  <2> HIDE DEF n, S, start, Round
  <2> QED
    BY <1>1, <1>2, <2>1, FoldLoop
<1>10. f \in [0..n -> S] /\ f[0] = start /\ \A i \in 1..n : f[i] = Round[i][f[i - 1]]
  BY <1>9 DEF IsLoop
<1>11. ASSUME NEW i \in 1..n PROVE f[i] = MergeRound(f[i - 1], Tail(ivs)[i])
  <2> DEFINE acc == f[i - 1]
  <2>1. acc \in S /\ f[i] = Round[i][acc]
    <3>1. i - 1 \in 0..n
      BY <1>1
    <3> QED
      BY <1>10, <3>1
  <2> HIDE DEF acc
  <2>2. f[i] = MergeRound(acc, Tail(ivs)[i])
    BY <2>1
  <2> QED
    BY <2>2, Zenon DEF acc
<1>12. MergedRounds(f, ivs)
  BY <1>10, <1>11 DEF MergedRounds
<1> QED
  BY <1>6, <1>9, <1>10, <1>12

\* What the rounds keep: the first k intervals make up what is closed, n moments
\* before start, and the moments from start to end.
MergedUpto(acc, ivs, k) ==
  /\ acc.n \in Nat /\ acc.start \in Nat /\ acc.end \in Nat /\ acc.start < acc.end
  /\ \E j \in 1..k : acc.start = ivs[j].a
  /\ IsFiniteSet(Moments(ivs, k))
  /\ acc.start..(acc.end - 1) \subseteq Moments(ivs, k)
  /\ \A m \in Moments(ivs, k) : m < acc.end
  /\ Cardinality({m \in Moments(ivs, k) : m < acc.start}) = acc.n

\* What the merge has counted is the number of moments covered.
LEMMA MergedCard ==
  ASSUME NEW acc, NEW ivs, NEW k, MergedUpto(acc, ivs, k)
  PROVE  Cardinality(Moments(ivs, k)) = acc.n + (acc.end - acc.start)
<1> DEFINE M == Moments(ivs, k)
           A == {m \in M : m < acc.start}
           B == acc.start..(acc.end - 1)
<1>1. /\ acc.n \in Nat /\ acc.start \in Nat /\ acc.end \in Nat /\ acc.start < acc.end
      /\ IsFiniteSet(M) /\ B \subseteq M /\ \A m \in M : m < acc.end
      /\ Cardinality(A) = acc.n
  BY DEF MergedUpto
<1>2. \A m \in M : m \in Nat
  BY DEF Moments
<1> HIDE DEF M
<1>3. M = A \cup B /\ A \cap B = {}
  <2>1. \A m \in M : m \in A \/ m \in B
    BY <1>1, <1>2
  <2>2. \A m \in A : m \notin B
    BY <1>1, <1>2
  <2> QED
    BY <1>1, <2>1, <2>2
<1>4. IsFiniteSet(B) /\ Cardinality(B) = acc.end - acc.start
  BY <1>1, IntervalIs
<1>5. A \in SUBSET M
  OBVIOUS
<1> HIDE DEF A, B
<1>6. IsFiniteSet(A)
  BY <1>1, <1>5, FS_Subset
<1>7. Cardinality(A \cup B) = Cardinality(A) + Cardinality(B) - Cardinality(A \cap B)
  BY <1>4, <1>6, FS_Union
<1>8. Cardinality(A \cap B) = 0
  BY <1>3, FS_EmptySet
<1>9. Cardinality(M) = Cardinality(A) + Cardinality(B) - 0
  BY <1>3, <1>7, <1>8
<1> QED
  BY <1>1, <1>4, <1>9 DEF M

\* One more interval, which begins no earlier than those before it.
LEMMA MergeKeeps ==
  ASSUME NEW ivs \in Seq(Iv), NEW k \in 1..Len(ivs), k + 1 \in 1..Len(ivs),
         ivs[k + 1].a < ivs[k + 1].b, \A j \in 1..k : ivs[j].a <= ivs[k + 1].a,
         NEW acc \in [n : Int, start : Nat, end : Nat], MergedUpto(acc, ivs, k)
  PROVE  MergedUpto(MergeRound(acc, ivs[k + 1]), ivs, k + 1)
<1> DEFINE M == Moments(ivs, k)
           N == Moments(ivs, k + 1)
           a == ivs[k + 1].a
           b == ivs[k + 1].b
           next == MergeRound(acc, ivs[k + 1])
<1>1. k \in Nat /\ k >= 1 /\ ivs[k + 1] \in Iv /\ a \in Nat /\ b \in Nat /\ a < b
  <2>1. ivs[k + 1] \in Iv
    OBVIOUS
  <2> QED
    BY <2>1 DEF Iv
<1>2. /\ acc.n \in Nat /\ acc.start \in Nat /\ acc.end \in Nat /\ acc.start < acc.end
      /\ IsFiniteSet(M) /\ acc.start..(acc.end - 1) \subseteq M /\ \A m \in M : m < acc.end
      /\ Cardinality({m \in M : m < acc.start}) = acc.n
  BY DEF MergedUpto
<1>3. acc.start <= a
  BY DEF MergedUpto
<1>4. next = IF a <= acc.end
             THEN [n |-> acc.n, start |-> acc.start, end |-> IF acc.end >= b THEN acc.end ELSE b]
             ELSE [n |-> acc.n + (acc.end - acc.start), start |-> a, end |-> b]
  BY <1>1, MergeRoundIs
<1>5. N = M \cup (a..(b - 1))
  <2>1. \A j \in 1..(k + 1) : j \in 1..k \/ j = k + 1
    BY <1>1
  <2>2. \A j \in 1..k : j \in 1..(k + 1)
    BY <1>1
  <2>3. k + 1 \in 1..(k + 1)
    BY <1>1
  <2>4. \A m \in Nat : m \in N <=> m \in M \/ (a <= m /\ m < b)
    BY <2>1, <2>2, <2>3 DEF Moments
  <2>5. N \subseteq Nat /\ M \subseteq Nat
    BY DEF Moments
  <2> HIDE DEF N, M, a, b
  <2>6. \A m : m \in a..(b - 1) <=> m \in Nat /\ a <= m /\ m < b
    BY <1>1
  <2> QED
    BY <2>4, <2>5, <2>6
<1>6. IsFiniteSet(a..(b - 1))
  <2> HIDE DEF a, b
  <2> QED
    BY <1>1, IntervalIs
<1>7. \A m \in M : m \in Nat
  BY DEF Moments
<1>8. Cardinality(M) = acc.n + (acc.end - acc.start)
  BY MergedCard
<1>9. \E j \in 1..k : acc.start = ivs[j].a
  BY DEF MergedUpto
<1> HIDE DEF M, N, a, b, next
<1>10. IsFiniteSet(N)
  BY <1>2, <1>5, <1>6, FS_Union
<1>11. CASE a <= acc.end
  <2> DEFINE e == IF acc.end >= b THEN acc.end ELSE b
  <2>1. next.n = acc.n /\ next.start = acc.start /\ next.end = e
    BY <1>4, <1>11
  <2>2. e \in Nat /\ acc.start < e /\ acc.end <= e /\ b <= e /\ (e = acc.end \/ e = b)
    BY <1>1, <1>2
  <2> HIDE DEF e
  <2>3. \A m \in acc.start..(e - 1) : m \in N
    <3> SUFFICES ASSUME NEW m \in acc.start..(e - 1) PROVE m \in N
      OBVIOUS
    <3>1. m \in acc.start..(acc.end - 1) \/ m \in a..(b - 1)
      BY <1>1, <1>2, <1>11, <2>2
    <3> QED
      BY <1>2, <1>5, <3>1
  <2>4. \A m \in N : m < e
    BY <1>1, <1>2, <1>5, <1>7, <2>2
  <2>5. {m \in N : m < acc.start} = {m \in M : m < acc.start}
    BY <1>1, <1>2, <1>3, <1>5
  <2>6. \E j \in 1..(k + 1) : acc.start = ivs[j].a
    BY <1>1, <1>9
  <2>7. MergedUpto(next, ivs, k + 1)
    BY <1>2, <1>10, <2>1, <2>2, <2>3, <2>4, <2>5, <2>6 DEF MergedUpto, N, M
  <2> QED
    BY <2>7 DEF next
<1>12. CASE ~ (a <= acc.end)
  <2>1. next.n = acc.n + (acc.end - acc.start) /\ next.start = a /\ next.end = b
    BY <1>4, <1>12
  <2>2. acc.end < a
    BY <1>1, <1>2, <1>12
  <2>3. \A m \in N : m < b
    BY <1>1, <1>2, <1>5, <1>7, <2>2
  <2>4. {m \in N : m < a} = M
    <3>1. \A m \in M : m < a
      BY <1>1, <1>2, <1>7, <2>2
    <3>2. \A m \in a..(b - 1) : ~ (m < a)
      BY <1>1
    <3> QED
      BY <1>5, <3>1, <3>2
  <2>5. \E j \in 1..(k + 1) : a = ivs[j].a
    BY <1>1 DEF a
  <2>6. next.n \in Nat
    BY <1>2, <2>1
  <2>7. a..(b - 1) \subseteq N
    BY <1>5
  <2>8. MergedUpto(next, ivs, k + 1)
    BY <1>1, <1>8, <1>10, <2>1, <2>3, <2>4, <2>5, <2>6, <2>7 DEF MergedUpto, N
  <2> QED
    BY <2>8 DEF next
<1> QED
  BY <1>11, <1>12

\* Merging adds up to the number of moments that are in some interval.
LEMMA MergedIs ==
  ASSUME NEW ivs \in Seq(Iv), ivs # <<>>,
         \A i \in 1..Len(ivs) : ivs[i].a < ivs[i].b,
         \A i, j \in 1..Len(ivs) : i < j => ivs[i].a <= ivs[j].a
  PROVE  MergedIvs(ivs).n + (MergedIvs(ivs).end - MergedIvs(ivs).start) = Cardinality(Moments(ivs, Len(ivs)))
<1> DEFINE n == Len(Tail(ivs))
<1>1. PICK f \in [0..n -> [n : Int, start : Nat, end : Nat]] :
           MergedRounds(f, ivs) /\ MergedIvs(ivs) = f[n]
  BY MergedLoop
<1>2. /\ n \in Nat /\ Len(ivs) = n + 1
      /\ \A i \in 1..n : Tail(ivs)[i] = ivs[i + 1]
  BY HeadTailProperties
<1>3. /\ f[0] = [n |-> 0, start |-> ivs[1].a, end |-> ivs[1].b]
      /\ \A i \in 1..n : f[i] = MergeRound(f[i - 1], ivs[i + 1])
  BY <1>1, <1>2 DEF MergedRounds
<1> HIDE DEF n
<1> DEFINE P == {i \in 0..n : MergedUpto(f[i], ivs, i + 1)}
<1>4. 0 \in P
  <2> DEFINE a == ivs[1].a
             b == ivs[1].b
             M == Moments(ivs, 1)
  <2>1. 1 \in 1..Len(ivs) /\ ivs[1] \in Iv
    BY <1>2
  <2>2. a \in Nat /\ b \in Nat /\ a < b
    BY <2>1 DEF Iv
  <2>3. f[0].n = 0 /\ f[0].start = a /\ f[0].end = b
    BY <1>3
  <2>4. 1..1 = {1}
    OBVIOUS
  <2>5. M = {m \in Nat : a <= m /\ m < b}
    BY <2>4 DEF Moments
  <2>6. M = a..(b - 1)
    <3> HIDE DEF M, a, b
    <3> QED
      BY <2>2, <2>5
  <2>7. IsFiniteSet(M)
    BY <2>2, <2>6, IntervalIs
  <2>8. {m \in M : m < a} = {}
    <3> HIDE DEF M, a, b
    <3> QED
      BY <2>2, <2>6
  <2>9. Cardinality({m \in M : m < a}) = 0
    BY <2>8, FS_EmptySet
  <2>10. \E j \in 1..1 : a = ivs[j].a
    BY <2>4
  <2>11. \A m \in M : m < b
    <3> HIDE DEF M, a, b
    <3> QED
      BY <2>2, <2>6
  <2> HIDE DEF a, b
  <2>12. MergedUpto(f[0], ivs, 1)
    BY <2>2, <2>3, <2>6, <2>7, <2>9, <2>10, <2>11 DEF MergedUpto
  <2> QED
    BY <1>2, <2>12
<1>5. ASSUME NEW i \in 1..n, i - 1 \in P PROVE i \in P
  <2>1. /\ i \in Nat /\ i \in 0..n /\ i \in 1..Len(ivs) /\ i + 1 \in 1..Len(ivs) /\ (i - 1) + 1 = i
        /\ i - 1 \in 0..n
    BY <1>2
  <2>2. MergedUpto(f[i - 1], ivs, i)
    BY <1>5, <2>1
  <2>3. \A j \in 1..i : ivs[j].a <= ivs[i + 1].a
    BY <1>2, <2>1
  <2>4. ivs[i + 1].a < ivs[i + 1].b /\ f[i - 1] \in [n : Int, start : Nat, end : Nat]
    BY <2>1
  <2>5. MergedUpto(MergeRound(f[i - 1], ivs[i + 1]), ivs, i + 1)
    BY <2>1, <2>2, <2>3, <2>4, MergeKeeps
  <2> QED
    BY <1>3, <2>1, <2>5
<1>6. n \in P
  <2> HIDE DEF P
  <2>1. \A i \in 1..n : i - 1 \in P => i \in P
    BY <1>5
  <2>2. \A i \in 0..n : i \in P
    BY <1>2, <1>4, <2>1, Rounds, Zenon
  <2> QED
    BY <1>2, <2>2
<1>7. MergedUpto(f[n], ivs, Len(ivs))
  BY <1>2, <1>6
<1>8. Cardinality(Moments(ivs, Len(ivs))) = f[n].n + (f[n].end - f[n].start)
  BY <1>7, MergedCard
<1> QED
  BY <1>1, <1>8 DEF n

\* What covers a span: the children's intervals, cut to its own.
LEMMA ClippedIs ==
  ASSUME NEW parent \in Valid, NEW kids \in Seq(Valid)
  PROVE  /\ Clipped(parent, kids) \in Seq(Iv)
         /\ \A iv \in ToSet(Clipped(parent, kids)) : iv \in Iv /\ iv.a < iv.b
         /\ \A m \in Nat : (\E iv \in ToSet(Clipped(parent, kids)) : iv.a <= m /\ m < iv.b)
                           <=> /\ parent.start <= m /\ m < End(parent)
                               /\ \E o \in ToSet(kids) : o.start <= m /\ m < End(o)
<1> DEFINE n == Len(kids)
           A(o) == Max({o.start, parent.start})
           B(o) == Min({End(o), End(parent)})
           ivs == [i \in DOMAIN kids |-> [a |-> A(kids[i]), b |-> B(kids[i])]]
           T == {iv \in ToSet(ivs) : iv.b > iv.a}
           cut == Only(ivs, T)
<1>1. Clipped(parent, kids) = cut
  BY DEF Clipped
<1>2. n \in Nat /\ DOMAIN kids = 1..n /\ ToSet(kids) = {kids[i] : i \in 1..n} /\ \A i \in 1..n : kids[i] \in Valid
  BY DEF ToSet
<1>3. parent.start \in Nat /\ End(parent) \in Nat
  BY ValidTimes
<1>4. ASSUME NEW o \in Valid
      PROVE  /\ A(o) \in Nat /\ B(o) \in Nat /\ o.start \in Nat /\ End(o) \in Nat
             /\ \A m \in Nat : (A(o) <= m /\ m < B(o))
                               <=> parent.start <= m /\ m < End(parent) /\ o.start <= m /\ m < End(o)
  <2>1. o.start \in Nat /\ End(o) \in Nat
    BY ValidTimes
  <2>2. /\ A(o) = IF o.start >= parent.start THEN o.start ELSE parent.start
        /\ B(o) = IF End(o) <= End(parent) THEN End(o) ELSE End(parent)
    <3>1. \A x, y \in Int : /\ Max({x, y}) = IF x >= y THEN x ELSE y
                            /\ Min({x, y}) = IF x <= y THEN x ELSE y
      BY MaxOfTwo
    <3>2. o.start \in Int /\ parent.start \in Int /\ End(o) \in Int /\ End(parent) \in Int
      BY <1>3, <2>1
    <3>3. Max({o.start, parent.start}) = IF o.start >= parent.start THEN o.start ELSE parent.start
      BY <3>1, <3>2, Zenon
    <3>4. Min({End(o), End(parent)}) = IF End(o) <= End(parent) THEN End(o) ELSE End(parent)
      BY <3>1, <3>2, Zenon
    <3> QED
      BY <3>3, <3>4, Zenon
  <2> HIDE DEF A, B
  <2> QED
    BY <1>3, <2>1, <2>2
<1> HIDE DEF A, B
<1>5. \A i \in 1..n : [a |-> A(kids[i]), b |-> B(kids[i])] \in Iv
  BY <1>2, <1>4 DEF Iv
<1>6. ivs \in Seq(Iv) /\ Len(ivs) = n /\ \A i \in 1..n : ivs[i] = [a |-> A(kids[i]), b |-> B(kids[i])]
  <2>1. ivs \in [1..n -> Iv] /\ \A i \in 1..n : ivs[i] = [a |-> A(kids[i]), b |-> B(kids[i])]
    BY <1>2, <1>5
  <2> HIDE DEF ivs
  <2> QED
    BY <1>2, <2>1
<1> HIDE DEF ivs
<1>7. ToSet(ivs) = {ivs[i] : i \in 1..n}
  BY <1>6 DEF ToSet
<1>8. cut \in Seq(Iv) /\ ToSet(cut) = ToSet(ivs) \cap T
  <2> HIDE DEF T
  <2> QED
    BY <1>6, OnlyIs
<1>9. ToSet(cut) = T
  <2>1. T \subseteq ToSet(ivs)
    OBVIOUS
  <2> HIDE DEF T, cut
  <2> QED
    BY <1>8, <2>1
<1> HIDE DEF cut
<1>10. \A iv \in ToSet(cut) : iv \in Iv /\ iv.a < iv.b
  <2> SUFFICES ASSUME NEW iv \in ToSet(ivs), iv.b > iv.a PROVE iv \in Iv /\ iv.a < iv.b
    BY <1>9
  <2>1. iv \in Iv
    BY <1>5, <1>6, <1>7
  <2> QED
    BY <2>1 DEF Iv
<1>11. ASSUME NEW m \in Nat
       PROVE  (\E iv \in ToSet(cut) : iv.a <= m /\ m < iv.b)
              <=> /\ parent.start <= m /\ m < End(parent)
                  /\ \E o \in ToSet(kids) : o.start <= m /\ m < End(o)
  <2>1. ASSUME NEW iv \in ToSet(cut), iv.a <= m, m < iv.b
        PROVE  /\ parent.start <= m /\ m < End(parent)
               /\ \E o \in ToSet(kids) : o.start <= m /\ m < End(o)
    <3>1. PICK i \in 1..n : iv = [a |-> A(kids[i]), b |-> B(kids[i])]
      BY <1>6, <1>7, <1>9
    <3>2. iv.a = A(kids[i]) /\ iv.b = B(kids[i]) /\ kids[i] \in Valid /\ kids[i] \in ToSet(kids)
      BY <1>2, <3>1
    <3> QED
      BY <1>4, <2>1, <3>2
  <2>2. ASSUME parent.start <= m, m < End(parent), NEW o \in ToSet(kids), o.start <= m, m < End(o)
        PROVE  \E iv \in ToSet(cut) : iv.a <= m /\ m < iv.b
    <3>1. PICK i \in 1..n : o = kids[i]
      BY <1>2
    <3>2. o \in Valid
      BY <1>2, <3>1
    <3>3. A(o) <= m /\ m < B(o) /\ A(o) \in Nat /\ B(o) \in Nat
      BY <1>4, <2>2, <3>2
    <3>4. ivs[i].a = A(o) /\ ivs[i].b = B(o) /\ ivs[i] \in ToSet(ivs)
      <4>1. ivs[i] = [a |-> A(o), b |-> B(o)]
        BY <1>6, <3>1
      <4>2. ivs[i].a = A(o) /\ ivs[i].b = B(o)
        BY <4>1
      <4> QED
        BY <1>7, <4>2
    <3>5. ivs[i].b > ivs[i].a
      BY <3>3, <3>4
    <3> QED
      BY <1>9, <3>3, <3>4, <3>5
  <2> QED
    BY <2>1, <2>2
<1> QED
  BY <1>1, <1>8, <1>10, <1>11

\* The moments of a span in which a child is at work.
Covered(parent, kids) ==
  {m \in parent.start..(End(parent) - 1) : \E o \in ToSet(kids) : o.start <= m /\ m < End(o)}

\* CoverNs is the number of moments of the parent which some child covers.
LEMMA CoverIs ==
  ASSUME NEW parent \in Valid, NEW kids \in Seq(Valid)
  PROVE  CoverNs(parent, kids) = Cardinality(Covered(parent, kids))
<1> DEFINE cut == Clipped(parent, kids)
           R == ToSet(cut)
           E == {vw \in R \X R : vw[1].a < vw[2].a}
           ivs == Sorted(cut, E)
<1>1. CoverNs(parent, kids) = IF ivs = <<>> THEN 0 ELSE MergedIvs(ivs).n + (MergedIvs(ivs).end - MergedIvs(ivs).start)
  BY DEF CoverNs
<1>2. /\ cut \in Seq(Iv) /\ \A iv \in R : iv \in Iv /\ iv.a < iv.b
      /\ \A m \in Nat : (\E iv \in R : iv.a <= m /\ m < iv.b)
                        <=> /\ parent.start <= m /\ m < End(parent)
                            /\ \E o \in ToSet(kids) : o.start <= m /\ m < End(o)
  BY ClippedIs
<1>3. parent.start \in Nat /\ End(parent) \in Nat
  BY ValidTimes
<1>4. cut \in Seq(R)
  <2> HIDE DEF cut
  <2>1. R \subseteq R
    OBVIOUS
  <2> QED
    BY <1>2, <2>1, ListOf
<1> HIDE DEF cut
<1>5. \A x, y \in R : <<x, y>> \in E <=> x.a < y.a
  OBVIOUS
<1>6. \A x \in R : x.a \in Int
  BY <1>2 DEF Iv
<1> HIDE DEF R, E
<1>7. StrictOrder(E, R)
  BY <1>5, <1>6 DEF StrictOrder
<1>8. ivs \in Seq(R) /\ ToSet(ivs) = R
  BY <1>4, SortedIs DEF R
<1>9. InLine(ivs, E)
  BY <1>4, <1>7, SortedInLine
<1> HIDE DEF ivs
<1>10. Len(ivs) \in Nat /\ ToSet(ivs) = {ivs[i] : i \in 1..Len(ivs)} /\ \A i \in 1..Len(ivs) : ivs[i] \in R
  BY <1>8 DEF ToSet
<1>11. ivs \in Seq(Iv)
  <2>1. R \subseteq Iv
    BY <1>2
  <2> QED
    BY <1>8, <2>1, SeqMonotonic
<1>12. Moments(ivs, Len(ivs)) = Covered(parent, kids)
  <2>1. \A m \in Nat : (\E j \in 1..Len(ivs) : ivs[j].a <= m /\ m < ivs[j].b) <=> (\E iv \in R : iv.a <= m /\ m < iv.b)
    BY <1>8, <1>10
  <2>2. Moments(ivs, Len(ivs)) = {m \in Nat : /\ parent.start <= m /\ m < End(parent)
                                              /\ \E o \in ToSet(kids) : o.start <= m /\ m < End(o)}
    BY <1>2, <2>1 DEF Moments
  <2>3. \A m : m \in parent.start..(End(parent) - 1) <=> m \in Nat /\ parent.start <= m /\ m < End(parent)
    BY <1>3
  <2> QED
    BY <2>2, <2>3 DEF Covered
<1>13. CASE ivs = <<>>
  <2>1. Len(ivs) = 0 /\ 1..0 = {}
    BY <1>13
  <2>2. Moments(ivs, Len(ivs)) = {}
    BY <2>1 DEF Moments
  <2>3. Cardinality(Covered(parent, kids)) = 0
    BY <1>12, <2>2, FS_EmptySet
  <2> QED
    BY <1>1, <1>13, <2>3
<1>14. CASE ivs # <<>>
  <2>1. \A i \in 1..Len(ivs) : ivs[i].a < ivs[i].b
    BY <1>2, <1>10
  <2>2. \A i, j \in 1..Len(ivs) : i < j => ivs[i].a <= ivs[j].a
    <3> SUFFICES ASSUME NEW i \in 1..Len(ivs), NEW j \in 1..Len(ivs), i < j PROVE ivs[i].a <= ivs[j].a
      OBVIOUS
    <3>1. <<ivs[j], ivs[i]>> \notin E
      BY <1>9 DEF InLine
    <3> QED
      BY <1>5, <1>6, <1>10, <3>1
  <2>3. MergedIvs(ivs).n + (MergedIvs(ivs).end - MergedIvs(ivs).start) = Cardinality(Moments(ivs, Len(ivs)))
    BY <1>11, <1>14, <2>1, <2>2, MergedIs
  <2> QED
    BY <1>1, <1>12, <1>14, <2>3
<1> QED
  BY <1>13, <1>14

\* The self time of a span is the number of moments in which it works alone.
LEMMA SelfTimeIs ==
  ASSUME NEW spans \in Seq(Valid), NEW s \in ToSet(spans)
  PROVE  SelfTimeNs(s, Kids(spans, s.id)) = Alone(spans, s) /\ Alone(spans, s) \in Nat
<1> DEFINE kids == Kids(spans, s.id)
           W == s.start..(End(s) - 1)
           C == Covered(s, kids)
           A == {m \in W : \A o \in ToSet(spans) : o.parent = s.id => m < o.start \/ m >= End(o)}
<1>1. s \in Valid /\ \A o \in ToSet(spans) : o \in Valid
  BY DEF ToSet
<1>2. kids \in Seq(Valid) /\ ToSet(kids) = {o \in ToSet(spans) : HasParent(spans, o) /\ o.parent = s.id}
  BY TreeLists
<1>3. s.id # Empty /\ s.id \in Known(spans) /\ s.start \in Nat /\ End(s) \in Nat /\ s.start <= End(s)
      /\ s.dur = End(s) - s.start
  BY <1>1, ValidTimes DEF Known
<1>4. ToSet(kids) = {o \in ToSet(spans) : o.parent = s.id}
  BY <1>2, <1>3 DEF HasParent
<1> HIDE DEF kids
<1>5. CoverNs(s, kids) = Cardinality(C)
  BY <1>1, <1>2, CoverIs
<1>6. \A o \in ToSet(spans) : o.start \in Nat /\ End(o) \in Nat
  BY <1>1, ValidTimes
<1>7. \A m \in W : m \in Int
  BY <1>3
<1>8. C \subseteq W /\ A = W \ C
  <2>1. ASSUME NEW m \in W
        PROVE  m \in C <=> \E o \in ToSet(spans) : o.parent = s.id /\ ~ (m < o.start \/ m >= End(o))
    <3>1. m \in C <=> \E o \in ToSet(kids) : o.start <= m /\ m < End(o)
      BY DEF Covered
    <3>2. \A o \in ToSet(spans) : (o.start <= m /\ m < End(o)) <=> ~ (m < o.start \/ m >= End(o))
      BY <1>6, <1>7
    <3> QED
      BY <1>4, <3>1, <3>2
  <2>2. C \subseteq W
    BY DEF Covered
  <2> HIDE DEF C, W
  <2> QED
    BY <2>1, <2>2
<1>9. IsFiniteSet(W) /\ Cardinality(W) = s.dur
  BY <1>3, IntervalIs
<1> HIDE DEF W, C, A
<1>10. W \cap C = C
  BY <1>8
<1>11. Cardinality(W \ C) = Cardinality(W) - Cardinality(W \cap C)
  BY <1>9, FS_Difference
<1>12. /\ IsFiniteSet(C) /\ Cardinality(C) <= Cardinality(W) /\ Cardinality(C) \in Nat
       /\ IsFiniteSet(A) /\ Cardinality(A) \in Nat
  <2>1. C \in SUBSET W /\ A \in SUBSET W
    BY <1>8
  <2> QED
    BY <1>9, <2>1, FS_Subset, FS_CardinalityType
<1>13. Cardinality(A) = s.dur - Cardinality(C)
  BY <1>8, <1>9, <1>10, <1>11
<1>14. s.dur \in Nat
  BY <1>3
<1>15. SelfTimeNs(s, kids) = IF s.dur > Cardinality(C) THEN s.dur - Cardinality(C) ELSE 0
  BY <1>5 DEF SelfTimeNs
<1>16. SelfTimeNs(s, kids) = Cardinality(A)
  BY <1>9, <1>12, <1>13, <1>14, <1>15
<1>17. Alone(spans, s) = Cardinality(A)
  BY DEF Alone, A, W
<1> QED
  BY <1>12, <1>16, <1>17 DEF kids

\* Only keeps every place of an element that is in both sets.
LEMMA OnlyCounts ==
  ASSUME NEW R, NEW seq \in Seq(R), NEW T, NEW U, U \cap ToSet(seq) \subseteq T
  PROVE  Cardinality(Places(Only(seq, T), U)) = Cardinality(Places(seq, U))
<1> DEFINE w == Only(seq, T)
           n == Len(seq)
           m == Len(w)
           A == Places(w, U)
           B == Places(seq, U)
<1>1. w \in Seq(R) /\ m \in Nat /\ n \in Nat /\ DOMAIN seq = 1..n /\ DOMAIN w = 1..m
  BY OnlyPicks
<1>2. PICK at : PickedAt(at, w, seq, T, n)
  BY OnlyPicks
<1> HIDE DEF w, m
<1>3. /\ at \in [1..m -> 1..n]
      /\ \A k, l \in 1..m : k < l => at[k] < at[l]
      /\ \A k \in 1..m : w[k] = seq[at[k]]
      /\ \A j \in 1..n : seq[j] \in T => \E k \in 1..m : at[k] = j
  BY <1>2 DEF PickedAt, m
<1>4. A = {k \in 1..m : w[k] \in U} /\ B = {j \in 1..n : seq[j] \in U}
  BY <1>1 DEF Places
<1> HIDE DEF A, B
<1>5. \A j \in B : seq[j] \in T
  <2>1. \A j \in 1..n : seq[j] \in ToSet(seq)
    BY <1>1 DEF ToSet
  <2> QED
    BY <1>4, <2>1
<1> DEFINE r == [k \in A |-> at[k]]
<1>6. r \in [A -> B]
  BY <1>3, <1>4
<1>7. \A k, l \in A : r[k] = r[l] => k = l
  <2>1. \A k \in 1..m : at[k] \in Int
    BY <1>1, <1>3
  <2>2. \A k, l \in 1..m : at[k] = at[l] => k = l
    BY SMTT(20), <1>1, <1>3, <2>1
  <2> QED
    BY <1>4, <2>2
<1>8. \A j \in B : \E k \in A : r[k] = j
  <2> SUFFICES ASSUME NEW j \in B PROVE \E k \in A : r[k] = j
    OBVIOUS
  <2>1. PICK k \in 1..m : at[k] = j
    BY <1>3, <1>4, <1>5
  <2>2. k \in A
    BY <1>3, <1>4, <2>1
  <2> QED
    BY <2>1, <2>2
<1> HIDE DEF r
<1>9. r \in Bijection(A, B)
  BY <1>6, <1>7, <1>8 DEF Bijection, Injection, Surjection, IsInjective
<1>10. IsFiniteSet(A)
  BY <1>1, PlacesAreFinite DEF A
<1>11. Cardinality(A) = Cardinality(B)
  BY <1>9, <1>10, FS_Bijection DEF ExistsBijection
<1> QED
  BY <1>11 DEF A, B, w

\* An entry of the list of bottlenecks.
Entry == [id : Int, svc : Int, excl : Nat]

\* The list of bottlenecks: the first of all busy spans in the order of their self times.
LEMMA RankIs ==
  ASSUME NEW spans \in Seq(Valid)
  PROVE  \E all \in Seq(Entry), ranked \in Seq(Entry) :
           /\ Len(all) = Len(spans)
           /\ \A i \in 1..Len(spans) : all[i].id = spans[i].id /\ all[i].excl = Alone(spans, spans[i])
           /\ Len(ranked) = Cardinality(Places(all, {b \in Entry : b.excl > 0}))
           /\ \A e \in Nat : Cardinality(Places(ranked, {b \in Entry : b.excl > e}))
                             = Cardinality(Places(all, {b \in Entry : b.excl > e}))
           /\ \A i \in 1..Len(ranked) : ranked[i] \in ToSet(all)
           /\ \A i, j \in 1..Len(ranked) : i < j => ranked[j].excl <= ranked[i].excl
           /\ RankBottlenecks(spans) = SubSeq(ranked, 1, Min({MaxBottlenecks, Len(ranked)}))
<1> DEFINE n == Len(spans)
           all == [i \in DOMAIN spans |->
                     [id |-> spans[i].id, svc |-> spans[i].svc,
                      excl |-> SelfTimeNs(spans[i], Kids(spans, spans[i].id))]]
           T == {b \in ToSet(all) : b.excl > 0}
           busy == Only(all, T)
           Before(b, c) ==
             \/ b.excl > c.excl
             \/ b.excl = c.excl /\ b.svc < c.svc
             \/ b.excl = c.excl /\ b.svc = c.svc /\ b.id < c.id
           R == ToSet(busy)
           E == {bc \in R \X R : Before(bc[1], bc[2])}
           ranked == Sorted(busy, E)
<1>1. RankBottlenecks(spans) = SubSeq(ranked, 1, Min({MaxBottlenecks, Len(ranked)}))
  BY DEF RankBottlenecks
<1>2. n \in Nat /\ DOMAIN spans = 1..n /\ \A i \in 1..n : spans[i] \in Valid /\ spans[i] \in ToSet(spans)
  BY DEF ToSet
<1>3. \A i \in 1..n : /\ spans[i].id \in Int /\ spans[i].svc \in Int
                      /\ SelfTimeNs(spans[i], Kids(spans, spans[i].id)) = Alone(spans, spans[i])
                      /\ Alone(spans, spans[i]) \in Nat
  BY <1>2, ValidTimes, SelfTimeIs
<1>4. all = [i \in 1..n |-> [id |-> spans[i].id, svc |-> spans[i].svc,
                             excl |-> SelfTimeNs(spans[i], Kids(spans, spans[i].id))]]
  BY <1>2
<1> HIDE DEF all
<1>5. \A i \in 1..n : /\ all[i] = [id |-> spans[i].id, svc |-> spans[i].svc, excl |-> Alone(spans, spans[i])]
                      /\ all[i] \in Entry
  <2> SUFFICES ASSUME NEW i \in 1..n
               PROVE  /\ all[i] = [id |-> spans[i].id, svc |-> spans[i].svc, excl |-> Alone(spans, spans[i])]
                      /\ all[i] \in Entry
    OBVIOUS
  <2>1. all[i] = [id |-> spans[i].id, svc |-> spans[i].svc,
                  excl |-> SelfTimeNs(spans[i], Kids(spans, spans[i].id))]
    BY <1>4
  <2>2. all[i] = [id |-> spans[i].id, svc |-> spans[i].svc, excl |-> Alone(spans, spans[i])]
    BY <1>3, <2>1
  <2> QED
    BY <1>3, <2>2 DEF Entry
<1>6. all \in Seq(Entry) /\ Len(all) = n
  <2>1. all \in [1..n -> Entry]
    BY <1>4, <1>5
  <2> QED
    BY <1>2, <2>1
<1>7. \A i \in 1..n : all[i].id = spans[i].id /\ all[i].excl = Alone(spans, spans[i])
  <2> SUFFICES ASSUME NEW i \in 1..n PROVE all[i].id = spans[i].id /\ all[i].excl = Alone(spans, spans[i])
    OBVIOUS
  <2>1. all[i] = [id |-> spans[i].id, svc |-> spans[i].svc, excl |-> Alone(spans, spans[i])]
    BY <1>5
  <2> QED
    BY <2>1
<1>8. \A b \in ToSet(all) : b \in Entry
  BY <1>5, <1>6 DEF ToSet
<1>9. /\ busy \in Seq(Entry) /\ ToSet(busy) = ToSet(all) \cap T
      /\ Len(busy) = Cardinality(Places(all, T))
  <2> HIDE DEF T
  <2> QED
    BY <1>6, OnlyIs
<1>10. T = ToSet(all) \cap {b \in Entry : b.excl > 0}
  BY <1>8
<1>11. Places(all, T) = Places(all, {b \in Entry : b.excl > 0})
  <2>1. \A i \in DOMAIN all : all[i] \in ToSet(all)
    BY DEF ToSet
  <2> HIDE DEF T
  <2> QED
    BY <1>10, <2>1 DEF Places
<1>12. \A e \in Nat : Cardinality(Places(busy, {b \in Entry : b.excl > e})) = Cardinality(Places(all, {b \in Entry : b.excl > e}))
  <2> SUFFICES ASSUME NEW e \in Nat
               PROVE  Cardinality(Places(busy, {b \in Entry : b.excl > e})) = Cardinality(Places(all, {b \in Entry : b.excl > e}))
    OBVIOUS
  <2> DEFINE U == {b \in Entry : b.excl > e}
  <2>1. U \cap ToSet(all) \subseteq T
    <3>1. \A b \in Entry : b.excl > e => b.excl > 0
      BY DEF Entry
    <3> QED
      BY <3>1
  <2> HIDE DEF U, T
  <2>2. Cardinality(Places(busy, U)) = Cardinality(Places(all, U))
    BY <1>6, <2>1, OnlyCounts
  <2> QED
    BY <2>2 DEF U
<1> HIDE DEF busy, T
<1>13. busy \in Seq(R) /\ \A x \in R : x \in Entry /\ x \in ToSet(all)
  <2>1. R \subseteq R
    OBVIOUS
  <2>2. busy \in Seq(R)
    BY <1>9, <2>1, ListOf
  <2> QED
    BY <1>8, <1>9, <2>2
<1>14. \A x \in R : x.id \in Int /\ x.svc \in Int /\ x.excl \in Nat
  BY <1>13 DEF Entry
<1>15. \A x, y \in R : <<x, y>> \in E <=> Before(x, y)
  OBVIOUS
<1> HIDE DEF R, E
<1>16. StrictOrder(E, R)
  <2>1. \A x \in R : <<x, x>> \notin E
    BY <1>14, <1>15
  <2>2. ASSUME NEW x \in R, NEW y \in R, NEW z \in R, <<x, y>> \in E, <<y, z>> \in E PROVE <<x, z>> \in E
    <3>1. Before(x, y) /\ Before(y, z)
      BY <1>15, <2>2
    <3>2. Before(x, z)
      BY <1>14, <3>1
    <3> QED
      BY <1>15, <3>2
  <2> QED
    BY <2>1, <2>2 DEF StrictOrder
<1>17. ranked \in Seq(Entry) /\ Len(ranked) = Len(busy) /\ ToSet(ranked) = R
  BY <1>9, SortedIs DEF R
<1>18. InLine(ranked, E)
  BY <1>13, <1>16, SortedInLine
<1>19. \A e \in Nat : Cardinality(Places(ranked, {b \in Entry : b.excl > e})) = Cardinality(Places(busy, {b \in Entry : b.excl > e}))
  <2> SUFFICES ASSUME NEW e \in Nat
               PROVE  Cardinality(Places(ranked, {b \in Entry : b.excl > e})) = Cardinality(Places(busy, {b \in Entry : b.excl > e}))
    OBVIOUS
  <2> DEFINE U == {b \in Entry : b.excl > e}
  <2> HIDE DEF U
  <2>1. Cardinality(Places(Sorted(busy, E), U)) = Cardinality(Places(busy, U))
    BY <1>9, SortedCounts
  <2> QED
    BY <2>1 DEF U
<1> HIDE DEF ranked
<1>20. \A i \in 1..Len(ranked) : ranked[i] \in R
  BY <1>17 DEF ToSet
<1>21. \A i, j \in 1..Len(ranked) : i < j => ranked[j].excl <= ranked[i].excl
  <2> SUFFICES ASSUME NEW i \in 1..Len(ranked), NEW j \in 1..Len(ranked), i < j
               PROVE  ranked[j].excl <= ranked[i].excl
    OBVIOUS
  <2>1. <<ranked[j], ranked[i]>> \notin E
    BY <1>18 DEF InLine
  <2>2. ~ (ranked[j].excl > ranked[i].excl)
    BY <1>15, <1>20, <2>1
  <2> QED
    BY <1>14, <1>20, <2>2
<1>22. /\ Len(ranked) = Cardinality(Places(all, {b \in Entry : b.excl > 0}))
       /\ \A e \in Nat : Cardinality(Places(ranked, {b \in Entry : b.excl > e}))
                         = Cardinality(Places(all, {b \in Entry : b.excl > e}))
  BY <1>9, <1>11, <1>12, <1>17, <1>19
<1>23. \A i \in 1..Len(ranked) : ranked[i] \in ToSet(all)
  BY <1>13, <1>20
<1> QED
  BY <1>1, <1>6, <1>7, <1>17, <1>21, <1>22, <1>23

\* The property of the bottlenecks follows from the invariant.
LEMMA InvAlone == IInv => BottlenecksWorkAlone
<1> SUFFICES ASSUME IInv, page.status = "ok" PROVE BottlenecksWorkAlone
  BY DEF BottlenecksWorkAlone
<1> DEFINE spans == page.spans
           top == page.bottlenecks
           Busy == {i \in DOMAIN spans : Alone(spans, spans[i]) > 0}
           n == Len(spans)
<1>1. spans \in Seq(Valid) /\ page = AssembleTrace(spans)
  BY DEF IInv, PageIsRead
<1>2. top = RankBottlenecks(spans)
  BY <1>1 DEF AssembleTrace
<1> HIDE DEF spans, top
<1>3. n \in Nat /\ DOMAIN spans = 1..n /\ MaxBottlenecks \in Nat /\ MaxBottlenecks >= 1
  BY <1>1, LimitsArePositive
<1>4. PICK all \in Seq(Entry), ranked \in Seq(Entry) :
        /\ Len(all) = n
        /\ \A i \in 1..n : all[i].id = spans[i].id /\ all[i].excl = Alone(spans, spans[i])
        /\ Len(ranked) = Cardinality(Places(all, {b \in Entry : b.excl > 0}))
        /\ \A e \in Nat : Cardinality(Places(ranked, {b \in Entry : b.excl > e}))
                          = Cardinality(Places(all, {b \in Entry : b.excl > e}))
        /\ \A i \in 1..Len(ranked) : ranked[i] \in ToSet(all)
        /\ \A i, j \in 1..Len(ranked) : i < j => ranked[j].excl <= ranked[i].excl
        /\ RankBottlenecks(spans) = SubSeq(ranked, 1, Min({MaxBottlenecks, Len(ranked)}))
  BY <1>1, RankIs
<1>5. /\ Len(ranked) \in Nat /\ DOMAIN all = 1..n
      /\ \A i \in 1..Len(ranked) : ranked[i] \in Entry
      /\ \A i \in 1..n : all[i] \in Entry
  <2> HIDE DEF n
  <2>1. Len(all) = n /\ all \in Seq(Entry) /\ ranked \in Seq(Entry)
    BY <1>4
  <2> QED
    BY <2>1
<1>6. ASSUME NEW e \in Nat
      PROVE  Places(all, {b \in Entry : b.excl > e}) = {i \in DOMAIN spans : Alone(spans, spans[i]) > e}
  BY <1>3, <1>4, <1>5 DEF Places
<1>7. Len(ranked) = Cardinality(Busy)
  BY <1>4, <1>6
<1> DEFINE K == Min({MaxBottlenecks, Len(ranked)})
<1>8. K = (IF MaxBottlenecks <= Len(ranked) THEN MaxBottlenecks ELSE Len(ranked))
  <2>1. MaxBottlenecks \in Int /\ Len(ranked) \in Int
    BY <1>3, <1>5
  <2> QED
    BY <2>1, MaxOfTwo, Zenon
<1>9. top = SubSeq(ranked, 1, K)
  BY <1>2, <1>4
<1> HIDE DEF K, n
<1>10. K \in Nat /\ K <= MaxBottlenecks /\ K <= Len(ranked)
  BY <1>3, <1>5, <1>8
<1>11. Len(top) = K /\ DOMAIN top = 1..K /\ \A i \in 1..K : top[i] = ranked[i] /\ i \in 1..Len(ranked)
  <2>1. \A i \in 1..K : ranked[i] \in Entry /\ i \in 1..Len(ranked)
    BY <1>5, <1>10
  <2>2. /\ SubSeq(ranked, 1, K) \in Seq(Entry)
        /\ Len(SubSeq(ranked, 1, K)) = IF 1 <= K THEN K - 1 + 1 ELSE 0
        /\ \A i \in 1..(K - 1 + 1) : SubSeq(ranked, 1, K)[i] = ranked[1 + i - 1]
    BY <1>10, <2>1, SubSeqProperties
  <2>3. top \in Seq(Entry) /\ Len(top) = K /\ \A i \in 1..K : top[i] = ranked[i]
    BY <1>9, <1>10, <2>2
  <2> QED
    BY <2>1, <2>3
<1>12. Len(top) = Min({MaxBottlenecks, Cardinality(Busy)})
  BY <1>7, <1>11 DEF K
<1>13. ASSUME NEW i \in DOMAIN top
       PROVE  \E s \in ToSet(spans) : s.id = top[i].id /\ Alone(spans, s) = top[i].excl
  <2>1. top[i] \in ToSet(all)
    BY <1>4, <1>11
  <2>2. PICK j \in 1..n : all[j] = top[i]
    BY <1>5, <2>1 DEF ToSet
  <2>3. spans[j] \in ToSet(spans)
    BY <1>3 DEF ToSet
  <2> QED
    BY <1>4, <2>2, <2>3
<1>14. \A i, j \in DOMAIN top : i < j => top[i].excl >= top[j].excl
  <2> SUFFICES ASSUME NEW i \in 1..K, NEW j \in 1..K, i < j PROVE ranked[i].excl >= ranked[j].excl
    BY <1>11
  <2>1. ranked[j].excl <= ranked[i].excl /\ ranked[i] \in Entry /\ ranked[j] \in Entry
    BY <1>4, <1>5, <1>11
  <2> QED
    BY <2>1 DEF Entry
<1> DEFINE D == {i \in DOMAIN spans : \E j \in DOMAIN top : Alone(spans, spans[i]) > top[j].excl}
<1>15. Cardinality(D) < MaxBottlenecks
  <2>1. CASE K = 0
    <3>1. DOMAIN top = {}
      BY <1>11, <2>1
    <3>2. D = {}
      BY <3>1
    <3>3. Cardinality(D) = 0
      BY <3>2, FS_EmptySet
    <3> QED
      BY <1>3, <3>3
  <2>2. CASE K # 0
    <3> DEFINE e == ranked[K].excl
               U == {b \in Entry : b.excl > e}
    <3>1. K \in 1..K /\ K \in 1..Len(ranked) /\ ranked[K] \in Entry /\ e \in Nat
      <4>1. K \in 1..K /\ K \in 1..Len(ranked)
        BY <1>5, <1>10, <2>2
      <4> QED
        BY <1>5, <4>1 DEF Entry
    <3>2. D = {i \in DOMAIN spans : Alone(spans, spans[i]) > e}
      <4>1. \A j \in DOMAIN top : top[j].excl >= e /\ top[j].excl \in Nat
        <5> SUFFICES ASSUME NEW j \in 1..K PROVE ranked[j].excl >= e /\ ranked[j].excl \in Nat
          BY <1>11
        <5>1. ranked[j] \in Entry /\ j \in 1..Len(ranked) /\ (j < K \/ j = K)
          BY <1>5, <1>10, <1>11
        <5> QED
          BY SMTT(20), <1>4, <3>1, <5>1 DEF Entry
      <4>2. \A i \in DOMAIN spans : Alone(spans, spans[i]) \in Nat
        <5>1. \A i \in DOMAIN spans : all[i] \in Entry /\ all[i].excl = Alone(spans, spans[i])
          BY <1>3, <1>4, <1>5
        <5> QED
          BY <5>1 DEF Entry
      <4>3. K \in DOMAIN top /\ top[K].excl = e
        BY <1>11, <3>1
      <4>4. ASSUME NEW i \in DOMAIN spans
            PROVE  (\E j \in DOMAIN top : Alone(spans, spans[i]) > top[j].excl) <=> Alone(spans, spans[i]) > e
        <5> HIDE DEF e
        <5> QED
          BY <3>1, <4>1, <4>2, <4>3
      <4> HIDE DEF e
      <4> QED
        BY <4>4
    <3>3. Cardinality(D) = Cardinality(Places(ranked, U))
      <4>1. Cardinality(Places(ranked, U)) = Cardinality(Places(all, U))
        BY <1>4, <3>1
      <4>2. Places(all, U) = {i \in DOMAIN spans : Alone(spans, spans[i]) > e}
        BY <1>6, <3>1
      <4> HIDE DEF U, D
      <4> QED
        BY <3>2, <4>1, <4>2
    <3>4. Places(ranked, U) \in SUBSET (1..(K - 1))
      <4> SUFFICES ASSUME NEW k \in 1..Len(ranked), ranked[k].excl > e PROVE k \in 1..(K - 1)
        BY <1>4 DEF Places
      <4>1. ~ (K < k)
        BY <1>4, <1>5, <3>1 DEF Entry
      <4>2. k # K
        BY <3>1
      <4> QED
        BY <1>10, <4>1, <4>2
    <3>5. IsFiniteSet(1..(K - 1)) /\ Cardinality(1..(K - 1)) = K - 1
      <4>1. K - 1 \in Nat
        BY <1>10, <2>2
      <4> QED
        BY <4>1, UptoIsFinite
    <3> HIDE DEF U
    <3>6. Cardinality(Places(ranked, U)) <= K - 1
      BY ZenonT(40), <3>4, <3>5, FS_Subset
    <3>7. Cardinality(Places(ranked, U)) \in Nat
      BY PlacesAreFinite
    <3> HIDE DEF D
    <3> QED
      BY <1>3, <1>10, <3>3, <3>6, <3>7
  <2> QED
    BY <2>1, <2>2
<1> QED
  BY <1>12, <1>13, <1>14, <1>15 DEF BottlenecksWorkAlone, spans, top

\* For spans of any number and shape: a bottleneck's self time counts the moments
\* in which no child of its span is at work, however the children overlap, stick
\* out or are stored twice; the list is in order, as long as it may be, and none
\* that is left out works alone for longer than one that is in it.
THEOREM BottlenecksAreReal == Spec => []BottlenecksWorkAlone
BY InvHolds, InvAlone, PTL

-----------------------------------------------------------------------------
(* Lists with copies *)

\* more is list with copies put in, each of them after what it is a copy of; at
\* says where the elements of list went.
CopiesAt(at, list, more) ==
  /\ at \in [1..Len(list) -> 1..Len(more)]
  /\ \A k, l \in 1..Len(list) : k < l => at[k] < at[l]
  /\ \A k \in 1..Len(list) : more[at[k]] = list[k]
  /\ \A j \in 1..Len(more) : \/ \E k \in 1..Len(list) : at[k] = j
                             \/ \E i \in 1..(j - 1) : more[i] = more[j]

WithCopies(list, more) == \E at : CopiesAt(at, list, more)

\* A list without any copy put in.
LEMMA NoCopies ==
  ASSUME NEW R, NEW list \in Seq(R)
  PROVE  WithCopies(list, list)
<1> DEFINE n == Len(list)
           at == [k \in 1..n |-> k]
<1>1. n \in Nat
  OBVIOUS
<1>2. at \in [1..n -> 1..n] /\ \A k \in 1..n : at[k] = k
  OBVIOUS
<1> HIDE DEF at
<1>3. CopiesAt(at, list, list)
  BY <1>2 DEF CopiesAt
<1> QED
  BY <1>3 DEF WithCopies

\* Copies put in twice.
LEMMA CopiesOfCopies ==
  ASSUME NEW R, NEW a \in Seq(R), NEW b \in Seq(R), NEW c \in Seq(R), WithCopies(a, b), WithCopies(b, c)
  PROVE  WithCopies(a, c)
<1> DEFINE n == Len(a)
           m == Len(b)
           o == Len(c)
<1>1. PICK f : CopiesAt(f, a, b)
  BY DEF WithCopies
<1>2. PICK g : CopiesAt(g, b, c)
  BY DEF WithCopies
<1>3. n \in Nat /\ m \in Nat /\ o \in Nat
  OBVIOUS
<1> DEFINE at == [k \in 1..n |-> g[f[k]]]
<1>4. /\ f \in [1..n -> 1..m] /\ \A k, l \in 1..n : k < l => f[k] < f[l]
      /\ \A k \in 1..n : b[f[k]] = a[k]
      /\ \A j \in 1..m : (\E k \in 1..n : f[k] = j) \/ \E i \in 1..(j - 1) : b[i] = b[j]
  BY <1>1 DEF CopiesAt
<1>5. /\ g \in [1..m -> 1..o] /\ \A k, l \in 1..m : k < l => g[k] < g[l]
      /\ \A k \in 1..m : c[g[k]] = b[k]
      /\ \A j \in 1..o : (\E k \in 1..m : g[k] = j) \/ \E i \in 1..(j - 1) : c[i] = c[j]
  BY <1>2 DEF CopiesAt
<1> HIDE DEF n, m, o
<1>6. at \in [1..n -> 1..o] /\ \A k \in 1..n : at[k] = g[f[k]] /\ f[k] \in 1..m
  BY <1>4, <1>5
<1> HIDE DEF at
<1>7. \A k, l \in 1..n : k < l => at[k] < at[l]
  BY <1>4, <1>5, <1>6
<1>8. \A k \in 1..n : c[at[k]] = a[k]
  BY <1>4, <1>5, <1>6
<1>9. ASSUME NEW j \in 1..o
      PROVE  (\E k \in 1..n : at[k] = j) \/ \E i \in 1..(j - 1) : c[i] = c[j]
  <2>1. CASE \E i \in 1..(j - 1) : c[i] = c[j]
    BY <2>1
  <2>2. ASSUME NEW l \in 1..m, g[l] = j
        PROVE  (\E k \in 1..n : at[k] = j) \/ \E i \in 1..(j - 1) : c[i] = c[j]
    <3>1. CASE \E k \in 1..n : f[k] = l
      BY <1>6, <2>2, <3>1
    <3>2. ASSUME NEW i \in 1..(l - 1), b[i] = b[l]
          PROVE  \E h \in 1..(j - 1) : c[h] = c[j]
      <4>1. i \in 1..m /\ i < l
        BY <1>3
      <4>2. g[i] \in 1..o /\ g[i] < j
        BY <1>5, <2>2, <4>1
      <4>3. g[i] \in 1..(j - 1)
        BY <1>3, <4>2
      <4>4. c[g[i]] = c[j]
        BY <1>5, <2>2, <3>2, <4>1
      <4> QED
        BY <4>3, <4>4
    <3> QED
      BY <1>4, <3>1, <3>2
  <2> QED
    BY <1>5, <2>1, <2>2
<1>10. CopiesAt(at, a, c)
  BY <1>6, <1>7, <1>8, <1>9 DEF CopiesAt, n, o
<1> QED
  BY <1>10 DEF WithCopies

\* What stands in the longer list stands in the shorter one, no later.
LEMMA FirstOfCopies ==
  ASSUME NEW R, NEW list \in Seq(R), NEW more \in Seq(R), NEW at, CopiesAt(at, list, more)
  PROVE  \A j \in 1..Len(more) : \E k \in 1..Len(list) : at[k] <= j /\ list[k] = more[j]
<1> DEFINE n == Len(list)
           m == Len(more)
           Met(j) == \E k \in 1..n : at[k] <= j /\ list[k] = more[j]
           P == {i \in 0..m : \A j \in 1..i : Met(j)}
<1>1. n \in Nat /\ m \in Nat
  OBVIOUS
<1>2. /\ at \in [1..n -> 1..m] /\ \A k \in 1..n : more[at[k]] = list[k]
      /\ \A j \in 1..m : (\E k \in 1..n : at[k] = j) \/ \E i \in 1..(j - 1) : more[i] = more[j]
  BY DEF CopiesAt
<1> HIDE DEF n, m
<1>3. 0 \in P
  BY <1>1
<1>4. ASSUME NEW i \in 1..m, i - 1 \in P PROVE i \in P
  <2>1. i \in 0..m /\ i \in Nat /\ \A j \in 1..i : j = i \/ j \in 1..(i - 1)
    BY <1>1
  <2>2. \A j \in 1..(i - 1) : Met(j)
    BY <1>4
  <2>3. Met(i)
    <3>1. CASE \E k \in 1..n : at[k] = i
      <4>1. PICK k \in 1..n : at[k] = i
        BY <3>1
      <4>2. at[k] <= i /\ list[k] = more[i]
        BY <1>2, <2>1, <4>1
      <4> QED
        BY <4>2
    <3>2. ASSUME NEW h \in 1..(i - 1), more[h] = more[i] PROVE Met(i)
      <4>1. PICK k \in 1..n : at[k] <= h /\ list[k] = more[h]
        BY <2>2
      <4>2. at[k] \in Int /\ h \in Int /\ h < i
        BY <1>1, <1>2, <2>1
      <4>3. at[k] <= i /\ list[k] = more[i]
        BY <2>1, <3>2, <4>1, <4>2
      <4> QED
        BY <4>3
    <3> QED
      BY <1>2, <3>1, <3>2
  <2> HIDE DEF Met
  <2> QED
    BY <2>1, <2>2, <2>3
<1>5. \A i \in 0..m : i \in P
  <2> HIDE DEF P
  <2>1. \A i \in 1..m : i - 1 \in P => i \in P
    BY <1>4
  <2> QED
    BY <1>1, <1>3, <2>1, Rounds, Zenon
<1>6. m \in P
  BY <1>1, <1>5
<1> QED
  BY <1>6 DEF m, n

\* No element is new, and none is lost.
LEMMA SameElements ==
  ASSUME NEW R, NEW list \in Seq(R), NEW more \in Seq(R), WithCopies(list, more)
  PROVE  /\ ToSet(more) = ToSet(list) /\ (more = <<>> <=> list = <<>>)
         /\ Len(list) \in Nat /\ Len(more) \in Nat /\ Len(list) <= Len(more)
<1> DEFINE n == Len(list)
           m == Len(more)
<1>1. PICK at : CopiesAt(at, list, more)
  BY DEF WithCopies
<1>2. \A j \in 1..m : \E k \in 1..n : at[k] <= j /\ list[k] = more[j]
  BY <1>1, FirstOfCopies
<1>3. n \in Nat /\ m \in Nat /\ DOMAIN list = 1..n /\ DOMAIN more = 1..m
  OBVIOUS
<1>4. /\ at \in [1..n -> 1..m] /\ \A k \in 1..n : more[at[k]] = list[k]
      /\ \A k, l \in 1..n : k < l => at[k] < at[l]
  BY <1>1 DEF CopiesAt
<1>5. ToSet(list) = {list[i] : i \in 1..n} /\ ToSet(more) = {more[i] : i \in 1..m}
  BY <1>3 DEF ToSet
<1>6. (list = <<>> <=> n = 0) /\ (more = <<>> <=> m = 0)
  BY EmptySeq
<1> HIDE DEF n, m
<1>7. ToSet(more) = ToSet(list)
  BY <1>2, <1>4, <1>5
<1>8. n = 0 <=> m = 0
  <2>1. n # 0 => 1 \in 1..n
    BY <1>3
  <2>2. m # 0 => 1 \in 1..m
    BY <1>3
  <2>3. n = 0 => ~ (1 \in 1..n)
    BY <1>3
  <2>4. m = 0 => 1..m = {}
    BY <1>3
  <2> QED
    BY <1>2, <1>4, <2>1, <2>2, <2>3, <2>4
<1>9. n <= m
  <2>1. IsFiniteSet(1..n) /\ Cardinality(1..n) = n /\ IsFiniteSet(1..m) /\ Cardinality(1..m) = m
    BY <1>3, UptoIsFinite
  <2>2. ASSUME m < n PROVE FALSE
    <3>0. at \in [1..n -> 1..m]
      BY <1>4
    <3>1. PICK x, y \in 1..n : x # y /\ at[x] = at[y]
      BY <2>1, <2>2, <3>0, FS_PigeonHole
    <3>2. (x < y \/ y < x) /\ at[x] \in Int
      BY <1>3, <1>4, <3>1
    <3> QED
      BY <1>4, <3>1, <3>2
  <2> QED
    BY <1>3, <2>2
<1> QED
  BY <1>3, <1>6, <1>7, <1>8, <1>9 DEF n, m

\* A filter keeps copies with what they are copies of.
LEMMA OnlyWithCopies ==
  ASSUME NEW R, NEW list \in Seq(R), NEW more \in Seq(R), WithCopies(list, more), NEW T
  PROVE  WithCopies(Only(list, T), Only(more, T))
<1> DEFINE n == Len(list)
           m == Len(more)
           v == Only(list, T)
           w == Only(more, T)
           p == Len(v)
           q == Len(w)
<1>1. PICK at : CopiesAt(at, list, more)
  BY DEF WithCopies
<1>2. v \in Seq(R) /\ \E a : PickedAt(a, v, list, T, n)
  BY OnlyPicks
<1>3. w \in Seq(R) /\ \E b : PickedAt(b, w, more, T, m)
  BY OnlyPicks
<1>4. PICK a : PickedAt(a, v, list, T, n)
  BY <1>2
<1>5. PICK b : PickedAt(b, w, more, T, m)
  BY <1>3
<1>6. n \in Nat /\ m \in Nat /\ p \in Nat /\ q \in Nat
  BY <1>2, <1>3
<1>7. /\ at \in [1..n -> 1..m] /\ \A k, l \in 1..n : k < l => at[k] < at[l]
      /\ \A k \in 1..n : more[at[k]] = list[k]
      /\ \A j \in 1..m : (\E k \in 1..n : at[k] = j) \/ \E i \in 1..(j - 1) : more[i] = more[j]
  BY <1>1 DEF CopiesAt
<1>8. /\ a \in [1..p -> 1..n] /\ \A k, l \in 1..p : k < l => a[k] < a[l]
      /\ \A k \in 1..p : v[k] = list[a[k]] /\ v[k] \in T
      /\ \A j \in 1..n : list[j] \in T => \E k \in 1..p : a[k] = j
  BY <1>4 DEF PickedAt
<1>9. /\ b \in [1..q -> 1..m] /\ \A k, l \in 1..q : k < l => b[k] < b[l]
      /\ \A k \in 1..q : w[k] = more[b[k]] /\ w[k] \in T
      /\ \A j \in 1..m : more[j] \in T => \E k \in 1..q : b[k] = j
  BY <1>5 DEF PickedAt
<1> HIDE DEF n, m, p, q, v, w
<1> DEFINE c == [k \in 1..p |-> CHOOSE l \in 1..q : b[l] = at[a[k]]]
<1>10. \A k \in 1..p : \E l \in 1..q : b[l] = at[a[k]]
  <2> SUFFICES ASSUME NEW k \in 1..p PROVE \E l \in 1..q : b[l] = at[a[k]]
    OBVIOUS
  <2>1. a[k] \in 1..n /\ list[a[k]] \in T
    BY <1>8
  <2>2. at[a[k]] \in 1..m /\ more[at[a[k]]] \in T
    BY <1>7, <2>1
  <2> QED
    BY <1>9, <2>2
<1>11. \A k \in 1..p : c[k] \in 1..q /\ b[c[k]] = at[a[k]]
  BY <1>10
<1>12. c \in [1..p -> 1..q]
  BY <1>11
<1> HIDE DEF c
<1>13. \A k, l \in 1..q : b[k] < b[l] => k < l
  <2> SUFFICES ASSUME NEW k \in 1..q, NEW l \in 1..q, b[k] < b[l] PROVE k < l
    OBVIOUS
  <2>1. k \in Int /\ l \in Int /\ b[k] \in Int /\ b[l] \in Int
    BY <1>6, <1>9
  <2>2. CASE l < k
    BY <1>9, <2>1, <2>2
  <2> QED
    BY <2>1, <2>2
<1>14. \A k, l \in 1..p : k < l => c[k] < c[l]
  <2> SUFFICES ASSUME NEW k \in 1..p, NEW l \in 1..p, k < l PROVE c[k] < c[l]
    OBVIOUS
  <2>1. a[k] < a[l] /\ a[k] \in 1..n /\ a[l] \in 1..n
    BY <1>8
  <2>2. b[c[k]] < b[c[l]]
    BY <1>7, <1>11, <2>1
  <2> QED
    BY <1>11, <1>13, <2>2
<1>15. \A k \in 1..p : w[c[k]] = v[k]
  <2> SUFFICES ASSUME NEW k \in 1..p PROVE w[c[k]] = v[k]
    OBVIOUS
  <2>1. a[k] \in 1..n /\ v[k] = list[a[k]]
    BY <1>8
  <2>2. c[k] \in 1..q /\ b[c[k]] = at[a[k]]
    BY <1>11
  <2>3. w[c[k]] = more[b[c[k]]]
    BY <1>9, <2>2
  <2>4. more[at[a[k]]] = list[a[k]]
    BY <1>7, <2>1
  <2> QED
    BY <2>1, <2>2, <2>3, <2>4
<1>16. ASSUME NEW j \in 1..q
       PROVE  (\E k \in 1..p : c[k] = j) \/ \E i \in 1..(j - 1) : w[i] = w[j]
  <2>1. b[j] \in 1..m /\ w[j] = more[b[j]] /\ more[b[j]] \in T
    BY <1>9
  <2>2. ASSUME NEW h \in 1..n, at[h] = b[j] PROVE \E k \in 1..p : c[k] = j
    <3>1. list[h] \in T
      BY <1>7, <2>1, <2>2
    <3>2. PICK k \in 1..p : a[k] = h
      BY <1>8, <3>1
    <3>3. c[k] \in 1..q /\ b[c[k]] = b[j]
      BY <1>11, <2>2, <3>2
    <3>4. c[k] \in Int /\ j \in Int /\ b[j] \in Int
      BY <1>6, <2>1, <3>3
    <3>5. ~ (c[k] < j) /\ ~ (j < c[k])
      BY <1>9, <3>3, <3>4
    <3>6. c[k] = j
      BY <3>4, <3>5
    <3> QED
      BY <3>6
  <2>3. ASSUME NEW h \in 1..(b[j] - 1), more[h] = more[b[j]] PROVE \E i \in 1..(j - 1) : w[i] = w[j]
    <3>1. h \in 1..m /\ h < b[j]
      BY <1>6, <2>1
    <3>2. PICK i \in 1..q : b[i] = h
      BY <1>9, <2>1, <2>3, <3>1
    <3>3. i < j
      BY <1>13, <3>1, <3>2
    <3>4. i \in 1..(j - 1)
      BY <1>6, <3>3
    <3>5. w[i] = w[j]
      BY <1>9, <2>1, <2>3, <3>2
    <3> QED
      BY <3>4, <3>5
  <2> QED
    BY <1>7, <2>1, <2>2, <2>3
<1>17. CopiesAt(c, v, w)
  BY <1>12, <1>14, <1>15, <1>16 DEF CopiesAt, p, q
<1> QED
  BY <1>17 DEF WithCopies, v, w

\* So does what turns equal elements into equal ones.
LEMMA MapWithCopies ==
  ASSUME NEW R, NEW list \in Seq(R), NEW more \in Seq(R), WithCopies(list, more), NEW F, NEW Q,
         NEW v \in Seq(Q), NEW w \in Seq(Q), Len(v) = Len(list), Len(w) = Len(more),
         \A i \in 1..Len(list) : v[i] = F[list[i]],
         \A i \in 1..Len(more) : w[i] = F[more[i]]
  PROVE  WithCopies(v, w)
<1> DEFINE n == Len(list)
           m == Len(more)
<1>1. PICK at : CopiesAt(at, list, more)
  BY DEF WithCopies
<1>2. /\ at \in [1..n -> 1..m] /\ \A k, l \in 1..n : k < l => at[k] < at[l]
      /\ \A k \in 1..n : more[at[k]] = list[k]
      /\ \A j \in 1..m : (\E k \in 1..n : at[k] = j) \/ \E i \in 1..(j - 1) : more[i] = more[j]
  BY <1>1 DEF CopiesAt
<1>3. \A j \in 1..m : \A i \in 1..(j - 1) : i \in 1..m
  BY Len(more) \in Nat
<1>4. /\ Len(v) = n /\ Len(w) = m
      /\ \A i \in 1..n : v[i] = F[list[i]]
      /\ \A i \in 1..m : w[i] = F[more[i]]
  OBVIOUS
<1> HIDE DEF n, m
<1>5. \A k \in 1..n : w[at[k]] = v[k]
  <2> SUFFICES ASSUME NEW k \in 1..n PROVE w[at[k]] = v[k]
    OBVIOUS
  <2>1. at[k] \in 1..m /\ more[at[k]] = list[k]
    BY <1>2
  <2> QED
    BY SMTT(20), <1>4, <2>1
<1>6. \A j \in 1..m : (\E k \in 1..n : at[k] = j) \/ \E i \in 1..(j - 1) : w[i] = w[j]
  <2> SUFFICES ASSUME NEW j \in 1..m, NEW i \in 1..(j - 1), more[i] = more[j] PROVE w[i] = w[j]
    BY <1>2
  <2>1. i \in 1..m
    BY <1>3
  <2> QED
    BY <1>4, <2>1
<1>7. CopiesAt(at, v, w)
  BY <1>2, <1>4, <1>5, <1>6 DEF CopiesAt
<1> QED
  BY <1>7 DEF WithCopies

\* pickLatestEnd takes the first of its candidates, and so never a copy.
LEMMA LatestOfCopies ==
  ASSUME NEW list \in Seq(Valid), NEW more \in Seq(Valid), WithCopies(list, more)
  PROVE  PickLatestEnd(more) = PickLatestEnd(list)
<1> DEFINE n == Len(list)
           m == Len(more)
<1>1. n \in Nat /\ m \in Nat /\ ToSet(more) = ToSet(list) /\ (more = <<>> <=> list = <<>>)
  BY SameElements
<1>2. PICK at : CopiesAt(at, list, more)
  BY DEF WithCopies
<1>3. /\ at \in [1..n -> 1..m] /\ \A k, l \in 1..n : k < l => at[k] < at[l]
      /\ \A k \in 1..n : more[at[k]] = list[k]
  BY <1>2 DEF CopiesAt
<1>4. \A j \in 1..m : \E k \in 1..n : at[k] <= j /\ list[k] = more[j]
  BY <1>2, FirstOfCopies
<1>5. CASE list = <<>>
  BY <1>1, <1>5, LatestIs
<1>6. CASE list # <<>>
  <2>1. PICK k : BestAt(list, n, k) /\ PickLatestEnd(list) = <<list[k]>>
    BY <1>6, LatestIs
  <2>2. PICK l : BestAt(more, m, l) /\ PickLatestEnd(more) = <<more[l]>>
    BY <1>1, <1>6, LatestIs
  <2>3. /\ k \in 1..n /\ \A j \in 1..n : ~ Beats(list[j], list[k])
        /\ \A j \in 1..n : j < k => Beats(list[k], list[j])
    BY <2>1 DEF BestAt
  <2>4. /\ l \in 1..m /\ \A j \in 1..m : ~ Beats(more[j], more[l])
        /\ \A j \in 1..m : j < l => Beats(more[l], more[j])
    BY <2>2 DEF BestAt
  <2> HIDE DEF n, m
  <2>5. at[k] \in 1..m /\ more[at[k]] = list[k]
    BY <1>3, <2>3
  <2>6. CASE at[k] < l
    <3>1. Beats(more[l], list[k])
      BY <2>4, <2>5, <2>6
    <3>2. PICK j \in 1..n : list[j] = more[l]
      BY <1>4, <2>4
    <3> QED
      BY <2>3, <3>1, <3>2
  <2>7. CASE l < at[k]
    <3>1. PICK j \in 1..n : at[j] <= l /\ list[j] = more[l]
      BY <1>4, <2>4
    <3>2. j < k
      <4>1. at[j] \in Int /\ at[k] \in Int /\ l \in Int /\ j \in Int /\ k \in Int
        BY <1>1, <1>3, <2>3, <2>4, <3>1
      <4>2. at[j] < at[k]
        BY <2>7, <3>1, <4>1
      <4>3. CASE k < j
        <5>1. at[k] < at[j]
          BY <1>3, <2>3, <4>3
        <5> QED
          BY <4>1, <4>2, <5>1
      <4>4. k # j
        BY <4>1, <4>2
      <4> QED
        BY <4>1, <4>3, <4>4
    <3>3. Beats(list[k], more[l])
      BY <2>3, <3>1, <3>2
    <3> QED
      BY <2>4, <2>5, <3>3
  <2>8. at[k] \in Int /\ l \in Int
    BY <1>1, <2>4, <2>5
  <2> QED
    BY <2>1, <2>2, <2>5, <2>6, <2>7, <2>8
<1> QED
  BY <1>5, <1>6

\* The tree of a list with copies has the same ids and parents, and copies of its
\* roots and children.
LEMMA TreeOfCopies ==
  ASSUME NEW spans \in Seq(Valid), NEW more \in Seq(Valid), WithCopies(spans, more)
  PROVE  /\ Known(more) = Known(spans)
         /\ \A s : HasParent(more, s) <=> HasParent(spans, s)
         /\ WithCopies(Roots(spans), Roots(more))
         /\ \A id : WithCopies(Kids(spans, id), Kids(more, id))
<1>1. ToSet(more) = ToSet(spans)
  BY SameElements
<1>2. Known(more) = Known(spans)
  BY <1>1 DEF Known
<1>3. \A s : HasParent(more, s) <=> HasParent(spans, s)
  BY <1>2 DEF HasParent
<1>4. WithCopies(Roots(spans), Roots(more))
  <2> DEFINE T == {s \in ToSet(spans) : ~ HasParent(spans, s)}
  <2>1. T = {s \in ToSet(more) : ~ HasParent(more, s)}
    BY <1>1, <1>3
  <2>2. Roots(spans) = Only(spans, T) /\ Roots(more) = Only(more, T)
    BY <2>1 DEF Roots
  <2> HIDE DEF T
  <2> QED
    BY <2>2, OnlyWithCopies
<1>5. ASSUME NEW id PROVE WithCopies(Kids(spans, id), Kids(more, id))
  <2> DEFINE T == {s \in ToSet(spans) : HasParent(spans, s) /\ s.parent = id}
  <2>1. T = {s \in ToSet(more) : HasParent(more, s) /\ s.parent = id}
    BY <1>1, <1>3
  <2>2. Kids(spans, id) = Only(spans, T) /\ Kids(more, id) = Only(more, T)
    BY <2>1 DEF Kids
  <2> HIDE DEF T
  <2> QED
    BY <2>2, OnlyWithCopies
<1> QED
  BY <1>2, <1>3, <1>4, <1>5

\* The critical path of a list with copies is the same.
LEMMA PathOfCopies ==
  ASSUME NEW spans \in Seq(Valid), NEW more \in Seq(Valid), WithCopies(spans, more), spans # <<>>
  PROVE  CriticalPath(more) = CriticalPath(spans)
<1> DEFINE n == Len(spans)
           m == Len(more)
<1>1. n \in Nat /\ m \in Nat /\ n <= m /\ (more = <<>> <=> spans = <<>>)
  BY SameElements
<1>2. Roots(spans) \in Seq(Valid) /\ Roots(more) \in Seq(Valid)
  BY TreeLists
<1>3. \A id : Kids(spans, id) \in Seq(Valid) /\ Kids(more, id) \in Seq(Valid)
  BY TreeLists
<1>4. First(more) = First(spans)
  <2>1. WithCopies(Roots(spans), Roots(more))
    BY TreeOfCopies
  <2>2. Roots(more) = <<>> <=> Roots(spans) = <<>>
    BY <1>2, <2>1, SameElements
  <2> QED
    BY <1>2, <2>1, <2>2, LatestOfCopies DEF First
<1>5. \A path : Follow(more, path) = Follow(spans, path)
  <2>1. \A id : WithCopies(Kids(spans, id), Kids(more, id))
    BY TreeOfCopies
  <2>2. \A id : PickLatestEnd(Kids(more, id)) = PickLatestEnd(Kids(spans, id))
    BY <1>3, <2>1, LatestOfCopies
  <2> QED
    BY <2>2 DEF Follow
<1>6. PICK f \in [0..n -> Seq(Valid)] : PathRounds(f, spans) /\ CriticalPath(spans) = f[n]
  BY CriticalPathLoop
<1>7. PICK g \in [0..m -> Seq(Valid)] : PathRounds(g, more) /\ CriticalPath(more) = g[m]
  BY CriticalPathLoop
<1>8. f[0] = First(spans) /\ \A i \in 1..n : f[i] = Follow(spans, f[i - 1])
  BY <1>6 DEF PathRounds
<1>9. g[0] = First(spans) /\ \A i \in 1..m : g[i] = Follow(spans, g[i - 1])
  BY <1>4, <1>5, <1>7 DEF PathRounds
<1>10. Follow(spans, f[n]) = f[n]
  BY <1>6, PathIs
<1> DEFINE P == {i \in 0..m : g[i] = IF i <= n THEN f[i] ELSE f[n]}
<1> HIDE DEF n, m
<1>11. 0 \in P
  BY <1>1, <1>8, <1>9
<1>12. ASSUME NEW i \in 1..m, i - 1 \in P PROVE i \in P
  <2>1. i \in 0..m /\ g[i] = Follow(spans, g[i - 1]) /\ g[i - 1] = IF i - 1 <= n THEN f[i - 1] ELSE f[n]
    BY <1>1, <1>9, <1>12
  <2>2. CASE i <= n
    <3>1. i \in 1..n /\ i - 1 <= n
      BY <1>1, <2>2
    <3> QED
      BY <1>8, <2>1, <2>2, <3>1
  <2>3. CASE ~ (i <= n)
    <3>1. g[i - 1] = f[n]
      <4>1. i - 1 = n \/ ~ (i - 1 <= n)
        BY <1>1, <2>3
      <4> QED
        BY <2>1, <4>1
    <3> QED
      BY <1>10, <2>1, <2>3, <3>1
  <2> QED
    BY <2>2, <2>3
<1>13. \A i \in 0..m : i \in P
  <2> HIDE DEF P
  <2>1. \A i \in 1..m : i - 1 \in P => i \in P
    BY <1>12
  <2> QED
    BY <1>1, <1>11, <2>1, Rounds, Zenon
<1>14. m \in P
  BY <1>1, <1>13
<1>15. g[m] = f[n]
  BY <1>1, <1>14
<1> QED
  BY <1>6, <1>7, <1>15

-----------------------------------------------------------------------------
(* Sorting a list and copies of its elements *)

\* The first m elements of a list are in line, and a sort that keeps them in place.
\* The first m are in line; and the first m rounds have only put them one after another.
InLineUpto(seq, m, before) == \A k, l \in 1..m : k < l => <<seq[l], seq[k]>> \notin before
InPlaceUpto(f, seq, m) == \A i \in 0..m : Len(f[i]) = i /\ \A k \in 1..i : f[i][k] = seq[k]

\* What is in line already stays as it is while it is sorted.
LEMMA SortedPrefix ==
  ASSUME NEW R, NEW seq \in Seq(R), NEW before, NEW m \in 0..Len(seq), InLineUpto(seq, m, before),
         NEW f \in [0..Len(seq) -> Seq(R)], SortedRounds(f, seq, before)
  PROVE  InPlaceUpto(f, seq, m)
<1> DEFINE n == Len(seq)
           P == {i \in 0..m : Len(f[i]) = i /\ \A k \in 1..i : f[i][k] = seq[k]}
<1>1. n \in Nat /\ m \in Nat /\ m <= n /\ f[0] = <<>> /\ \A i \in 1..n : f[i] = Inserted(f[i - 1], seq[i], before) /\ seq[i] \in R
  BY DEF SortedRounds
<1>2. f \in [0..n -> Seq(R)]
  OBVIOUS
<1> HIDE DEF n
<1>3. 0 \in P
  BY <1>1
<1>4. ASSUME NEW i \in 1..m, i - 1 \in P PROVE i \in P
  <2> DEFINE w == f[i - 1]
             e == seq[i]
             v == f[i]
  <2>1. i \in 0..m /\ i \in 1..n /\ i - 1 \in 0..n /\ i \in Nat
    BY <1>1
  <2>2. w \in Seq(R) /\ Len(w) = i - 1 /\ e \in R /\ v = Inserted(w, e, before) /\ \A k \in 1..(i - 1) : w[k] = seq[k]
    BY <1>1, <1>2, <1>4, <2>1
  <2> HIDE DEF w, e, v
  <2>3. \A k \in 1..(i - 1) : <<e, w[k]>> \notin before
    <3> SUFFICES ASSUME NEW k \in 1..(i - 1) PROVE <<e, w[k]>> \notin before
      OBVIOUS
    <3>1. k \in 1..m /\ k < i
      BY <1>1, <2>1
    <3> QED
      BY <2>1, <2>2, <3>1 DEF e, InLineUpto
  <2>4. PICK q \in 1..(Len(w) + 1) :
          PutAt(v, w, e, q) /\ (q <= Len(w) => <<e, w[q]>> \in before)
    BY <2>2, InsertedIs
  <2>5. q = i
    <3>1. q \in 1..i /\ (q <= i - 1 => q \in 1..(i - 1))
      BY <2>1, <2>2, <2>4
    <3> QED
      BY <2>1, <2>2, <2>3, <2>4, <3>1
  <2>6. Len(v) = i /\ \A k \in 1..i : v[k] = IF k < i THEN w[k] ELSE IF k = i THEN e ELSE w[k - 1]
    BY <2>1, <2>2, <2>4, <2>5 DEF PutAt
  <2>7. \A k \in 1..i : v[k] = seq[k]
    <3> SUFFICES ASSUME NEW k \in 1..i PROVE v[k] = seq[k]
      OBVIOUS
    <3>1. k = i \/ (k < i /\ k \in 1..(i - 1))
      BY <2>1
    <3> QED
      BY <2>2, <2>6, <3>1 DEF e
  <2> QED
    BY <2>1, <2>6, <2>7 DEF v
<1>5. \A i \in 0..m : i \in P
  <2> HIDE DEF P
  <2>1. \A i \in 1..m : i - 1 \in P => i \in P
    BY <1>4
  <2> QED
    BY <1>1, <1>3, <2>1, Rounds, Zenon
<1> QED
  BY <1>5 DEF InPlaceUpto

\* A copy is put in after what it is a copy of.
LEMMA InsertedCopy ==
  ASSUME NEW R, NEW w \in Seq(R), NEW e \in ToSet(w), NEW before, StrictOrder(before, R), InLine(w, before)
  PROVE  Inserted(w, e, before) \in Seq(R) /\ WithCopies(w, Inserted(w, e, before))
<1> DEFINE n == Len(w)
           v == Inserted(w, e, before)
<1>1. n \in Nat /\ DOMAIN w = 1..n /\ (\A k \in 1..n : w[k] \in R) /\ e \in R /\ \E c \in 1..n : w[c] = e
  BY DEF ToSet
<1>2. PICK c \in 1..n : w[c] = e
  BY <1>1
<1>3. PICK q \in 1..(n + 1) :
        /\ v \in Seq(R) /\ PutAt(v, w, e, q)
        /\ \A k \in 1..(q - 1) : <<e, w[k]>> \notin before
        /\ q <= n => <<e, w[q]>> \in before
  BY <1>1, InsertedIs
<1>4. Len(v) = n + 1 /\ \A k \in 1..(n + 1) : v[k] = IF k < q THEN w[k] ELSE IF k = q THEN e ELSE w[k - 1]
  BY <1>3 DEF PutAt
<1>5. \A k, l \in 1..n : k < l => <<w[l], w[k]>> \notin before
  BY DEF InLine
<1> HIDE DEF v, n
<1>6. c < q
  <2>1. CASE c = q
    <3>1. <<e, e>> \in before
      BY <1>1, <1>2, <1>3, <2>1
    <3> QED
      BY <1>1, <3>1 DEF StrictOrder
  <2>2. CASE q < c
    <3>1. q <= n /\ q \in 1..n
      BY <1>1, <2>2
    <3> QED
      BY <1>2, <1>3, <1>5, <2>2, <3>1
  <2> QED
    BY <1>1, <2>1, <2>2
<1> DEFINE at == [k \in 1..n |-> IF k < q THEN k ELSE k + 1]
<1>7. at \in [1..n -> 1..(n + 1)] /\ \A k \in 1..n : at[k] = IF k < q THEN k ELSE k + 1
  BY <1>1
<1> HIDE DEF at
<1>8. \A k, l \in 1..n : k < l => at[k] < at[l]
  <2> SUFFICES ASSUME NEW k \in 1..n, NEW l \in 1..n, k < l PROVE at[k] < at[l]
    OBVIOUS
  <2>1. k \in Int /\ l \in Int /\ q \in Int
    BY <1>1
  <2>2. at[k] = (IF k < q THEN k ELSE k + 1) /\ at[l] = (IF l < q THEN l ELSE l + 1)
    BY <1>7
  <2> QED
    BY <2>1, <2>2
<1>9. ASSUME NEW k \in 1..n PROVE v[at[k]] = w[k]
  <2>1. CASE k < q
    <3>1. at[k] = k /\ k \in 1..(n + 1)
      BY <1>1, <1>7, <2>1
    <3> QED
      BY <1>4, <2>1, <3>1
  <2>2. CASE ~ (k < q)
    <3>1. at[k] = k + 1 /\ k + 1 \in 1..(n + 1) /\ ~ (k + 1 < q) /\ k + 1 # q /\ (k + 1) - 1 = k
      BY <1>1, <1>7, <2>2
    <3> QED
      BY <1>4, <3>1
  <2> QED
    BY <2>1, <2>2
<1>10. ASSUME NEW j \in 1..(n + 1)
       PROVE  (\E k \in 1..n : at[k] = j) \/ \E i \in 1..(j - 1) : v[i] = v[j]
  <2>1. CASE j < q
    <3>1. j \in 1..n /\ at[j] = j
      BY <1>1, <1>7, <2>1
    <3> QED
      BY <3>1
  <2>2. CASE j = q
    <3>1. v[j] = e /\ c \in 1..(j - 1) /\ c \in 1..(n + 1)
      BY <1>1, <1>4, <1>6, <2>2
    <3>2. v[c] = e
      BY <1>2, <1>4, <1>6, <3>1
    <3> QED
      BY <3>1, <3>2
  <2>3. CASE q < j
    <3>1. j - 1 \in 1..n /\ ~ (j - 1 < q) /\ (j - 1) + 1 = j
      BY <1>1, <2>3
    <3>2. at[j - 1] = j
      BY <1>7, <3>1
    <3> QED
      BY <3>1, <3>2
  <2> QED
    BY <1>1, <2>1, <2>2, <2>3
<1>11. CopiesAt(at, w, v)
  BY <1>4, <1>7, <1>8, <1>9, <1>10 DEF CopiesAt, n
<1> QED
  BY <1>3, <1>11 DEF WithCopies, v

\* A list in line, sorted together with more of its elements, gets copies put in.
LEMMA SortedWithCopies ==
  ASSUME NEW R, NEW seq \in Seq(R), NEW add \in Seq(R), NEW before, StrictOrder(before, R),
         InLine(seq, before), ToSet(add) \subseteq ToSet(seq)
  PROVE  WithCopies(seq, Sorted(seq \o add, before))
<1> DEFINE all == seq \o add
           m == Len(seq)
           n == Len(all)
<1>1. /\ all \in Seq(R) /\ n = m + Len(add) /\ m \in Nat /\ n \in Nat /\ Len(add) \in Nat
      /\ \A i \in 1..n : all[i] = IF i <= m THEN seq[i] ELSE add[i - m]
  BY ConcatProperties
<1> HIDE DEF all
<1>2. PICK f \in [0..n -> Seq(R)] : SortedRounds(f, all, before) /\ Sorted(all, before) = f[n]
  BY ZenonT(40), <1>1, SortedLoop
<1>3. f[0] = <<>> /\ \A i \in 1..n : f[i] = Inserted(f[i - 1], all[i], before)
  BY <1>2 DEF SortedRounds
<1>4. Len(f[m]) = m /\ \A k \in 1..m : f[m][k] = seq[k]
  <2>1. m \in 0..n /\ \A k \in 1..m : k \in 1..n /\ all[k] = seq[k]
    BY <1>1
  <2>2. InLineUpto(all, m, before)
    BY <2>1 DEF InLine, InLineUpto
  <2>3. InPlaceUpto(f, all, m)
    <3>1. m \in 0..Len(all) /\ f \in [0..Len(all) -> Seq(R)] /\ all \in Seq(R) /\ SortedRounds(f, all, before)
      BY <1>1, <1>2, <2>1
    <3> HIDE DEF m, n
    <3> QED
      BY <2>2, <3>1, SortedPrefix
  <2>4. m \in 0..m
    BY <1>1
  <2> QED
    BY <2>1, <2>3, <2>4 DEF InPlaceUpto
<1>5. m \in 0..n /\ f[m] \in Seq(R)
  BY <1>1, <1>2
<1>6. f[m] = seq
  BY <1>4, <1>5, SeqEqual
<1>7. \A i \in (m + 1)..n : all[i] \in ToSet(seq)
  <2> SUFFICES ASSUME NEW i \in (m + 1)..n PROVE all[i] \in ToSet(seq)
    OBVIOUS
  <2>1. i \in 1..n /\ ~ (i <= m) /\ i - m \in 1..Len(add)
    BY <1>1
  <2>2. add[i - m] \in ToSet(add)
    BY <2>1 DEF ToSet
  <2> QED
    BY <1>1, <2>1, <2>2
<1> DEFINE P == {i \in 0..(n - m) : WithCopies(seq, f[m + i]) /\ InLine(f[m + i], before)}
<1> HIDE DEF n
<1>8. 0 \in P
  <2>1. m + 0 = m /\ 0 \in 0..(n - m)
    BY <1>1
  <2>2. WithCopies(seq, seq)
    BY NoCopies
  <2> QED
    BY <1>6, <2>1, <2>2
<1>9. ASSUME NEW i \in 1..(n - m), i - 1 \in P PROVE i \in P
  <2> DEFINE w == f[m + (i - 1)]
             e == all[m + i]
  <2>1. i \in 0..(n - m) /\ m + i \in 1..n /\ (m + i) - 1 = m + (i - 1) /\ m + i \in (m + 1)..n /\ m + (i - 1) \in 0..n
    BY <1>1
  <2>2. w \in Seq(R) /\ WithCopies(seq, w) /\ InLine(w, before)
    BY <1>2, <1>9, <2>1
  <2>3. f[m + i] = Inserted(w, e, before) /\ e \in ToSet(seq)
    BY <1>3, <1>7, <2>1
  <2> HIDE DEF w, e
  <2>4. ToSet(w) = ToSet(seq)
    BY <2>2, SameElements
  <2>5. e \in R
    <3>1. \A x \in ToSet(seq) : x \in R
      BY DEF ToSet
    <3> QED
      BY <2>3, <3>1
  <2>6. Inserted(w, e, before) \in Seq(R) /\ WithCopies(w, Inserted(w, e, before))
    BY <2>2, <2>3, <2>4, InsertedCopy
  <2>7. InLine(Inserted(w, e, before), before)
    BY <2>2, <2>5, InsertInLine
  <2>8. WithCopies(seq, Inserted(w, e, before))
    BY <2>2, <2>6, CopiesOfCopies
  <2> QED
    BY <2>1, <2>3, <2>7, <2>8
<1>10. \A i \in 0..(n - m) : i \in P
  <2> HIDE DEF P
  <2>1. \A i \in 1..(n - m) : i - 1 \in P => i \in P
    BY <1>9
  <2>2. n - m \in Nat
    BY <1>1
  <2> QED
    BY <1>8, <2>1, <2>2, Rounds, Zenon
<1>11. n - m \in 0..(n - m) /\ m + (n - m) = n
  BY <1>1
<1>12. WithCopies(seq, f[n])
  BY <1>10, <1>11
<1> QED
  BY <1>2, <1>12 DEF all

-----------------------------------------------------------------------------
(* Only, list by list *)

\* Lists that agree as far as the shorter goes keep the same so far.
LEMMA OnlyAgrees ==
  ASSUME NEW R, NEW a \in Seq(R), NEW b \in Seq(R), NEW T, NEW U, Len(a) <= Len(b),
         \A i \in 1..Len(a) : b[i] = a[i] /\ (a[i] \in T <=> a[i] \in U),
         NEW f \in [0..Len(b) -> Seq(R)], OnlyRounds(f, b, U)
  PROVE  f[Len(a)] = Only(a, T)
<1> DEFINE n == Len(a)
<1>1. n \in Nat /\ Len(b) \in Nat /\ n <= Len(b)
  OBVIOUS
<1>2. PICK g \in [0..n -> Seq(R)] : OnlyRounds(g, a, T) /\ Only(a, T) = g[n]
  BY OnlyLoop
<1>3. /\ f[0] = <<>> /\ \A i \in 1..n : f[i] = IF b[i] \in U THEN Append(f[i - 1], b[i]) ELSE f[i - 1]
      /\ g[0] = <<>> /\ \A i \in 1..n : g[i] = IF a[i] \in T THEN Append(g[i - 1], a[i]) ELSE g[i - 1]
  BY <1>1, <1>2 DEF OnlyRounds
<1> DEFINE P == {i \in 0..n : f[i] = g[i]}
<1>4. 0 \in P
  BY <1>1, <1>3
<1>5. ASSUME NEW i \in 1..n, i - 1 \in P PROVE i \in P
  <2>1. i \in 0..n /\ f[i - 1] = g[i - 1]
    BY <1>1, <1>5
  <2>2. b[i] = a[i] /\ (a[i] \in T <=> a[i] \in U)
    OBVIOUS
  <2>3. f[i] = g[i]
    BY <1>3, <2>1, <2>2
  <2> QED
    BY <2>1, <2>3
<1>6. \A i \in 0..n : i \in P
  <2> HIDE DEF P, n
  <2>1. \A i \in 1..n : i - 1 \in P => i \in P
    BY <1>5
  <2> QED
    BY <1>1, <1>4, <2>1, Rounds, Zenon
<1>7. n \in P
  BY <1>1, <1>6
<1> QED
  BY <1>2, <1>7

\* Only the elements of the list matter in the set.
LEMMA OnlySame ==
  ASSUME NEW R, NEW seq \in Seq(R), NEW T, NEW U, T \cap ToSet(seq) = U \cap ToSet(seq)
  PROVE  Only(seq, T) = Only(seq, U)
<1>1. PICK f \in [0..Len(seq) -> Seq(R)] : OnlyRounds(f, seq, U) /\ Only(seq, U) = f[Len(seq)]
  BY OnlyLoop
<1>2. \A i \in 1..Len(seq) : seq[i] = seq[i] /\ (seq[i] \in T <=> seq[i] \in U)
  BY DEF ToSet
<1>3. Len(seq) <= Len(seq)
  OBVIOUS
<1>4. f[Len(seq)] = Only(seq, T)
  BY <1>1, <1>2, <1>3, OnlyAgrees
<1> QED
  BY <1>1, <1>4

\* Two lists, one after the other, and an element after them.
Joined(x, y) == x \o y
Extended(x, e) == Append(x, e)

\* An element is appended to both lists or to the second.
LEMMA AppendConcat ==
  ASSUME NEW R, NEW x \in Seq(R), NEW y \in Seq(R), NEW e \in R
  PROVE  Extended(Joined(x, y), e) = Joined(x, Extended(y, e))
<1> DEFINE v == Append(x \o y, e)
           w == x \o Append(y, e)
           m == Len(x)
           n == Len(y)
<1>1. m \in Nat /\ n \in Nat /\ v \in Seq(R) /\ w \in Seq(R) /\ Len(v) = m + n + 1 /\ Len(w) = m + n + 1
  BY ConcatProperties, AppendProperties
<1>2. ASSUME NEW i \in 1..(m + n + 1) PROVE v[i] = w[i]
  BY <1>1
<1> HIDE DEF v, w, m, n
<1>3. \A i \in 1..Len(v) : v[i] = w[i]
  BY <1>1, <1>2
<1> QED
  BY <1>1, <1>3, SeqEqual DEF v, w, Joined, Extended

\* What is kept of two lists, one after the other.
LEMMA OnlyConcat ==
  ASSUME NEW R, NEW a \in Seq(R), NEW b \in Seq(R), NEW T
  PROVE  Only(a \o b, T) = Only(a, T) \o Only(b, T)
<1> DEFINE all == a \o b
           m == Len(a)
           n == Len(b)
<1>1. /\ all \in Seq(R) /\ Len(all) = m + n /\ m \in Nat /\ n \in Nat
      /\ \A i \in 1..m : all[i] = a[i]
      /\ \A i \in 1..n : all[m + i] = b[i]
  BY ConcatProperties
<1> HIDE DEF all
<1>2. PICK f \in [0..Len(all) -> Seq(R)] : OnlyRounds(f, all, T) /\ Only(all, T) = f[Len(all)]
  <2>1. all \in Seq(R)
    BY <1>1
  <2> QED
    BY <2>1, OnlyLoop
<1>3. PICK g \in [0..n -> Seq(R)] : OnlyRounds(g, b, T) /\ Only(b, T) = g[n]
  BY OnlyLoop
<1>4. f[m] = Only(a, T)
  <2>1. Len(a) <= Len(all) /\ \A i \in 1..Len(a) : all[i] = a[i] /\ (a[i] \in T <=> a[i] \in T)
    BY <1>1
  <2>2. all \in Seq(R) /\ f \in [0..Len(all) -> Seq(R)] /\ OnlyRounds(f, all, T)
    BY <1>1, <1>2
  <2> QED
    BY <2>1, <2>2, OnlyAgrees
<1>5. /\ \A i \in 1..Len(all) : f[i] = IF all[i] \in T THEN Append(f[i - 1], all[i]) ELSE f[i - 1]
      /\ g[0] = <<>> /\ \A i \in 1..n : g[i] = IF b[i] \in T THEN Append(g[i - 1], b[i]) ELSE g[i - 1]
  BY <1>2, <1>3 DEF OnlyRounds
<1>10. f \in [0..Len(all) -> Seq(R)] /\ g \in [0..n -> Seq(R)] /\ \A i \in 1..n : b[i] \in R
  BY <1>2, <1>3
<1> HIDE DEF m, n
<1> DEFINE P == {i \in 0..n : f[m + i] = Joined(f[m], g[i])}
<1>6. 0 \in P
  <2>1. m + 0 = m /\ 0 \in 0..n /\ f[m] \in Seq(R)
    BY <1>1, <1>2
  <2> QED
    BY <1>5, <2>1, ConcatEmptySeq DEF Joined
<1>7. ASSUME NEW i \in 1..n, i - 1 \in P PROVE i \in P
  <2>1. /\ i \in 0..n /\ i - 1 \in 0..n /\ m + i \in 1..Len(all) /\ (m + i) - 1 = m + (i - 1)
        /\ m + (i - 1) \in 0..Len(all) /\ m \in 0..Len(all)
    <3>1. m \in Nat /\ n \in Nat /\ Len(all) = m + n
      BY <1>1
    <3> QED
      BY <3>1
  <2>2. f[m] \in Seq(R) /\ g[i - 1] \in Seq(R) /\ f[m + (i - 1)] = Joined(f[m], g[i - 1]) /\ b[i] \in R
    BY <1>10, <1>7, <2>1
  <2>3. f[m + i] = IF b[i] \in T THEN Append(f[m + (i - 1)], b[i]) ELSE f[m + (i - 1)]
    BY <1>1, <1>5, <2>1
  <2>4. g[i] = IF b[i] \in T THEN Append(g[i - 1], b[i]) ELSE g[i - 1]
    BY <1>5
  <2>5. CASE b[i] \in T
    <3> DEFINE y == g[i - 1]
               u == f[m]
    <3>1. f[m + i] = Extended(Joined(u, y), b[i]) /\ g[i] = Extended(y, b[i])
      BY <2>2, <2>3, <2>4, <2>5 DEF Extended
    <3>2. u \in Seq(R) /\ y \in Seq(R) /\ b[i] \in R
      BY <2>2
    <3> HIDE DEF y, u
    <3>3. f[m + i] = Joined(u, g[i])
      BY <3>1, <3>2, AppendConcat
    <3> QED
      BY <2>1, <3>3 DEF u
  <2>6. CASE b[i] \notin T
    BY <2>1, <2>2, <2>3, <2>4, <2>6
  <2> QED
    BY <2>5, <2>6
<1>8. \A i \in 0..n : i \in P
  <2> HIDE DEF P
  <2>1. \A i \in 1..n : i - 1 \in P => i \in P
    BY <1>7
  <2> QED
    BY <1>1, <1>6, <2>1, Rounds, Zenon
<1>9. n \in P
  <2> HIDE DEF P
  <2>1. n \in 0..n
    BY <1>1
  <2> QED
    BY <1>8, <2>1
<1> QED
  BY <1>1, <1>2, <1>3, <1>4, <1>9 DEF all, Joined

\* A list of which nothing is kept, and a list of one.
LEMMA OnlyNone ==
  ASSUME NEW R, NEW seq \in Seq(R), NEW T, ToSet(seq) \cap T = {}
  PROVE  Only(seq, T) = <<>>
<1>1. Only(seq, T) \in Seq(R) /\ ToSet(Only(seq, T)) = {}
  BY OnlyIs
<1> HIDE DEF Only
<1>2. Only(seq, T) # <<>> => Only(seq, T)[1] \in ToSet(Only(seq, T))
  BY <1>1 DEF ToSet
<1> QED
  BY <1>1, <1>2

\* Only of one element.
LEMMA OnlyOne ==
  ASSUME NEW R, NEW e \in R, NEW T
  PROVE  Only(<<e>>, T) = IF e \in T THEN <<e>> ELSE <<>>
<1>1. <<e>> \in Seq(R) /\ Len(<<e>>) = 1 /\ <<e>>[1] = e /\ 1 \in 1..1 /\ 1 - 1 = 0
  OBVIOUS
<1>2. PICK f \in [0..Len(<<e>>) -> Seq(R)] : OnlyRounds(f, <<e>>, T) /\ Only(<<e>>, T) = f[Len(<<e>>)]
  BY <1>1, OnlyLoop
<1>3. f[0] = <<>> /\ f[1] = IF e \in T THEN Append(f[0], e) ELSE f[0]
  BY <1>1, <1>2 DEF OnlyRounds
<1>4. Append(<<>>, e) = <<e>>
  OBVIOUS
<1> QED
  BY <1>1, <1>2, <1>3, <1>4

\* One element more.
LEMMA OnlyAppend ==
  ASSUME NEW R, NEW s \in Seq(R), NEW e \in R, NEW T
  PROVE  Only(Append(s, e), T) = IF e \in T THEN Append(Only(s, T), e) ELSE Only(s, T)
<1> DEFINE o == <<e>>
           w == Only(s, T)
<1>1. o \in Seq(R) /\ Append(s, e) = s \o o /\ Only(o, T) = IF e \in T THEN o ELSE <<>>
  BY OnlyOne, AppendIsConcat
<1>2. w \in Seq(R)
  BY OnlyIs
<1>3. w \o o = Append(w, e) /\ w \o <<>> = w
  BY <1>2, AppendIsConcat, ConcatEmptySeq
<1> HIDE DEF o
<1>4. Only(s \o o, T) = Only(s, T) \o Only(o, T)
  BY <1>1, OnlyConcat
<1>5. CASE e \in T
  BY <1>1, <1>3, <1>4, <1>5, Zenon DEF w
<1>6. CASE e \notin T
  BY <1>1, <1>3, <1>4, <1>6, Zenon DEF w
<1> QED
  BY <1>5, <1>6

\* A list as its first elements and the last.
LEMMA FrontAndLast ==
  ASSUME NEW R, NEW seq \in Seq(R), seq # <<>>
  PROVE  \E s \in Seq(R) : seq = Append(s, Last(seq)) /\ Last(seq) \in R /\ Last(seq) \in ToSet(seq)
<1>1. PICK s \in Seq(R), e \in R : seq = Append(s, e)
  BY SequenceEmptyOrAppend
<1>2. Len(seq) = Len(s) + 1 /\ Len(s) \in Nat /\ seq[Len(s) + 1] = e /\ Len(s) + 1 \in 1..Len(seq)
  BY <1>1
<1>3. Last(seq) = e
  BY <1>2 DEF Last
<1>4. e \in ToSet(seq)
  BY <1>2 DEF ToSet
<1> QED
  BY <1>1, <1>3, <1>4

\* The last element of two lists, one after the other, is that of the second.
LEMMA LastOfConcat ==
  ASSUME NEW R, NEW a \in Seq(R), NEW b \in Seq(R), b # <<>>
  PROVE  a \o b # <<>> /\ Last(a \o b) = Last(b)
<1>1. Len(a) \in Nat /\ Len(b) \in Nat \ {0} /\ Len(a \o b) = Len(a) + Len(b)
  OBVIOUS
<1>2. (a \o b)[Len(a) + Len(b)] = b[Len(b)]
  BY <1>1
<1> QED
  BY <1>1, <1>2 DEF Last

\* The last element, when it is kept, is the last that is kept.
LEMMA LastOfOnly ==
  ASSUME NEW R, NEW seq \in Seq(R), seq # <<>>, NEW T, Last(seq) \in T
  PROVE  Only(seq, T) # <<>> /\ Last(Only(seq, T)) = Last(seq)
<1> DEFINE e == Last(seq)
<1>1. PICK s \in Seq(R) : seq = Append(s, e) /\ e \in R
  BY FrontAndLast
<1>2. e \in T
  OBVIOUS
<1> HIDE DEF e
<1>3. Only(seq, T) = Append(Only(s, T), e)
  BY <1>1, <1>2, OnlyAppend
<1>4. Only(s, T) \in Seq(R)
  BY OnlyIs
<1>5. ASSUME NEW w \in Seq(R) PROVE Append(w, e) # <<>> /\ Last(Append(w, e)) = e
  BY SMTT(20), <1>1 DEF Last
<1> QED
  BY <1>3, <1>4, <1>5 DEF e

\* What is kept of what was kept.
LEMMA OnlyOfOnly ==
  ASSUME NEW R, NEW seq \in Seq(R), NEW S, NEW T
  PROVE  Only(Only(seq, S), T) = Only(seq, S \cap T)
<1> DEFINE n == Len(seq)
           P == {i \in 0..n : Only(Only(SubSeq(seq, 1, i), S), T) = Only(SubSeq(seq, 1, i), S \cap T)}
<1>1. n \in Nat /\ \A i \in 0..n : SubSeq(seq, 1, i) \in Seq(R)
  OBVIOUS
<1>2. 0 \in P
  <2>1. SubSeq(seq, 1, 0) = <<>> /\ <<>> \in Seq(R) /\ ToSet(<<>>) = {}
    BY SubSeqEmpty DEF ToSet
  <2>2. \A U : Only(<<>>, U) = <<>>
    BY <2>1, OnlyNone
  <2>3. Only(<<>>, S) = <<>> /\ Only(<<>>, T) = <<>> /\ Only(<<>>, S \cap T) = <<>>
    BY <2>2
  <2>4. Only(Only(SubSeq(seq, 1, 0), S), T) = Only(SubSeq(seq, 1, 0), S \cap T)
    BY <2>1, <2>3
  <2> QED
    BY <1>1, <2>4
<1>3. ASSUME NEW i \in 1..n, i - 1 \in P PROVE i \in P
  <2> DEFINE s == SubSeq(seq, 1, i - 1)
             e == seq[i]
  <2>1. i \in 0..n /\ i - 1 \in 0..n /\ e \in R
    BY <1>1
  <2>2. SubSeq(seq, 1, i) = Append(s, e)
    <3>1. SubSeq(seq, 1, i) = s \o <<e>> /\ s \in Seq(R)
      BY <1>1, <2>1, SubSeqRecursiveSecond
    <3> HIDE DEF s, e
    <3> QED
      BY <2>1, <3>1, AppendIsConcat
  <2>3. s \in Seq(R) /\ Only(Only(s, S), T) = Only(s, S \cap T)
    BY <1>1, <1>3, <2>1
  <2> HIDE DEF s, e
  <2>4. \A U : Only(Append(s, e), U) = IF e \in U THEN Append(Only(s, U), e) ELSE Only(s, U)
    BY <2>1, <2>3, OnlyAppend
  <2>5. Only(s, S) \in Seq(R)
    BY <2>3, OnlyIs
  <2>6. Only(Append(Only(s, S), e), T) = IF e \in T THEN Append(Only(Only(s, S), T), e) ELSE Only(Only(s, S), T)
    BY <2>1, <2>5, OnlyAppend
  <2>7. Only(Only(Append(s, e), S), T) = Only(Append(s, e), S \cap T)
    BY <2>3, <2>4, <2>6
  <2> QED
    BY <2>1, <2>2, <2>7
<1>4. \A i \in 0..n : i \in P
  <2> HIDE DEF P, n
  <2>1. \A i \in 1..n : i - 1 \in P => i \in P
    BY <1>3
  <2> QED
    BY <1>1, <1>2, <2>1, Rounds, Zenon
<1>5. n \in P
  <2> HIDE DEF P
  <2>1. n \in 0..n
    BY <1>1
  <2> QED
    BY <1>4, <2>1
<1>6. SubSeq(seq, 1, n) = seq
  BY SubSeqFull
<1> QED
  BY <1>5, <1>6

-----------------------------------------------------------------------------
(* The order of the SELECT, and the rows it puts together *)

\* OnlyConcat in terms of Joined.
LEMMA OnlyJoined ==
  ASSUME NEW R, NEW a \in Seq(R), NEW b \in Seq(R), NEW T
  PROVE  Only(Joined(a, b), T) = Joined(Only(a, T), Only(b, T))
BY OnlyConcat DEF Joined

\* OnlyAppend in terms of Extended.
LEMMA OnlyExtended ==
  ASSUME NEW R, NEW s \in Seq(R), NEW e \in R, NEW T
  PROVE  Only(Extended(s, e), T) = IF e \in T THEN Extended(Only(s, T), e) ELSE Only(s, T)
BY OnlyAppend DEF Extended

\* What holds of one element of C holds of all: they stand before the same others.
Tied(C, before, R) == \A x, y \in C : \A z \in R : <<x, z>> \in before => <<y, z>> \in before

\* An element is put in behind all that are tied with it.
LEMMA InsertIsStable ==
  ASSUME NEW R, NEW w \in Seq(R), NEW e \in R, NEW before, StrictOrder(before, R), InLine(w, before),
         NEW C, C \subseteq R, Tied(C, before, R)
  PROVE  Only(Inserted(w, e, before), C) = IF e \in C THEN Extended(Only(w, C), e) ELSE Only(w, C)
<1> DEFINE n == Len(w)
           v == Inserted(w, e, before)
<1>1. n \in Nat /\ \A i \in 1..n : w[i] \in R
  OBVIOUS
<1>2. PICK q \in 1..(n + 1) : v \in Seq(R) /\ PutAt(v, w, e, q) /\ (q <= n => <<e, w[q]>> \in before)
  BY InsertedIs
<1> DEFINE h == SubSeq(w, 1, q - 1)
           t == SubSeq(w, q, n)
<1>3. /\ h \in Seq(R) /\ Len(h) = q - 1 /\ \A i \in 1..(q - 1) : h[i] = w[i]
      /\ t \in Seq(R) /\ Len(t) = n + 1 - q /\ \A i \in 1..(n + 1 - q) : t[i] = w[q + i - 1]
  <2>1. q \in Nat /\ q >= 1 /\ q <= n + 1
    BY <1>1
  <2> QED
    BY <1>1, <2>1
<1>4. Len(v) = n + 1 /\ \A k \in 1..(n + 1) : v[k] = IF k < q THEN w[k] ELSE IF k = q THEN e ELSE w[k - 1]
  BY <1>2 DEF PutAt
<1> HIDE DEF v, h, t
<1>5. w = Joined(h, t)
  <2> DEFINE u == h \o t
  <2>1. u \in Seq(R) /\ Len(u) = n
    BY <1>1, <1>3
  <2>2. ASSUME NEW i \in 1..n PROVE w[i] = u[i]
    <3>1. CASE i <= q - 1
      <4>1. i \in 1..(q - 1)
        BY <1>1, <3>1
      <4> QED
        BY <1>3, <4>1
    <3>2. CASE ~ (i <= q - 1)
      <4>1. i - (q - 1) \in 1..(n + 1 - q) /\ q + (i - (q - 1)) - 1 = i
        BY <1>1, <3>2
      <4>2. u[i] = t[i - (q - 1)]
        BY <1>1, <1>3, <3>2, <4>1
      <4> QED
        BY <1>3, <4>1, <4>2
    <3> QED
      BY <3>1, <3>2
  <2> HIDE DEF u
  <2> QED
    BY <2>1, <2>2, SeqEqual DEF Joined, u
<1>6. v = Joined(Extended(h, e), t)
  <2> DEFINE he == Append(h, e)
             u == he \o t
  <2>1. he \in Seq(R) /\ Len(he) = q /\ \A i \in 1..q : he[i] = IF i < q THEN w[i] ELSE e
    BY <1>1, <1>3
  <2> HIDE DEF he
  <2>2. u \in Seq(R) /\ Len(u) = n + 1
    <3>1. u \in Seq(R) /\ Len(u) = Len(he) + Len(t)
      BY <1>3, <2>1, ConcatProperties
    <3>2. q \in Nat /\ q + (n + 1 - q) = n + 1
      BY <1>1
    <3> QED
      BY <1>3, <2>1, <3>1, <3>2
  <2>3. ASSUME NEW i \in 1..(n + 1) PROVE v[i] = u[i]
    <3>1. CASE i <= q
      <4>1. i \in 1..q /\ i \in Int /\ q \in Int
        BY <1>1, <3>1
      <4>2. u[i] = he[i]
        BY <1>1, <1>3, <2>1, <4>1
      <4> QED
        BY <1>4, <2>1, <4>1, <4>2
    <3>2. CASE ~ (i <= q)
      <4>1. i - q \in 1..(n + 1 - q) /\ q + (i - q) - 1 = i - 1 /\ ~ (i < q) /\ i # q
        BY <1>1, <3>2
      <4>2. u[i] = t[i - q]
        <5>1. he \in Seq(R) /\ t \in Seq(R) /\ Len(he) = q /\ q \in Nat /\ i \in Nat
          BY <1>1, <1>3, <2>1
        <5>2. i \in 1..(Len(he) + Len(t)) /\ ~ (i <= Len(he))
          BY <1>1, <1>3, <3>2, <5>1
        <5> QED
          BY <5>1, <5>2
      <4> QED
        BY <1>3, <1>4, <4>1, <4>2
    <3> QED
      BY <3>1, <3>2
  <2> HIDE DEF u
  <2> QED
    BY <1>2, <1>4, <2>2, <2>3, SeqEqual DEF Joined, Extended, u, he
<1>7. Extended(h, e) \in Seq(R)
  BY <1>3 DEF Extended
<1>8. Only(w, C) = Joined(Only(h, C), Only(t, C))
  BY <1>3, <1>5, OnlyJoined
<1>9. Only(v, C) = Joined(Only(Extended(h, e), C), Only(t, C))
  BY <1>3, <1>6, <1>7, OnlyJoined
<1>10. Only(Extended(h, e), C) = IF e \in C THEN Extended(Only(h, C), e) ELSE Only(h, C)
  BY <1>3, OnlyExtended
<1>11. CASE e \in C
  <2>1. ToSet(t) \cap C = {}
    <3> SUFFICES ASSUME NEW x \in ToSet(t), x \in C PROVE FALSE
      OBVIOUS
    <3>1. PICK i \in 1..(n + 1 - q) : x = t[i]
      BY <1>3 DEF ToSet
    <3>2. q + i - 1 \in 1..n /\ q <= q + i - 1 /\ x = w[q + i - 1] /\ q <= n /\ q \in 1..n
      BY <1>1, <1>3, <3>1
    <3>3. w[q] \in R /\ x \in R
      BY <1>1, <3>2
    <3>4. <<x, w[q]>> \in before
      BY <1>2, <1>11, <3>2, <3>3 DEF Tied
    <3>5. CASE q = q + i - 1
      BY <3>2, <3>3, <3>4, <3>5 DEF StrictOrder
    <3>6. CASE q < q + i - 1
      BY <3>2, <3>4, <3>6 DEF InLine
    <3> QED
      BY <1>1, <3>2, <3>5, <3>6
  <2>2. Only(t, C) = <<>>
    BY <1>3, <2>1, OnlyNone
  <2>3. Only(h, C) \in Seq(R) /\ Only(Extended(h, e), C) \in Seq(R)
    BY <1>3, <1>7, OnlyIs
  <2>4. \A s \in Seq(R) : Joined(s, <<>>) = s
    BY ConcatEmptySeq DEF Joined
  <2> QED
    BY <1>8, <1>9, <1>10, <1>11, <2>2, <2>3, <2>4 DEF v
<1>12. CASE e \notin C
  BY <1>8, <1>9, <1>10, <1>12 DEF v
<1> QED
  BY <1>11, <1>12

\* A sort keeps the order of elements that are tied.
LEMMA SortedIsStable ==
  ASSUME NEW R, NEW seq \in Seq(R), NEW before, StrictOrder(before, R), NEW C, C \subseteq R, Tied(C, before, R)
  PROVE  Only(Sorted(seq, before), C) = Only(seq, C)
<1> DEFINE n == Len(seq)
<1>1. n \in Nat /\ \A i \in 1..n : seq[i] \in R
  OBVIOUS
<1>2. PICK f \in [0..n -> Seq(R)] : SortedRounds(f, seq, before) /\ Sorted(seq, before) = f[n]
  BY SortedLoop
<1>3. PICK g \in [0..n -> Seq(R)] : OnlyRounds(g, seq, C) /\ Only(seq, C) = g[n]
  BY OnlyLoop
<1>4. /\ f[0] = <<>> /\ \A i \in 1..n : f[i] = Inserted(f[i - 1], seq[i], before)
      /\ g[0] = <<>> /\ \A i \in 1..n : g[i] = IF seq[i] \in C THEN Extended(g[i - 1], seq[i]) ELSE g[i - 1]
  BY <1>2, <1>3 DEF SortedRounds, OnlyRounds, Extended
<1>5. f \in [0..n -> Seq(R)]
  BY <1>2
<1> HIDE DEF n
<1> DEFINE P == {i \in 0..n : InLine(f[i], before) /\ Only(f[i], C) = g[i]}
<1>6. 0 \in P
  <2>1. <<>> \in Seq(R) /\ ToSet(<<>>) \cap C = {} /\ InLine(<<>>, before)
    BY DEF ToSet, InLine
  <2>2. Only(<<>>, C) = <<>>
    BY <2>1, OnlyNone
  <2> QED
    BY <1>1, <1>4, <2>1, <2>2
<1>7. ASSUME NEW i \in 1..n, i - 1 \in P PROVE i \in P
  <2> DEFINE w == f[i - 1]
             e == seq[i]
  <2>1. i \in 0..n /\ i - 1 \in 0..n /\ e \in R
    BY <1>1
  <2>2. w \in Seq(R) /\ InLine(w, before) /\ Only(w, C) = g[i - 1] /\ f[i] = Inserted(w, e, before)
    BY <1>4, <1>5, <1>7, <2>1
  <2>3. g[i] = IF e \in C THEN Extended(g[i - 1], e) ELSE g[i - 1]
    BY <1>4
  <2> HIDE DEF w, e
  <2>4. InLine(Inserted(w, e, before), before)
    BY <2>1, <2>2, InsertInLine
  <2>5. Only(Inserted(w, e, before), C) = IF e \in C THEN Extended(Only(w, C), e) ELSE Only(w, C)
    BY <2>1, <2>2, InsertIsStable
  <2> QED
    BY <2>1, <2>2, <2>3, <2>4, <2>5
<1>8. \A i \in 0..n : i \in P
  <2> HIDE DEF P
  <2>1. \A i \in 1..n : i - 1 \in P => i \in P
    BY <1>7
  <2> QED
    BY <1>1, <1>6, <2>1, Rounds, Zenon
<1>9. n \in P
  <2> HIDE DEF P
  <2>1. n \in 0..n
    BY <1>1
  <2> QED
    BY <1>8, <2>1
<1> QED
  BY <1>2, <1>3, <1>9 DEF n

\* s comes before o in the SELECT, and a list in its order.
Sooner(s, o) == s.start < o.start \/ (s.start = o.start /\ s.id < o.id)
ByStart(v) == \A k, l \in 1..Len(v) : k < l => ~ Sooner(v[l], v[k])

\* The relation of the SELECT orders the spans by start and id.
LEMMA EarlierIs ==
  ASSUME NEW rs \in Seq(Valid)
  PROVE  /\ rs \in Seq(ToSet(rs)) /\ \A x \in ToSet(rs) : x \in Valid
         /\ StrictOrder(Earlier(rs), ToSet(rs))
         /\ \A x, y \in ToSet(rs) : <<x, y>> \in Earlier(rs) <=> Sooner(x, y)
<1> DEFINE R == ToSet(rs)
           E == Earlier(rs)
<1>1. rs \in Seq(R) /\ \A x \in R : x \in Valid
  <2>1. \A i \in 1..Len(rs) : rs[i] \in R /\ rs[i] \in Valid
    BY DEF ToSet
  <2>2. \A x \in R : \E i \in 1..Len(rs) : x = rs[i]
    BY DEF ToSet
  <2> HIDE DEF R
  <2>3. rs \in [1..Len(rs) -> R] /\ Len(rs) \in Nat
    BY <2>1
  <2> QED
    BY <2>1, <2>2, <2>3
<1>2. \A x \in R : x.start \in Int /\ x.id \in Int
  BY <1>1 DEF Valid, Stored
<1>3. \A x, y \in R : <<x, y>> \in E <=> Sooner(x, y)
  BY DEF Earlier, Sooner
<1> HIDE DEF R, E
<1>4. StrictOrder(E, R)
  <2>1. \A x \in R : <<x, x>> \notin E
    BY <1>2, <1>3 DEF Sooner
  <2>2. ASSUME NEW x \in R, NEW y \in R, NEW z \in R, <<x, y>> \in E, <<y, z>> \in E
        PROVE  <<x, z>> \in E
    <3>1. x.start \in Int /\ y.start \in Int /\ z.start \in Int /\ x.id \in Int /\ y.id \in Int /\ z.id \in Int
      BY <1>2
    <3> QED
      BY <1>3, <2>2, <3>1 DEF Sooner
  <2> QED
    BY <2>1, <2>2 DEF StrictOrder
<1> QED
  BY <1>1, <1>3, <1>4 DEF R, E

\* A list of some of the rows is in line when it is in order.
LEMMA LineIsOrder ==
  ASSUME NEW rs \in Seq(Valid), NEW v \in Seq(Valid), ToSet(v) \subseteq ToSet(rs)
  PROVE  InLine(v, Earlier(rs)) <=> ByStart(v)
<1>1. \A k \in 1..Len(v) : v[k] \in ToSet(rs)
  BY DEF ToSet
<1>2. \A x, y \in ToSet(rs) : <<x, y>> \in Earlier(rs) <=> Sooner(x, y)
  BY EarlierIs
<1>3. \A k, l \in 1..Len(v) : <<v[l], v[k]>> \in Earlier(rs) <=> Sooner(v[l], v[k])
  BY <1>1, <1>2
<1> QED
  BY <1>3 DEF InLine, ByStart

\* Ordered rows stand by start and id.
LEMMA OrderedByStart ==
  ASSUME NEW rs \in Seq(Valid)
  PROVE  ByStart(Ordered(rs))
<1> DEFINE v == Ordered(rs)
<1>1. v = Sorted(rs, Earlier(rs)) /\ v \in Seq(Valid) /\ ToSet(v) = ToSet(rs)
  BY OrderedIs
<1>2. rs \in Seq(ToSet(rs)) /\ StrictOrder(Earlier(rs), ToSet(rs))
  BY EarlierIs
<1> HIDE DEF v
<1>3. InLine(v, Earlier(rs))
  BY <1>1, <1>2, SortedInLine
<1>4. ToSet(v) \subseteq ToSet(rs)
  BY <1>1
<1> QED
  BY <1>1, <1>3, <1>4, LineIsOrder DEF v

\* Rows that are in order stay as they are.
LEMMA OrderedStays ==
  ASSUME NEW rs \in Seq(Valid), ByStart(rs)
  PROVE  Ordered(rs) = rs
<1> DEFINE E == Earlier(rs)
           n == Len(rs)
<1>1. Ordered(rs) = Sorted(rs, E) /\ n \in Nat
  BY OrderedIs
<1>2. InLine(rs, E)
  BY LineIsOrder
<1> HIDE DEF E
<1>3. PICK f \in [0..Len(rs) -> Seq(Valid)] : SortedRounds(f, rs, E) /\ Sorted(rs, E) = f[Len(rs)]
  BY SortedLoop
<1>4. InLineUpto(rs, n, E) /\ n \in 0..Len(rs)
  BY <1>1, <1>2 DEF InLine, InLineUpto
<1> HIDE DEF n
<1>5. InPlaceUpto(f, rs, n)
  BY <1>3, <1>4, SortedPrefix
<1>6. f[n] \in Seq(Valid) /\ n \in 0..n
  BY <1>1, <1>3, <1>4
<1>7. Len(f[n]) = Len(rs) /\ \A k \in 1..Len(f[n]) : f[n][k] = rs[k]
  BY <1>5, <1>6 DEF InPlaceUpto, n
<1>8. f[n] = rs
  BY <1>6, <1>7, SeqEqual
<1> QED
  BY <1>1, <1>3, <1>8 DEF n

\* What is kept of rows in order is in order.
LEMMA OnlyByStart ==
  ASSUME NEW rs \in Seq(Valid), ByStart(rs), NEW T
  PROVE  ByStart(Only(rs, T))
<1> DEFINE w == Only(rs, T)
<1>1. w \in Seq(Valid) /\ \E at : PickedAt(at, w, rs, T, Len(rs))
  BY OnlyPicks
<1> HIDE DEF w
<1>2. PICK at : PickedAt(at, w, rs, T, Len(rs))
  BY <1>1
<1>3. /\ \A k \in 1..Len(w) : at[k] \in 1..Len(rs) /\ w[k] = rs[at[k]]
      /\ \A k, l \in 1..Len(w) : k < l => at[k] < at[l]
  BY <1>2 DEF PickedAt
<1>4. ASSUME NEW k \in 1..Len(w), NEW l \in 1..Len(w), k < l PROVE ~ Sooner(w[l], w[k])
  <2>1. at[k] \in 1..Len(rs) /\ at[l] \in 1..Len(rs) /\ at[k] < at[l] /\ w[k] = rs[at[k]] /\ w[l] = rs[at[l]]
    BY <1>3, <1>4
  <2> QED
    BY <2>1 DEF ByStart
<1> QED
  BY <1>4 DEF ByStart, w

\* More rows, none of them new, are copies put in.
LEMMA OrderedWithCopies ==
  ASSUME NEW rs \in Seq(Valid), ByStart(rs), NEW add \in Seq(Valid), ToSet(add) \subseteq ToSet(rs)
  PROVE  WithCopies(rs, Ordered(rs \o add))
<1> DEFINE all == rs \o add
           R == ToSet(rs)
<1>1. /\ all \in Seq(Valid) /\ Len(all) = Len(rs) + Len(add) /\ Len(rs) \in Nat /\ Len(add) \in Nat
      /\ \A i \in 1..Len(rs) : all[i] = rs[i]
      /\ \A i \in 1..Len(add) : all[Len(rs) + i] = add[i]
  BY ConcatProperties
<1>2. ToSet(all) = R
  <2>1. ASSUME NEW x \in ToSet(all) PROVE x \in R
    <3>1. PICK i \in 1..Len(all) : x = all[i]
      BY DEF ToSet
    <3>2. CASE i \in 1..Len(rs)
      BY <1>1, <3>1, <3>2 DEF ToSet
    <3>3. CASE i \notin 1..Len(rs)
      <4>1. i - Len(rs) \in 1..Len(add) /\ Len(rs) + (i - Len(rs)) = i
        BY <1>1, <3>3
      <4>2. x = add[i - Len(rs)]
        BY <1>1, <3>1, <4>1
      <4>3. x \in ToSet(add)
        BY <4>1, <4>2 DEF ToSet
      <4> QED
        BY <4>3
    <3> QED
      BY <3>2, <3>3
  <2>2. ASSUME NEW x \in R PROVE x \in ToSet(all)
    <3>1. PICK i \in 1..Len(rs) : x = rs[i]
      BY DEF ToSet
    <3>2. i \in 1..Len(all) /\ x = all[i]
      BY <1>1, <3>1
    <3> QED
      BY <3>2 DEF ToSet
  <2> QED
    BY <2>1, <2>2
<1> HIDE DEF all
<1>3. Ordered(all) = Sorted(all, Earlier(all))
  BY <1>1, OrderedIs
<1>4. Earlier(all) = Earlier(rs)
  BY <1>2 DEF Earlier
<1>5. rs \in Seq(R) /\ StrictOrder(Earlier(rs), R) /\ InLine(rs, Earlier(rs))
  BY EarlierIs, LineIsOrder
<1>6. add \in Seq(R)
  BY ListOf
<1> HIDE DEF R
<1>7. WithCopies(rs, Sorted(rs \o add, Earlier(rs)))
  BY <1>5, <1>6, SortedWithCopies DEF R
<1> QED
  BY <1>3, <1>4, <1>7 DEF all

-----------------------------------------------------------------------------
(* Of several versions of a span the last that was sent *)

\* The versions that the SELECT does not tell apart.
Alike(t, i, m) == {s \in Valid : s.tid = t /\ s.id = i /\ s.start = m}

\* Of such versions the last in v is the last in b.
Lasts(v, b) ==
  \A t, i, m : Only(v, Alike(t, i, m)) # <<>> => Last(Only(v, Alike(t, i, m))) = Last(Only(b, Alike(t, i, m)))

\* What is sent again comes last.
LEMMA OrderedLasts ==
  ASSUME NEW rs \in Seq(Valid), NEW add \in Seq(Valid), ToSet(rs) \subseteq ToSet(add)
  PROVE  Lasts(Ordered(rs \o add), add)
<1> DEFINE all == Joined(rs, add)
           E == Earlier(all)
           R == ToSet(all)
<1>1. all = rs \o add /\ all \in Seq(Valid)
  BY ConcatProperties DEF Joined
<1> HIDE DEF all
<1>2. Ordered(all) = Sorted(all, E)
  BY <1>1, OrderedIs
<1>3. /\ all \in Seq(R) /\ StrictOrder(E, R) /\ \A x \in R : x \in Valid
      /\ \A x, y \in R : <<x, y>> \in E <=> Sooner(x, y)
  BY <1>1, EarlierIs
<1> HIDE DEF E, R
<1> SUFFICES ASSUME NEW t, NEW i, NEW m, NEW C, C = Alike(t, i, m), Only(Ordered(all), C) # <<>>
             PROVE  Last(Only(Ordered(all), C)) = Last(Only(add, C))
  BY <1>1 DEF Lasts
<1>4. Only(Ordered(all), C) = Only(all, C)
  <2> DEFINE D == C \cap R
  <2>1. D \subseteq R
    OBVIOUS
  <2>2. Tied(D, E, R)
    <3>1. ASSUME NEW x \in D, NEW y \in D, NEW z \in R, <<x, z>> \in E PROVE <<y, z>> \in E
      <4>1. x.start = y.start /\ x.id = y.id
        BY DEF Alike
      <4> QED
        BY <1>3, <3>1, <4>1 DEF Sooner
    <3> QED
      BY <3>1 DEF Tied
  <2> HIDE DEF D
  <2>3. Only(Sorted(all, E), D) = Only(all, D)
    BY <1>3, <2>1, <2>2, SortedIsStable
  <2>4. Sorted(all, E) \in Seq(R) /\ ToSet(Sorted(all, E)) = ToSet(all)
    BY <1>3, SortedIs
  <2>5. Only(all, D) = Only(all, C) /\ Only(Sorted(all, E), D) = Only(Sorted(all, E), C)
    <3>1. D \cap ToSet(all) = C \cap ToSet(all)
      BY DEF D, R
    <3> QED
      BY <1>3, <2>4, <3>1, OnlySame
  <2> QED
    BY <1>2, <2>3, <2>5
<1>5. Only(all, C) = Joined(Only(rs, C), Only(add, C))
  BY OnlyJoined DEF all
<1>6. Only(rs, C) \in Seq(Valid) /\ ToSet(Only(rs, C)) = ToSet(rs) \cap C
  BY OnlyIs
<1>7. Only(add, C) \in Seq(Valid) /\ ToSet(Only(add, C)) = ToSet(add) \cap C
  BY OnlyIs
<1> DEFINE x == Only(rs, C)
           y == Only(add, C)
<1> HIDE DEF x, y
<1>8. y # <<>>
  <2> SUFFICES ASSUME y = <<>> PROVE FALSE
    OBVIOUS
  <2>1. ToSet(y) = {}
    BY DEF ToSet
  <2>2. ToSet(x) = {}
    BY <1>6, <1>7, <2>1 DEF x, y
  <2>3. x # <<>> => x[1] \in ToSet(x)
    BY <1>6 DEF ToSet, x
  <2>4. x = <<>>
    BY <2>2, <2>3
  <2>5. Joined(x, y) = <<>>
    BY <2>4 DEF Joined
  <2> QED
    BY <1>4, <1>5, <2>5 DEF x, y
<1>9. Last(Joined(x, y)) = Last(y)
  BY <1>6, <1>7, <1>8, LastOfConcat DEF Joined, x, y
<1> QED
  BY <1>4, <1>5, <1>9 DEF x, y

\* The spans of one trace.
LEMMA OnlyLasts ==
  ASSUME NEW rs \in Seq(Valid), NEW b, Lasts(rs, b), NEW u
  PROVE  Lasts(Only(rs, {s \in ToSet(rs) : s.tid = u}), b)
<1> DEFINE S == {s \in ToSet(rs) : s.tid = u}
           own == Only(rs, S)
<1> SUFFICES ASSUME NEW t, NEW i, NEW m, NEW C, C = Alike(t, i, m), Only(own, C) # <<>>
             PROVE  Last(Only(own, C)) = Last(Only(b, C))
  BY DEF Lasts
<1>1. Only(own, C) = Only(rs, S \cap C)
  BY OnlyOfOnly
<1>2. CASE t = u
  <2>1. (S \cap C) \cap ToSet(rs) = C \cap ToSet(rs)
    BY <1>2 DEF Alike
  <2>2. Only(rs, S \cap C) = Only(rs, C)
    BY <2>1, OnlySame
  <2> HIDE DEF own
  <2>3. Only(rs, C) # <<>>
    BY <1>1, <2>2
  <2>4. Last(Only(rs, C)) = Last(Only(b, C))
    BY <2>3 DEF Lasts
  <2> QED
    BY <1>1, <2>2, <2>4
<1>3. CASE t # u
  <2>1. ToSet(rs) \cap (S \cap C) = {}
    BY <1>3 DEF Alike
  <2>2. Only(rs, S \cap C) = <<>>
    BY <2>1, OnlyNone
  <2> HIDE DEF own
  <2> QED
    BY <1>1, <2>2
<1> QED
  BY <1>2, <1>3

\* The latest version of a span, and among those that start then the last.
LEMMA ByIDIs ==
  ASSUME NEW spans \in Seq(Valid), ByStart(spans), NEW t, \A s \in ToSet(spans) : s.tid = t, NEW b, Lasts(spans, b),
         NEW id \in Known(spans)
  PROVE  LET x == ByID(spans, id)
         IN  /\ x \in ToSet(spans) /\ x.id = id
             /\ \A s \in ToSet(spans) : s.id = id => s.start <= x.start
             /\ x = Last(Only(b, Alike(t, id, x.start)))
<1> DEFINE S == {s \in ToSet(spans) : s.id = id}
           own == Only(spans, S)
           x == Last(own)
           n == Len(own)
<1>1. own \in Seq(Valid) /\ ToSet(own) = ToSet(spans) \cap S
  BY OnlyIs
<1>2. ByStart(own)
  BY OnlyByStart
<1>3. ByID(spans, id) = x
  BY DEF ByID
<1>4. own # <<>>
  <2>1. PICK s \in ToSet(spans) : s.id = id
    BY DEF Known
  <2>2. s \in ToSet(own)
    BY <1>1, <2>1
  <2> HIDE DEF own
  <2> QED
    BY <2>2 DEF ToSet
<1> HIDE DEF own
<1>5. x \in ToSet(own) /\ x \in Valid /\ x = own[n] /\ n \in Nat \ {0} /\ \A k \in 1..n : own[k] \in Valid
  BY <1>1, <1>4, FrontAndLast DEF Last
<1>6. x \in ToSet(spans) /\ x.id = id
  BY <1>1, <1>5
<1>7. ASSUME NEW s \in ToSet(spans), s.id = id PROVE s.start <= x.start
  <2>1. s \in ToSet(own)
    BY <1>1, <1>7
  <2>2. PICK k \in 1..n : s = own[k]
    BY <1>1, <2>1 DEF ToSet
  <2>3. s.start \in Int /\ x.start \in Int
    BY <1>5, <2>2, ValidTimes
  <2>4. CASE k = n
    BY <1>5, <2>2, <2>3, <2>4
  <2>5. CASE k # n
    <3>1. k < n /\ n \in 1..n
      BY <1>5, <2>5
    <3>2. ~ Sooner(own[n], own[k])
      BY <1>2, <3>1 DEF ByStart
    <3> QED
      BY <1>5, <2>2, <2>3, <3>2 DEF Sooner
  <2> QED
    BY <2>4, <2>5
<1> DEFINE C == Alike(t, id, x.start)
<1>8. x \in C
  BY <1>5, <1>6 DEF Alike
<1> HIDE DEF x
<1>9. Only(own, C) # <<>> /\ Last(Only(own, C)) = x
  <2> HIDE DEF C
  <2> QED
    BY <1>1, <1>4, <1>8, LastOfOnly DEF x
<1>10. Only(own, C) = Only(spans, C)
  <2>1. Only(own, C) = Only(spans, S \cap C)
    <3> HIDE DEF S, C
    <3> QED
      BY OnlyOfOnly DEF own
  <2>2. (S \cap C) \cap ToSet(spans) = C \cap ToSet(spans)
    BY DEF Alike
  <2> HIDE DEF S, C
  <2>3. Only(spans, S \cap C) = Only(spans, C)
    BY <2>2, OnlySame
  <2> QED
    BY <2>1, <2>3
<1>11. Last(Only(spans, C)) = Last(Only(b, C))
  BY <1>9, <1>10 DEF Lasts
<1> QED
  BY <1>3, <1>6, <1>7, <1>9, <1>10, <1>11

\* Two answers hold the same version of a span under its id.
LEMMA ByIDOfCopies ==
  ASSUME NEW spans \in Seq(Valid), ByStart(spans), NEW more \in Seq(Valid), ByStart(more), ToSet(more) = ToSet(spans),
         NEW t, \A s \in ToSet(spans) : s.tid = t, NEW b, Lasts(spans, b), Lasts(more, b),
         NEW id \in Known(spans)
  PROVE  ByID(more, id) = ByID(spans, id)
<1> DEFINE x == ByID(spans, id)
           y == ByID(more, id)
<1>1. /\ x \in ToSet(spans) /\ x.id = id
      /\ \A s \in ToSet(spans) : s.id = id => s.start <= x.start
      /\ x = Last(Only(b, Alike(t, id, x.start)))
  BY SMTT(20), ByIDIs
<1>2. id \in Known(more) /\ \A s \in ToSet(more) : s.tid = t
  BY DEF Known
<1>3. /\ y \in ToSet(more) /\ y.id = id
      /\ \A s \in ToSet(more) : s.id = id => s.start <= y.start
      /\ y = Last(Only(b, Alike(t, id, y.start)))
  BY <1>2, ByIDIs
<1> HIDE DEF x, y
<1>4. \A s \in ToSet(spans) : s \in Valid
  BY DEF ToSet
<1>5. x.start <= y.start /\ y.start <= x.start /\ x.start \in Int /\ y.start \in Int
  BY <1>1, <1>3, <1>4, ValidTimes
<1>6. x.start = y.start
  BY <1>5
<1> QED
  BY <1>1, <1>3, <1>6 DEF x, y

-----------------------------------------------------------------------------
(* The bottlenecks of a list with copies *)

\* The order of the bottlenecks: by self time, then by service, then by id.
Heavier(b, c) ==
  \/ b.excl > c.excl
  \/ b.excl = c.excl /\ b.svc < c.svc
  \/ b.excl = c.excl /\ b.svc = c.svc /\ b.id < c.id

\* The same as a relation.
HeavierIn(R) == {bc \in R \X R : Heavier(bc[1], bc[2])}

\* What RankBottlenecks makes of every span, what it keeps of that, and the order it brings it to.
Entries(spans) ==
  [i \in DOMAIN spans |->
    [id |-> spans[i].id, svc |-> spans[i].svc, excl |-> SelfTimeNs(spans[i], Kids(spans, spans[i].id))]]

Busy(spans) == Only(Entries(spans), {b \in ToSet(Entries(spans)) : b.excl > 0})

Ranked(busy) == Sorted(busy, HeavierIn(ToSet(busy)))

\* RankBottlenecks, part by part.
LEMMA RankIsRanked ==
  ASSUME NEW spans
  PROVE  LET ranked == Ranked(Busy(spans))
         IN  RankBottlenecks(spans) = SubSeq(ranked, 1, Min({MaxBottlenecks, Len(ranked)}))
BY DEF RankBottlenecks, Ranked, Busy, Entries, HeavierIn, Heavier

\* Two entries that differ are told apart.
LEMMA HeavierIs ==
  ASSUME NEW R, R \subseteq Entry
  PROVE  /\ StrictOrder(HeavierIn(R), R)
         /\ \A x, y \in R : <<x, y>> \in HeavierIn(R) <=> Heavier(x, y)
         /\ \A x, y \in R : x = y \/ Heavier(x, y) \/ Heavier(y, x)
<1> DEFINE E == HeavierIn(R)
<1>1. \A x \in R : x.id \in Int /\ x.svc \in Int /\ x.excl \in Nat
  BY DEF Entry
<1>2. \A x, y \in R : <<x, y>> \in E <=> Heavier(x, y)
  BY DEF HeavierIn
<1> HIDE DEF E
<1>3. StrictOrder(E, R)
  <2>1. \A x \in R : <<x, x>> \notin E
    BY <1>1, <1>2 DEF Heavier
  <2>2. ASSUME NEW x \in R, NEW y \in R, NEW z \in R, <<x, y>> \in E, <<y, z>> \in E PROVE <<x, z>> \in E
    <3>1. Heavier(x, y) /\ Heavier(y, z)
      BY <1>2, <2>2
    <3>2. Heavier(x, z)
      BY <1>1, <3>1 DEF Heavier
    <3> QED
      BY <1>2, <3>2
  <2> QED
    BY <2>1, <2>2 DEF StrictOrder
<1>4. ASSUME NEW x \in R, NEW y \in R, ~ Heavier(x, y), ~ Heavier(y, x) PROVE x = y
  <2>1. x.id = y.id /\ x.svc = y.svc /\ x.excl = y.excl
    BY <1>1, <1>4 DEF Heavier
  <2>2. x \in Entry /\ y \in Entry
    OBVIOUS
  <2> QED
    BY <2>1, <2>2 DEF Entry
<1> QED
  BY <1>2, <1>3, <1>4 DEF E

\* Ranking sorts, and keeps the number of entries in any set.
LEMMA RankedIs ==
  ASSUME NEW busy \in Seq(Entry)
  PROVE  /\ Ranked(busy) \in Seq(Entry) /\ ToSet(Ranked(busy)) = ToSet(busy)
         /\ \A k, l \in 1..Len(Ranked(busy)) : k < l => ~ Heavier(Ranked(busy)[l], Ranked(busy)[k])
         /\ \A T : Cardinality(Places(Ranked(busy), T)) = Cardinality(Places(busy, T))
<1> DEFINE R == ToSet(busy)
           E == HeavierIn(R)
           v == Ranked(busy)
<1>1. v = Sorted(busy, E)
  BY DEF Ranked
<1>2. R \subseteq Entry /\ R \subseteq R
  BY DEF ToSet
<1> HIDE DEF v
<1>3. busy \in Seq(R)
  <2> HIDE DEF R
  <2> QED
    BY <1>2, ListOf DEF R
<1>4. StrictOrder(E, R) /\ \A x, y \in R : <<x, y>> \in E <=> Heavier(x, y)
  <2> HIDE DEF R
  <2> QED
    BY <1>2, HeavierIs
<1> HIDE DEF R, E
<1>5. v \in Seq(Entry) /\ v \in Seq(R) /\ ToSet(v) = ToSet(busy)
  BY <1>1, <1>3, SortedIs
<1>6. InLine(v, E)
  BY <1>1, <1>3, <1>4, SortedInLine
<1>7. ASSUME NEW k \in 1..Len(v), NEW l \in 1..Len(v), k < l PROVE ~ Heavier(v[l], v[k])
  <2>1. v[k] \in R /\ v[l] \in R
    BY <1>5
  <2>2. <<v[l], v[k]>> \notin E
    BY <1>6, <1>7 DEF InLine
  <2> QED
    BY <1>4, <2>1, <2>2
<1>8. \A T : Cardinality(Places(v, T)) = Cardinality(Places(busy, T))
  BY <1>1, SortedCounts
<1> QED
  BY <1>5, <1>7, <1>8 DEF v

\* The moments in which a span works alone do not depend on how often the spans are stored.
LEMMA EntriesAre ==
  ASSUME NEW spans \in Seq(Valid)
  PROVE  /\ Entries(spans) \in Seq(Entry) /\ Len(Entries(spans)) = Len(spans)
         /\ \A i \in 1..Len(spans) :
              Entries(spans)[i] = [id |-> spans[i].id, svc |-> spans[i].svc, excl |-> Alone(spans, spans[i])]
<1> DEFINE n == Len(spans)
           all == Entries(spans)
<1>1. n \in Nat /\ DOMAIN spans = 1..n /\ \A i \in 1..n : spans[i] \in Valid /\ spans[i] \in ToSet(spans)
  BY DEF ToSet
<1>2. \A i \in 1..n : /\ spans[i].id \in Int /\ spans[i].svc \in Int
                      /\ SelfTimeNs(spans[i], Kids(spans, spans[i].id)) = Alone(spans, spans[i])
                      /\ Alone(spans, spans[i]) \in Nat
  BY <1>1, ValidTimes, SelfTimeIs
<1>3. all = [i \in 1..n |-> [id |-> spans[i].id, svc |-> spans[i].svc,
                             excl |-> SelfTimeNs(spans[i], Kids(spans, spans[i].id))]]
  BY <1>1 DEF Entries
<1> HIDE DEF all
<1>4. ASSUME NEW i \in 1..n
      PROVE  /\ all[i] = [id |-> spans[i].id, svc |-> spans[i].svc, excl |-> Alone(spans, spans[i])]
             /\ all[i] \in Entry
  <2>1. all[i] = [id |-> spans[i].id, svc |-> spans[i].svc,
                  excl |-> SelfTimeNs(spans[i], Kids(spans, spans[i].id))]
    BY <1>3
  <2>2. all[i] = [id |-> spans[i].id, svc |-> spans[i].svc, excl |-> Alone(spans, spans[i])]
    BY <1>2, <2>1
  <2> QED
    BY <1>2, <2>2 DEF Entry
<1>5. all \in [1..n -> Entry]
  BY <1>3, <1>4
<1> QED
  BY <1>1, <1>4, <1>5 DEF all

\* Copies of spans have copies of their entries.
LEMMA BusyOfCopies ==
  ASSUME NEW spans \in Seq(Valid), NEW more \in Seq(Valid), WithCopies(spans, more)
  PROVE  Busy(spans) \in Seq(Entry) /\ Busy(more) \in Seq(Entry) /\ WithCopies(Busy(spans), Busy(more))
<1> DEFINE a == Entries(spans)
           b == Entries(more)
           F == [s \in ToSet(spans) |-> [id |-> s.id, svc |-> s.svc, excl |-> Alone(spans, s)]]
<1>1. ToSet(more) = ToSet(spans)
  BY SameElements
<1>2. \A s : Alone(more, s) = Alone(spans, s)
  BY <1>1 DEF Alone
<1>3. /\ a \in Seq(Entry) /\ Len(a) = Len(spans)
      /\ \A i \in 1..Len(spans) : a[i] = [id |-> spans[i].id, svc |-> spans[i].svc, excl |-> Alone(spans, spans[i])]
  BY EntriesAre
<1>4. /\ b \in Seq(Entry) /\ Len(b) = Len(more)
      /\ \A i \in 1..Len(more) : b[i] = [id |-> more[i].id, svc |-> more[i].svc, excl |-> Alone(more, more[i])]
  BY EntriesAre
<1> HIDE DEF a, b
<1>5. \A i \in 1..Len(spans) : a[i] = F[spans[i]]
  <2>1. \A i \in 1..Len(spans) : spans[i] \in ToSet(spans)
    BY DEF ToSet
  <2> QED
    BY <1>3, <2>1
<1>6. \A i \in 1..Len(more) : b[i] = F[more[i]]
  <2>1. \A i \in 1..Len(more) : more[i] \in ToSet(more)
    BY DEF ToSet
  <2>2. \A i \in 1..Len(more) : more[i] \in ToSet(spans)
    BY <1>1, <2>1
  <2> QED
    BY <1>2, <1>4, <2>2
<1> HIDE DEF F
<1>7. WithCopies(a, b)
  BY SMTT(20), <1>3, <1>4, <1>5, <1>6, MapWithCopies
<1> DEFINE T == {x \in ToSet(a) : x.excl > 0}
<1>8. ToSet(b) = ToSet(a)
  BY <1>3, <1>4, <1>7, SameElements
<1>9. Busy(spans) = Only(a, T) /\ Busy(more) = Only(b, T)
  BY <1>8 DEF Busy, a, b
<1> HIDE DEF T
<1>10. Only(a, T) \in Seq(Entry) /\ Only(b, T) \in Seq(Entry)
  BY <1>3, <1>4, OnlyIs
<1>11. WithCopies(Only(a, T), Only(b, T))
  BY <1>3, <1>4, <1>7, OnlyWithCopies
<1> QED
  BY <1>9, <1>10, <1>11

\* An entry that is listed with copies of the others before it is listed without them.
LEMMA RankOfCopies ==
  ASSUME NEW spans \in Seq(Valid), NEW more \in Seq(Valid), WithCopies(spans, more)
  PROVE  ToSet(RankBottlenecks(more)) \subseteq ToSet(RankBottlenecks(spans))
<1> DEFINE v == Ranked(Busy(spans))
           w == Ranked(Busy(more))
<1>1. Busy(spans) \in Seq(Entry) /\ Busy(more) \in Seq(Entry) /\ WithCopies(Busy(spans), Busy(more))
  BY BusyOfCopies
<1>2. /\ v \in Seq(Entry) /\ ToSet(v) = ToSet(Busy(spans))
      /\ \A k, l \in 1..Len(v) : k < l => ~ Heavier(v[l], v[k])
      /\ \A T : Cardinality(Places(v, T)) = Cardinality(Places(Busy(spans), T))
  BY <1>1, RankedIs
<1>3. /\ w \in Seq(Entry) /\ ToSet(w) = ToSet(Busy(more))
      /\ \A k, l \in 1..Len(w) : k < l => ~ Heavier(w[l], w[k])
      /\ \A T : Cardinality(Places(w, T)) = Cardinality(Places(Busy(more), T))
  BY <1>1, RankedIs
<1>4. ToSet(w) = ToSet(v)
  BY <1>1, <1>2, <1>3, SameElements
<1>5. RankBottlenecks(spans) = SubSeq(v, 1, Min({MaxBottlenecks, Len(v)}))
  BY RankIsRanked
<1>6. RankBottlenecks(more) = SubSeq(w, 1, Min({MaxBottlenecks, Len(w)}))
  BY RankIsRanked
<1>7. Len(v) \in Nat /\ Len(w) \in Nat /\ MaxBottlenecks \in Nat
  BY <1>2, <1>3, LimitsArePositive
<1> HIDE DEF v, w
<1>8. /\ Min({MaxBottlenecks, Len(v)}) = IF MaxBottlenecks <= Len(v) THEN MaxBottlenecks ELSE Len(v)
      /\ Min({MaxBottlenecks, Len(w)}) = IF MaxBottlenecks <= Len(w) THEN MaxBottlenecks ELSE Len(w)
  <2>1. ASSUME NEW x \in Nat
        PROVE  Min({MaxBottlenecks, x}) = IF MaxBottlenecks <= x THEN MaxBottlenecks ELSE x
    <3>1. MaxBottlenecks \in Int /\ x \in Int
      BY <1>7
    <3> QED
      BY <3>1, MaxOfTwo
  <2> QED
    BY <1>7, <2>1
<1> SUFFICES ASSUME NEW b \in ToSet(RankBottlenecks(more)) PROVE b \in ToSet(RankBottlenecks(spans))
  OBVIOUS
<1>9. PICK j \in 1..Len(w) : b = w[j] /\ j <= MaxBottlenecks
  <2>1. Min({MaxBottlenecks, Len(w)}) \in Nat /\ Min({MaxBottlenecks, Len(w)}) <= Len(w)
        /\ Min({MaxBottlenecks, Len(w)}) <= MaxBottlenecks
    BY <1>7, <1>8
  <2> DEFINE c == Min({MaxBottlenecks, Len(w)})
             top == SubSeq(w, 1, c)
  <2> HIDE DEF c
  <2>2. c \in Nat /\ c <= Len(w) /\ c <= MaxBottlenecks
    BY <2>1 DEF c
  <2>3. Len(top) = c /\ \A i \in 1..c : top[i] = w[i]
    BY <1>3, <1>7, <2>2
  <2>4. b \in ToSet(top)
    BY <1>6 DEF c
  <2> HIDE DEF top
  <2>5. top \in Seq(Entry)
    BY <1>3, <1>7, <2>2 DEF top
  <2>6. PICK i \in 1..c : b = top[i]
    BY <2>3, <2>4, <2>5 DEF ToSet
  <2>7. i \in 1..Len(w) /\ i <= MaxBottlenecks /\ b = w[i]
    BY <1>7, <2>2, <2>3, <2>6
  <2> QED
    BY <2>7
<1> DEFINE Q == {k \in Nat : k \in 1..Len(v) /\ v[k] = b}
<1>10. Q # {}
  <2>1. b \in ToSet(w)
    BY <1>9 DEF ToSet
  <2>2. b \in ToSet(v)
    BY <1>4, <2>1
  <2>3. PICK k \in 1..Len(v) : v[k] = b
    BY <1>2, <2>2 DEF ToSet
  <2> QED
    BY <1>7, <2>3
<1>11. PICK k \in Q : \A l \in Q : k <= l
  <2> HIDE DEF Q
  <2>1. Q \in SUBSET Nat
    BY DEF Q
  <2> QED
    BY <1>10, <2>1, MinOfNumbers
<1> DEFINE T == {c \in Entry : Heavier(c, b)}
<1>12. b \in Entry /\ \A i \in 1..Len(v) : v[i] \in Entry
  BY <1>2, <1>11
<1>13. 1..(k - 1) \subseteq Places(v, T)
  <2> SUFFICES ASSUME NEW l \in 1..(k - 1) PROVE l \in Places(v, T)
    OBVIOUS
  <2>1. l \in 1..Len(v) /\ l \in Nat /\ l < k /\ k \in 1..Len(v) /\ v[k] = b
    BY <1>7, <1>11
  <2>2. v[l] # b
    BY <1>11, <2>1
  <2>3. ~ Heavier(b, v[l])
    BY <1>2, <2>1
  <2>4. Heavier(v[l], b)
    <3>1. \A x, y \in Entry : x = y \/ Heavier(x, y) \/ Heavier(y, x)
      BY HeavierIs
    <3> QED
      BY <1>12, <2>1, <2>2, <2>3, <3>1
  <2> QED
    BY <1>2, <1>12, <2>1, <2>4 DEF Places
<1>14. Places(w, T) \subseteq 1..(j - 1)
  <2> SUFFICES ASSUME NEW l \in Places(w, T) PROVE l \in 1..(j - 1)
    OBVIOUS
  <2>1. l \in 1..Len(w) /\ Heavier(w[l], b)
    BY <1>3 DEF Places
  <2>2. l \in Nat /\ j \in Nat /\ l >= 1
    BY <1>7, <1>9, <2>1
  <2>3. ~ (j < l)
    BY <1>3, <1>9, <2>1
  <2>4. l # j
    <3>1. ~ Heavier(b, b)
      BY <1>12 DEF Heavier, Entry
    <3> QED
      BY <1>9, <2>1, <3>1
  <2> QED
    BY <2>2, <2>3, <2>4
<1> HIDE DEF T, Q
<1>15. Cardinality(Places(v, T)) <= Cardinality(Places(w, T)) /\ Cardinality(Places(v, T)) \in Nat /\ Cardinality(Places(w, T)) \in Nat
  <2>1. WithCopies(Only(Busy(spans), T), Only(Busy(more), T))
    BY <1>1, OnlyWithCopies
  <2>2. /\ Only(Busy(spans), T) \in Seq(Entry) /\ Len(Only(Busy(spans), T)) = Cardinality(Places(Busy(spans), T))
        /\ Only(Busy(more), T) \in Seq(Entry) /\ Len(Only(Busy(more), T)) = Cardinality(Places(Busy(more), T))
    BY <1>1, OnlyIs
  <2>3. /\ Len(Only(Busy(spans), T)) <= Len(Only(Busy(more), T))
        /\ Len(Only(Busy(spans), T)) \in Nat /\ Len(Only(Busy(more), T)) \in Nat
    BY <2>1, <2>2, SameElements
  <2> QED
    BY <1>2, <1>3, <2>2, <2>3
<1>16. k - 1 <= Cardinality(Places(v, T))
  <2>1. k - 1 \in Nat
    BY <1>11 DEF Q
  <2>2. IsFiniteSet(Places(v, T))
    BY <1>2, PlacesAreFinite
  <2>3. Cardinality(1..(k - 1)) = k - 1
    BY <2>1, UptoIsFinite
  <2>4. Cardinality(1..(k - 1)) <= Cardinality(Places(v, T))
    BY <1>13, <2>2, FS_Subset
  <2> QED
    BY <2>3, <2>4
<1>17. Cardinality(Places(w, T)) <= j - 1
  <2>1. j - 1 \in Nat
    BY <1>7, <1>9
  <2>2. IsFiniteSet(1..(j - 1)) /\ Cardinality(1..(j - 1)) = j - 1
    BY <2>1, UptoIsFinite
  <2>3. Cardinality(Places(w, T)) <= Cardinality(1..(j - 1))
    BY <1>14, <2>2, FS_Subset
  <2> QED
    BY <2>2, <2>3
<1>18. k \in 1..Len(v) /\ k <= MaxBottlenecks /\ v[k] = b
  <2>1. k \in Nat /\ k \in 1..Len(v) /\ v[k] = b /\ j \in Nat /\ j <= MaxBottlenecks
    BY <1>7, <1>9, <1>11 DEF Q
  <2>2. k - 1 <= j - 1
    BY <1>15, <1>16, <1>17, <2>1
  <2> QED
    BY <1>7, <2>1, <2>2
<1> DEFINE c == Min({MaxBottlenecks, Len(v)})
<1>19. c \in Nat /\ c <= Len(v) /\ k \in 1..c
  BY <1>7, <1>8, <1>18
<1> HIDE DEF c
<1> DEFINE top == SubSeq(v, 1, c)
<1>20. top \in Seq(Entry) /\ Len(top) = c /\ \A i \in 1..c : top[i] = v[i]
  BY <1>2, <1>7, <1>19
<1>21. b = top[k] /\ k \in 1..Len(top)
  BY <1>18, <1>19, <1>20
<1>22. b \in ToSet(top)
  BY <1>20, <1>21 DEF ToSet
<1> QED
  BY <1>5, <1>22 DEF c

-----------------------------------------------------------------------------
(* The waterfall of a list with copies *)

\* One visit after the other, a walk comes to its end.
LEMMA WalkEnds ==
  ASSUME NEW spans \in Seq(Valid), NEW list \in Seq(ToSet(spans)), Len(list) <= Len(spans),
         NEW old \in Seq(TreeRow(spans)),
         NEW f \in [0..Len(spans \o spans) -> WalkState(spans)], WalkRounds(f, spans, list, old)
  PROVE  f[Len(spans \o spans)].left = <<>>
<1> DEFINE n == Len(spans)
           N == Len(spans \o spans)
<1>1. n \in Nat /\ N = n + n /\ N \in Nat /\ Len(list) \in Nat
  BY ConcatProperties
<1>2. f[0] = [left |-> Rows(list, 0), laid |-> old] /\ \A i \in 1..N : f[i] = Visit(spans, f[i - 1])
  BY DEF WalkRounds
<1>3. f \in [0..N -> WalkState(spans)]
  OBVIOUS
<1> HIDE DEF N
<1> DEFINE P == {i \in 0..N : f[i].left = <<>> \/ Work(spans, f[i]) + i <= N}
<1>4. 0 \in P
  <2> DEFINE c == Cardinality(Waiting(spans, old))
             v == Rows(list, 0)
  <2>1. c \in Nat /\ c <= n
    BY PlacesAreFinite DEF Waiting
  <2>2. Len(v) = Len(list)
    BY RowsAre
  <2> HIDE DEF v
  <2>3. f[0].left = v /\ f[0].laid = old
    BY <1>2 DEF v
  <2>4. Work(spans, f[0]) = Len(list) + c
    BY <2>2, <2>3 DEF Work
  <2> HIDE DEF c
  <2> QED
    BY <1>1, <2>1, <2>4
<1>5. ASSUME NEW i \in 1..N, i - 1 \in P PROVE i \in P
  <2> DEFINE w == f[i - 1]
             v == Visit(spans, w)
  <2>1. f[i] = v /\ i \in 0..N /\ i \in Nat /\ w \in WalkState(spans)
    BY SMTT(20), <1>1, <1>2, <1>3
  <2>2. w.left = <<>> \/ Work(spans, w) + (i - 1) <= N
    BY <1>5
  <2> HIDE DEF w
  <2>3. CASE w.left = <<>>
    <3>1. v = w
      BY <2>1, <2>3, VisitIs DEF Skips, Takes
    <3> QED
      BY <2>1, <2>3, <3>1
  <2>4. CASE w.left # <<>>
    <3>1. v \in WalkState(spans)
      BY <2>1, VisitIs
    <3>2. Work(spans, v) < Work(spans, w) /\ Work(spans, w) \in Nat /\ Work(spans, v) \in Nat
      BY <2>1, <2>4, <3>1, VisitWorks
    <3> HIDE DEF v
    <3>3. Work(spans, v) + i <= N
      BY <1>1, <2>1, <2>2, <2>4, <3>2
    <3> QED
      BY <2>1, <3>3
  <2> QED
    BY <2>3, <2>4
<1>6. N \in P
  <2> HIDE DEF P
  <2>1. \A i \in 1..N : i - 1 \in P => i \in P
    BY <1>5
  <2>2. \A i \in 0..N : i \in P
    BY <1>1, <1>4, <2>1, Rounds, Zenon
  <2> QED
    BY <1>1, <2>2
<1> DEFINE w == f[N]
<1>7. w \in WalkState(spans) /\ (w.left = <<>> \/ Work(spans, w) + N <= N)
  BY <1>1, <1>3, <1>6
<1> HIDE DEF w
<1>8. Work(spans, w) \in Nat /\ Len(w.left) <= Work(spans, w)
  BY <1>7, VisitWorks
<1>9. w.left \in Seq(TreeRow(spans))
  BY <1>7 DEF WalkState
<1>10. ASSUME w.left # <<>> PROVE FALSE
  <2>1. Len(w.left) \in Nat \ {0}
    BY <1>9, <1>10, EmptySeq
  <2> QED
    BY <1>1, <1>7, <1>8, <1>10, <2>1
<1> QED
  BY <1>10 DEF w, N

\* What is left to visit, with rows put in whose ids are seen before they are reached.
EmbedsAt(at, left, more, seen) ==
  /\ at \in [1..Len(left) -> 1..Len(more)]
  /\ \A k, l \in 1..Len(left) : k < l => at[k] < at[l]
  /\ \A k \in 1..Len(left) : more[at[k]] = left[k]
  /\ \A j \in 1..Len(more) : \/ \E k \in 1..Len(left) : at[k] = j
                             \/ more[j].span.id \in seen
                             \/ \E i \in 1..(j - 1) : more[i].span.id = more[j].span.id

Embeds(left, more, seen) == \E at : EmbedsAt(at, left, more, seen)

\* v has what w has left, and such rows; and shows the same.
Trails(w, v) == v.laid = w.laid /\ Embeds(w.left, v.left, Seen(w.laid))

\* The rows of a list with copies.
LEMMA EmbedRows ==
  ASSUME NEW R, NEW list \in Seq(R), NEW more \in Seq(R), WithCopies(list, more), NEW depth, NEW seen
  PROVE  Embeds(Rows(list, depth), Rows(more, depth), seen)
<1> DEFINE n == Len(list)
           m == Len(more)
           v == Rows(list, depth)
           w == Rows(more, depth)
<1>1. PICK at : CopiesAt(at, list, more)
  BY DEF WithCopies
<1>2. /\ at \in [1..n -> 1..m] /\ \A k, l \in 1..n : k < l => at[k] < at[l]
      /\ \A k \in 1..n : more[at[k]] = list[k]
      /\ \A j \in 1..m : (\E k \in 1..n : at[k] = j) \/ \E i \in 1..(j - 1) : more[i] = more[j]
  BY <1>1 DEF CopiesAt
<1>3. n \in Nat /\ m \in Nat /\ DOMAIN list = 1..n /\ DOMAIN more = 1..m
  OBVIOUS
<1>4. /\ v = [i \in 1..n |-> [span |-> list[i], depth |-> depth]]
      /\ w = [i \in 1..m |-> [span |-> more[i], depth |-> depth]]
  BY <1>3 DEF Rows
<1> HIDE DEF v, w
<1>5. Len(v) = n /\ Len(w) = m
  BY <1>3, <1>4
<1> HIDE DEF n, m
<1>6. /\ \A i \in 1..n : v[i] = [span |-> list[i], depth |-> depth]
      /\ \A i \in 1..m : w[i] = [span |-> more[i], depth |-> depth]
  BY <1>4
<1>7. \A k \in 1..n : w[at[k]] = v[k]
  <2> SUFFICES ASSUME NEW k \in 1..n PROVE w[at[k]] = v[k]
    OBVIOUS
  <2>1. at[k] \in 1..m /\ more[at[k]] = list[k]
    BY <1>2
  <2> QED
    BY <1>6, <2>1
<1>8. ASSUME NEW j \in 1..m
      PROVE  (\E k \in 1..n : at[k] = j) \/ \E i \in 1..(j - 1) : w[i].span.id = w[j].span.id
  <2>1. CASE \E i \in 1..(j - 1) : more[i] = more[j]
    <3>1. PICK i \in 1..(j - 1) : more[i] = more[j]
      BY <2>1
    <3>2. i \in 1..m
      BY <1>3
    <3>3. w[i] = w[j]
      BY <1>6, <3>1, <3>2
    <3> QED
      BY <3>3
  <2> QED
    BY <1>2, <2>1
<1>9. EmbedsAt(at, v, w, seen)
  BY <1>2, <1>5, <1>7, <1>8 DEF EmbedsAt
<1> QED
  BY <1>9 DEF Embeds, v, w

\* The tails, once the first row of more is seen.
LEMMA EmbedTail ==
  ASSUME NEW R, NEW left \in Seq(R), NEW more \in Seq(R), more # <<>>, NEW at, NEW seen, EmbedsAt(at, left, more, seen),
         \A k \in 1..Len(left) : at[k] # 1, NEW next, seen \cup {more[1].span.id} \subseteq next
  PROVE  Embeds(left, Tail(more), next)
<1> DEFINE n == Len(left)
           m == Len(more)
           w == Tail(more)
<1>1. n \in Nat /\ m \in Nat \ {0} /\ Len(w) = m - 1 /\ \A i \in 1..(m - 1) : w[i] = more[i + 1]
  OBVIOUS
<1>2. /\ at \in [1..n -> 1..m] /\ \A k, l \in 1..n : k < l => at[k] < at[l]
      /\ \A k \in 1..n : more[at[k]] = left[k]
      /\ \A j \in 1..m : \/ \E k \in 1..n : at[k] = j
                         \/ more[j].span.id \in seen
                         \/ \E i \in 1..(j - 1) : more[i].span.id = more[j].span.id
      /\ \A k \in 1..n : at[k] # 1
  BY DEF EmbedsAt
<1> HIDE DEF n, m, w
<1> DEFINE to == [k \in 1..n |-> at[k] - 1]
<1>3. to \in [1..n -> 1..(m - 1)] /\ \A k \in 1..n : to[k] = at[k] - 1 /\ to[k] + 1 = at[k]
  <2>1. \A k \in 1..n : at[k] - 1 \in 1..(m - 1) /\ at[k] \in Int
    BY <1>1, <1>2
  <2> QED
    BY <2>1
<1> HIDE DEF to
<1>4. \A k, l \in 1..n : k < l => to[k] < to[l]
  <2> SUFFICES ASSUME NEW k \in 1..n, NEW l \in 1..n, k < l PROVE to[k] < to[l]
    OBVIOUS
  <2>1. at[k] < at[l]
    BY <1>2
  <2>2. \A i \in 1..n : at[i] \in Int
    BY <1>1, <1>2
  <2>3. to[k] = at[k] - 1 /\ to[l] = at[l] - 1
    BY <1>3
  <2> QED
    BY <2>1, <2>2, <2>3
<1>5. \A k \in 1..n : w[to[k]] = left[k]
  <2> SUFFICES ASSUME NEW k \in 1..n PROVE w[to[k]] = left[k]
    OBVIOUS
  <2>1. to[k] \in 1..(m - 1) /\ to[k] + 1 = at[k]
    BY <1>3
  <2> QED
    BY <1>1, <1>2, <2>1
<1>6. ASSUME NEW j \in 1..(m - 1)
      PROVE  \/ \E k \in 1..n : to[k] = j
             \/ w[j].span.id \in next
             \/ \E i \in 1..(j - 1) : w[i].span.id = w[j].span.id
  <2>1. j + 1 \in 1..m /\ w[j] = more[j + 1] /\ (j + 1) - 1 = j /\ j \in Int
    BY <1>1
  <2>2. CASE \E k \in 1..n : at[k] = j + 1
    <3>1. PICK k \in 1..n : at[k] = j + 1
      BY <2>2
    <3>2. to[k] = j
      BY <1>3, <2>1, <3>1
    <3> QED
      BY <3>2
  <2>3. CASE more[j + 1].span.id \in seen
    BY <2>1, <2>3
  <2>4. CASE \E i \in 1..j : more[i].span.id = more[j + 1].span.id
    <3>1. PICK i \in 1..j : more[i].span.id = more[j + 1].span.id
      BY <2>4
    <3>2. CASE i = 1
      BY <2>1, <3>1, <3>2
    <3>3. CASE i # 1
      <4>1. i - 1 \in 1..(j - 1) /\ i - 1 \in 1..(m - 1) /\ (i - 1) + 1 = i
        BY <1>1, <2>1, <3>3
      <4>2. w[i - 1] = more[i]
        BY <1>1, <4>1
      <4> QED
        BY <2>1, <3>1, <4>1, <4>2
    <3> QED
      BY <3>2, <3>3
  <2> QED
    BY <1>2, <2>1, <2>2, <2>3, <2>4
<1>7. EmbedsAt(to, left, w, next)
  BY <1>1, <1>3, <1>4, <1>5, <1>6 DEF EmbedsAt, n
<1> QED
  BY <1>7 DEF Embeds, w

\* The row that is visited next is the same.
LEMMA EmbedTails ==
  ASSUME NEW R, NEW left \in Seq(R), NEW more \in Seq(R), NEW at, NEW seen, EmbedsAt(at, left, more, seen),
         NEW k \in 1..Len(left), at[k] = 1, NEW next, seen \cup {more[1].span.id} \subseteq next
  PROVE  /\ left # <<>> /\ more # <<>> /\ left[1] = more[1]
         /\ Embeds(Tail(left), Tail(more), next)
<1> DEFINE n == Len(left)
           m == Len(more)
           v == Tail(left)
           w == Tail(more)
<1>1. n \in Nat /\ m \in Nat /\ k \in 1..n
  OBVIOUS
<1>2. /\ at \in [1..n -> 1..m] /\ \A i, l \in 1..n : i < l => at[i] < at[l]
      /\ \A i \in 1..n : more[at[i]] = left[i]
      /\ \A j \in 1..m : \/ \E i \in 1..n : at[i] = j
                         \/ more[j].span.id \in seen
                         \/ \E i \in 1..(j - 1) : more[i].span.id = more[j].span.id
  BY DEF EmbedsAt
<1>3. k = 1
  <2> SUFFICES ASSUME k # 1 PROVE FALSE
    OBVIOUS
  <2>1. 1 \in 1..n /\ 1 < k
    BY <1>1
  <2>2. at[1] < at[k] /\ at[1] \in 1..m
    BY <1>2, <2>1
  <2> QED
    BY <2>2
<1>4. n >= 1 /\ m >= 1 /\ at[1] = 1 /\ left # <<>> /\ more # <<>> /\ left[1] = more[1]
  <2>1. at[1] \in 1..m /\ 1 \in 1..n /\ at[1] = 1
    BY <1>1, <1>2, <1>3
  <2>2. n >= 1 /\ m >= 1
    BY <1>1, <2>1
  <2>3. left[1] = more[1]
    BY <1>2, <2>1
  <2> QED
    BY <2>1, <2>2, <2>3
<1>5. /\ Len(v) = n - 1 /\ \A i \in 1..(n - 1) : v[i] = left[i + 1]
      /\ Len(w) = m - 1 /\ \A i \in 1..(m - 1) : w[i] = more[i + 1]
  BY <1>4
<1> HIDE DEF n, m, v, w
<1> DEFINE to == [i \in 1..(n - 1) |-> at[i + 1] - 1]
<1>6. \A i \in 1..(n - 1) : i + 1 \in 1..n /\ at[i + 1] \in 2..m
  <2> SUFFICES ASSUME NEW i \in 1..(n - 1) PROVE i + 1 \in 1..n /\ at[i + 1] \in 2..m
    OBVIOUS
  <2>1. i + 1 \in 1..n /\ 1 \in 1..n /\ 1 < i + 1
    BY <1>1, <1>4
  <2>2. at[1] < at[i + 1] /\ at[i + 1] \in 1..m
    BY <1>2, <2>1
  <2> QED
    BY <1>1, <1>4, <2>1, <2>2
<1>7. to \in [1..(n - 1) -> 1..(m - 1)] /\ \A i \in 1..(n - 1) : to[i] = at[i + 1] - 1 /\ to[i] + 1 = at[i + 1]
  <2>1. \A i \in 1..(n - 1) : at[i + 1] - 1 \in 1..(m - 1) /\ at[i + 1] \in Int
    BY <1>1, <1>6
  <2> QED
    BY <2>1
<1> HIDE DEF to
<1>8. \A i, l \in 1..(n - 1) : i < l => to[i] < to[l]
  <2> SUFFICES ASSUME NEW i \in 1..(n - 1), NEW l \in 1..(n - 1), i < l PROVE to[i] < to[l]
    OBVIOUS
  <2>1. i + 1 \in 1..n /\ l + 1 \in 1..n /\ i + 1 < l + 1 /\ at[i + 1] \in Int /\ at[l + 1] \in Int
    BY <1>1, <1>6
  <2>2. at[i + 1] < at[l + 1] /\ to[i] = at[i + 1] - 1 /\ to[l] = at[l + 1] - 1
    BY <1>2, <1>7, <2>1
  <2> QED
    BY <2>1, <2>2
<1>9. \A i \in 1..(n - 1) : w[to[i]] = v[i]
  <2> SUFFICES ASSUME NEW i \in 1..(n - 1) PROVE w[to[i]] = v[i]
    OBVIOUS
  <2>1. to[i] \in 1..(m - 1) /\ to[i] + 1 = at[i + 1] /\ i + 1 \in 1..n
    BY <1>6, <1>7
  <2>2. w[to[i]] = more[at[i + 1]] /\ v[i] = left[i + 1]
    BY <1>5, <2>1
  <2> QED
    BY <1>2, <2>1, <2>2
<1>10. ASSUME NEW j \in 1..(m - 1)
       PROVE  \/ \E i \in 1..(n - 1) : to[i] = j
              \/ w[j].span.id \in next
              \/ \E i \in 1..(j - 1) : w[i].span.id = w[j].span.id
  <2>1. j + 1 \in 1..m /\ w[j] = more[j + 1] /\ (j + 1) - 1 = j /\ j \in Int /\ j + 1 # 1
    BY <1>1, <1>5
  <2>2. CASE \E i \in 1..n : at[i] = j + 1
    <3>1. PICK i \in 1..n : at[i] = j + 1
      BY <2>2
    <3>2. i # 1
      BY <1>4, <2>1, <3>1
    <3>3. i - 1 \in 1..(n - 1) /\ (i - 1) + 1 = i
      BY <1>1, <3>2
    <3>4. to[i - 1] = j
      BY <1>7, <2>1, <3>1, <3>3
    <3> QED
      BY <3>3, <3>4
  <2>3. CASE more[j + 1].span.id \in seen
    BY <2>1, <2>3
  <2>4. CASE \E i \in 1..j : more[i].span.id = more[j + 1].span.id
    <3>1. PICK i \in 1..j : more[i].span.id = more[j + 1].span.id
      BY <2>4
    <3>2. CASE i = 1
      BY <2>1, <3>1, <3>2
    <3>3. CASE i # 1
      <4>1. i - 1 \in 1..(j - 1) /\ i - 1 \in 1..(m - 1) /\ (i - 1) + 1 = i
        BY <1>1, <2>1, <3>3
      <4>2. w[i - 1] = more[i]
        BY <1>5, <4>1
      <4> QED
        BY <2>1, <3>1, <4>1, <4>2
    <3> QED
      BY <3>2, <3>3
  <2> QED
    BY <1>2, <2>1, <2>2, <2>3, <2>4
<1>11. EmbedsAt(to, v, w, next)
  BY <1>5, <1>7, <1>8, <1>9, <1>10 DEF EmbedsAt
<1> QED
  BY <1>4, <1>11 DEF Embeds, v, w

\* What two lists, one after the other, hold.
LEMMA JoinedIs ==
  ASSUME NEW R, NEW x \in Seq(R), NEW y \in Seq(R)
  PROVE  /\ Joined(x, y) \in Seq(R) /\ Len(Joined(x, y)) = Len(x) + Len(y)
         /\ \A k \in 1..(Len(x) + Len(y)) : Joined(x, y)[k] = IF k <= Len(x) THEN x[k] ELSE y[k - Len(x)]
BY ConcatProperties DEF Joined

\* Rows put in to each of two lists.
LEMMA EmbedJoined ==
  ASSUME NEW R, NEW x \in Seq(R), NEW y \in Seq(R), NEW xs \in Seq(R), NEW ys \in Seq(R), NEW seen,
         Embeds(x, xs, seen), Embeds(y, ys, seen)
  PROVE  Embeds(Joined(x, y), Joined(xs, ys), seen)
<1> DEFINE p == Len(x)
           q == Len(y)
           r == Len(xs)
           s == Len(ys)
           v == Joined(x, y)
           w == Joined(xs, ys)
<1>1. PICK a : EmbedsAt(a, x, xs, seen)
  BY DEF Embeds
<1>2. PICK b : EmbedsAt(b, y, ys, seen)
  BY DEF Embeds
<1>3. /\ a \in [1..p -> 1..r] /\ \A k, l \in 1..p : k < l => a[k] < a[l]
      /\ \A k \in 1..p : xs[a[k]] = x[k]
      /\ \A j \in 1..r : \/ \E k \in 1..p : a[k] = j
                         \/ xs[j].span.id \in seen
                         \/ \E i \in 1..(j - 1) : xs[i].span.id = xs[j].span.id
  BY <1>1 DEF EmbedsAt
<1>4. /\ b \in [1..q -> 1..s] /\ \A k, l \in 1..q : k < l => b[k] < b[l]
      /\ \A k \in 1..q : ys[b[k]] = y[k]
      /\ \A j \in 1..s : \/ \E k \in 1..q : b[k] = j
                         \/ ys[j].span.id \in seen
                         \/ \E i \in 1..(j - 1) : ys[i].span.id = ys[j].span.id
  BY <1>2 DEF EmbedsAt
<1>5. p \in Nat /\ q \in Nat /\ r \in Nat /\ s \in Nat
  OBVIOUS
<1>6. /\ Len(v) = p + q /\ \A k \in 1..(p + q) : v[k] = IF k <= p THEN x[k] ELSE y[k - p]
      /\ Len(w) = r + s /\ \A k \in 1..(r + s) : w[k] = IF k <= r THEN xs[k] ELSE ys[k - r]
  BY JoinedIs
<1> HIDE DEF p, q, r, s, v, w
<1> DEFINE at == [k \in 1..(p + q) |-> IF k <= p THEN a[k] ELSE r + b[k - p]]
<1>7. /\ at \in [1..(p + q) -> 1..(r + s)]
      /\ \A k \in 1..p : k \in 1..(p + q) /\ at[k] = a[k] /\ a[k] \in 1..r
      /\ \A k \in 1..(p + q) : k \notin 1..p => at[k] = r + b[k - p] /\ k - p \in 1..q /\ b[k - p] \in 1..s
  <2>1. \A k \in 1..(p + q) : k \notin 1..p => k - p \in 1..q /\ b[k - p] \in 1..s /\ ~ (k <= p)
    BY <1>4, <1>5
  <2>2. \A k \in 1..p : k \in 1..(p + q) /\ k <= p /\ a[k] \in 1..r
    BY <1>3, <1>5
  <2>3. \A k \in 1..(p + q) : (IF k <= p THEN a[k] ELSE r + b[k - p]) \in 1..(r + s)
    <3> SUFFICES ASSUME NEW k \in 1..(p + q) PROVE (IF k <= p THEN a[k] ELSE r + b[k - p]) \in 1..(r + s)
      OBVIOUS
    <3>1. CASE k \in 1..p
      BY <1>5, <2>2, <3>1
    <3>2. CASE k \notin 1..p
      BY <1>5, <2>1, <3>2
    <3> QED
      BY <3>1, <3>2
  <2> QED
    BY <2>1, <2>2, <2>3
<1> HIDE DEF at
<1>8. \A k, l \in 1..(p + q) : k < l => at[k] < at[l]
  <2> SUFFICES ASSUME NEW k \in 1..(p + q), NEW l \in 1..(p + q), k < l PROVE at[k] < at[l]
    OBVIOUS
  <2>1. CASE l \in 1..p
    <3>1. k \in 1..p
      BY <1>5, <2>1
    <3> QED
      BY <1>3, <1>7, <2>1, <3>1
  <2>2. CASE k \in 1..p /\ l \notin 1..p
    <3>1. at[k] \in 1..r /\ at[l] = r + b[l - p] /\ b[l - p] \in 1..s
      BY <1>7, <2>2
    <3> QED
      BY <1>5, <3>1
  <2>3. CASE k \notin 1..p /\ l \notin 1..p
    <3>1. /\ at[k] = r + b[k - p] /\ k - p \in 1..q /\ b[k - p] \in 1..s
          /\ at[l] = r + b[l - p] /\ l - p \in 1..q /\ b[l - p] \in 1..s
      BY <1>7, <2>3
    <3>2. k - p < l - p
      BY <1>5
    <3>3. b[k - p] < b[l - p]
      BY <1>4, <3>1, <3>2
    <3> QED
      BY <1>5, <3>1, <3>3
  <2> QED
    BY <2>1, <2>2, <2>3
<1>9. \A k \in 1..(p + q) : w[at[k]] = v[k]
  <2> SUFFICES ASSUME NEW k \in 1..(p + q) PROVE w[at[k]] = v[k]
    OBVIOUS
  <2>1. CASE k \in 1..p
    <3>1. at[k] = a[k] /\ a[k] \in 1..r /\ a[k] \in 1..(r + s) /\ a[k] <= r /\ k <= p
      BY <1>5, <1>7, <2>1
    <3> QED
      BY <1>3, <1>6, <2>1, <3>1
  <2>2. CASE k \notin 1..p
    <3>1. at[k] = r + b[k - p] /\ k - p \in 1..q /\ b[k - p] \in 1..s
      BY <1>7, <2>2
    <3>2. at[k] \in 1..(r + s) /\ ~ (at[k] <= r) /\ at[k] - r = b[k - p] /\ ~ (k <= p)
      BY <1>5, <2>2, <3>1
    <3>3. w[at[k]] = ys[b[k - p]] /\ v[k] = y[k - p]
      BY <1>6, <3>2
    <3> QED
      BY <1>4, <3>1, <3>3
  <2> QED
    BY <2>1, <2>2
<1>10. ASSUME NEW j \in 1..(r + s)
       PROVE  \/ \E k \in 1..(p + q) : at[k] = j
              \/ w[j].span.id \in seen
              \/ \E i \in 1..(j - 1) : w[i].span.id = w[j].span.id
  <2>1. CASE j <= r
    <3>1. j \in 1..r /\ w[j] = xs[j]
      BY <1>5, <1>6, <2>1
    <3>2. CASE \E k \in 1..p : a[k] = j
      BY <1>7, <3>2
    <3>3. CASE xs[j].span.id \in seen
      BY <3>1, <3>3
    <3>4. CASE \E i \in 1..(j - 1) : xs[i].span.id = xs[j].span.id
      <4>1. PICK i \in 1..(j - 1) : xs[i].span.id = xs[j].span.id
        BY <3>4
      <4>2. i \in 1..(r + s) /\ i <= r
        BY <1>5, <2>1
      <4>3. w[i] = xs[i]
        BY <1>6, <4>2
      <4> QED
        BY <3>1, <4>1, <4>3
    <3> QED
      BY <1>3, <3>1, <3>2, <3>3, <3>4
  <2>2. CASE ~ (j <= r)
    <3>1. j - r \in 1..s /\ w[j] = ys[j - r]
      BY <1>5, <1>6, <2>2
    <3>2. CASE \E k \in 1..q : b[k] = j - r
      <4>1. PICK k \in 1..q : b[k] = j - r
        BY <3>2
      <4>2. p + k \in 1..(p + q) /\ p + k \notin 1..p /\ (p + k) - p = k
        BY <1>5
      <4>3. at[p + k] = r + b[k]
        BY <1>7, <4>2
      <4>4. at[p + k] = j
        BY <1>5, <4>1, <4>3
      <4> QED
        BY <4>2, <4>4
    <3>3. CASE ys[j - r].span.id \in seen
      BY <3>1, <3>3
    <3>4. CASE \E i \in 1..((j - r) - 1) : ys[i].span.id = ys[j - r].span.id
      <4>1. PICK i \in 1..((j - r) - 1) : ys[i].span.id = ys[j - r].span.id
        BY <3>4
      <4>2. r + i \in 1..(r + s) /\ ~ (r + i <= r) /\ (r + i) - r = i /\ r + i \in 1..(j - 1)
        BY <1>5, <2>2
      <4>3. w[r + i] = ys[i]
        BY <1>6, <4>2
      <4> QED
        BY <3>1, <4>1, <4>2, <4>3
    <3> QED
      BY <1>4, <3>1, <3>2, <3>3, <3>4
  <2> QED
    BY <2>1, <2>2
<1>11. EmbedsAt(at, v, w, seen)
  BY <1>6, <1>7, <1>8, <1>9, <1>10 DEF EmbedsAt
<1> QED
  BY <1>11 DEF Embeds, v, w

\* More rows seen.
LEMMA EmbedSeen ==
  ASSUME NEW left, NEW more, NEW seen, NEW next, Embeds(left, more, seen), seen \subseteq next
  PROVE  Embeds(left, more, next)
BY DEF Embeds, EmbedsAt

\* The spans come in order, so that children needs no sorting, and copies stay copies.
LEMMA ChildrenOfCopies ==
  ASSUME NEW spans \in Seq(Valid), ByStart(spans), NEW more \in Seq(Valid), ByStart(more), WithCopies(spans, more), NEW id
  PROVE  WithCopies(Children(spans, id), Children(more, id))
<1>1. Kids(spans, id) \in Seq(Valid) /\ Kids(more, id) \in Seq(Valid)
  BY TreeLists
<1>2. ByStart(Kids(spans, id)) /\ ByStart(Kids(more, id))
  BY OnlyByStart DEF Kids
<1>3. Children(spans, id) = Kids(spans, id) /\ Children(more, id) = Kids(more, id)
  BY <1>1, <1>2, OrderedStays DEF Children
<1> QED
  BY <1>3, TreeOfCopies

\* Copies(spans, more): two answers for one trace.
Copied(spans, more) ==
  /\ spans \in Seq(Valid) /\ ByStart(spans)
  /\ more \in Seq(Valid) /\ ByStart(more)
  /\ WithCopies(spans, more)

\* A list with copies has the same rows to show.
LEMMA SameStates ==
  ASSUME NEW spans, NEW more, Copied(spans, more)
  PROVE  TreeRow(more) = TreeRow(spans) /\ WalkState(more) = WalkState(spans)
<1>1. ToSet(more) = ToSet(spans)
  BY SameElements DEF Copied
<1> QED
  BY <1>1 DEF TreeRow, WalkState

\* The walk of the list with copies takes a step of the other walk, or skips a copy.
LEMMA VisitTrails ==
  ASSUME NEW spans, NEW more, Copied(spans, more), NEW w \in WalkState(spans), NEW v \in WalkState(spans), Trails(w, v)
  PROVE  \/ Trails(w, Visit(more, v))
         \/ w.left # <<>> /\ Trails(Visit(spans, w), Visit(more, v))
<1> DEFINE R == TreeRow(spans)
           seen == Seen(w.laid)
<1>1. /\ w.left \in Seq(R) /\ w.laid \in Seq(R) /\ v.left \in Seq(R) /\ v.laid = w.laid
      /\ v \in WalkState(more) /\ spans \in Seq(Valid) /\ more \in Seq(Valid)
  BY SameStates DEF WalkState, Trails, Copied
<1>2. PICK at : EmbedsAt(at, w.left, v.left, seen)
  BY DEF Trails, Embeds
<1>3. CASE v.left = <<>>
  <2>1. Visit(more, v) = v
    BY <1>1, <1>3, VisitIs DEF Skips, Takes
  <2> QED
    BY <2>1
<1>4. CASE v.left # <<>> /\ \A k \in 1..Len(w.left) : at[k] # 1
  <2>1. v.left[1].span.id \in seen
    <3>1. 1 \in 1..Len(v.left) /\ 1..(1 - 1) = {}
      BY <1>1, <1>4
    <3> QED
      BY <1>2, <1>4, <3>1 DEF EmbedsAt
  <2>2. Visit(more, v) = [left |-> Tail(v.left), laid |-> v.laid]
    <3>1. ~ Takes(more, v)
      BY <1>1, <2>1 DEF Takes
    <3> QED
      BY <1>1, <1>4, <3>1, VisitIs DEF Skips
  <2>3. seen \cup {v.left[1].span.id} \subseteq seen
    BY <2>1
  <2>4. Embeds(w.left, Tail(v.left), seen)
    BY <1>1, <1>2, <1>4, <2>3, EmbedTail
  <2>5. Visit(more, v).left = Tail(v.left) /\ Visit(more, v).laid = w.laid
    BY <1>1, <2>2
  <2> QED
    BY <2>4, <2>5 DEF Trails
<1>5. CASE v.left # <<>> /\ \E k \in 1..Len(w.left) : at[k] = 1
  <2>1. PICK k \in 1..Len(w.left) : at[k] = 1
    BY <1>5
  <2> DEFINE next == seen \cup {v.left[1].span.id}
  <2>2. seen \cup {v.left[1].span.id} \subseteq next
    OBVIOUS
  <2>3. w.left # <<>> /\ w.left[1] = v.left[1] /\ Embeds(Tail(w.left), Tail(v.left), next)
    <3> DEFINE x == w.left
               y == v.left
    <3>1. x \in Seq(R) /\ y \in Seq(R) /\ EmbedsAt(at, x, y, seen) /\ k \in 1..Len(x) /\ at[k] = 1
      BY <1>1, <1>2, <2>1
    <3>2. seen \cup {y[1].span.id} \subseteq next
      OBVIOUS
    <3> HIDE DEF next, x, y, seen, R
    <3>3. /\ x # <<>> /\ y # <<>> /\ x[1] = y[1]
          /\ Embeds(Tail(x), Tail(y), next)
      BY <3>1, <3>2, EmbedTails
    <3> QED
      BY <3>3 DEF x, y
  <2> DEFINE row == w.left[1]
  <2>4. row \in R /\ Tail(w.left) \in Seq(R) /\ Tail(v.left) \in Seq(R)
    BY <1>1, <1>5, <2>3
  <2>5. CASE row.span.id \in seen
    <3>1. next = seen
      BY <2>3, <2>5
    <3>2. Visit(spans, w) = [left |-> Tail(w.left), laid |-> w.laid]
      <4>1. ~ Takes(spans, w)
        BY <2>5 DEF Takes
      <4> QED
        BY <1>1, <2>3, <4>1, VisitIs DEF Skips
    <3>3. Visit(more, v) = [left |-> Tail(v.left), laid |-> v.laid]
      <4>1. ~ Takes(more, v)
        BY <1>1, <2>3, <2>5 DEF Takes
      <4> QED
        BY <1>1, <1>5, <4>1, VisitIs DEF Skips
    <3>4. /\ Visit(spans, w).left = Tail(w.left) /\ Visit(spans, w).laid = w.laid
          /\ Visit(more, v).left = Tail(v.left) /\ Visit(more, v).laid = w.laid
      BY <1>1, <3>2, <3>3
    <3>5. Embeds(Tail(w.left), Tail(v.left), Seen(w.laid))
      BY <2>3, <3>1
    <3>6. Trails(Visit(spans, w), Visit(more, v))
      BY <3>4, <3>5 DEF Trails
    <3> QED
      BY <2>3, <3>6
  <2>6. CASE row.span.id \notin seen
    <3> DEFINE a == Rows(Children(spans, row.span.id), row.depth + 1)
               b == Rows(Children(more, row.span.id), row.depth + 1)
               laids == Append(w.laid, row)
    <3>1. Visit(spans, w) = [left |-> Joined(a, Tail(w.left)), laid |-> laids]
      <4>1. ~ Skips(spans, w)
        BY <2>6 DEF Skips
      <4> QED
        BY <1>1, <2>3, <4>1, VisitIs DEF Takes, Joined
    <3>2. Visit(more, v) = [left |-> Joined(b, Tail(v.left)), laid |-> laids]
      <4>1. ~ Skips(more, v)
        BY <1>1, <2>3, <2>6 DEF Skips
      <4> QED
        BY <1>1, <1>5, <2>3, <4>1, VisitIs DEF Takes, Joined
    <3>3. Seen(laids) = next
      BY <1>1, <2>3, <2>4, SeenAppend
    <3>4. row.depth + 1 \in Nat
      BY <2>4 DEF TreeRow
    <3>5. /\ Children(spans, row.span.id) \in Seq(ToSet(spans))
          /\ Children(more, row.span.id) \in Seq(ToSet(more))
          /\ WithCopies(Children(spans, row.span.id), Children(more, row.span.id))
      BY <1>1, ChildrenAre, ChildrenOfCopies DEF Copied
    <3>6. ToSet(more) = ToSet(spans) /\ TreeRow(more) = R
      BY SameElements, SameStates DEF Copied
    <3>7. a \in Seq(R) /\ b \in Seq(R)
      BY <1>1, <3>4, <3>5, <3>6, RowsAre
    <3>8. Embeds(a, b, next)
      <4> DEFINE x == Children(spans, row.span.id)
                 y == Children(more, row.span.id)
                 d == row.depth + 1
      <4>1. x \in Seq(ToSet(spans)) /\ y \in Seq(ToSet(spans)) /\ WithCopies(x, y)
        BY <3>5, <3>6
      <4> HIDE DEF x, y, d, next
      <4>2. Embeds(Rows(x, d), Rows(y, d), next)
        BY <4>1, EmbedRows
      <4> QED
        BY <4>2 DEF x, y, d
    <3> HIDE DEF a, b, laids, next
    <3>9. Embeds(Joined(a, Tail(w.left)), Joined(b, Tail(v.left)), next)
      BY <2>3, <2>4, <3>7, <3>8, EmbedJoined
    <3>10. Trails(Visit(spans, w), Visit(more, v))
      BY <3>1, <3>2, <3>3, <3>9 DEF Trails
    <3> QED
      BY <2>3, <3>10
  <2> QED
    BY <2>5, <2>6
<1> QED
  BY <1>3, <1>4, <1>5

\* From rows laid out before, the walk of a list with copies ends with the same rows.
LEMMA WalkOfCopies ==
  ASSUME NEW spans, NEW more, Copied(spans, more),
         NEW list \in Seq(ToSet(spans)), Len(list) <= Len(spans),
         NEW longer \in Seq(ToSet(spans)), Len(longer) <= Len(more), WithCopies(list, longer),
         NEW old \in Seq(TreeRow(spans))
  PROVE  Walk(more, longer, old) = Walk(spans, list, old)
<1> DEFINE N == Len(spans \o spans)
           M == Len(more \o more)
           S == WalkState(spans)
<1>1. /\ spans \in Seq(Valid) /\ more \in Seq(Valid)
      /\ ToSet(more) = ToSet(spans) /\ TreeRow(more) = TreeRow(spans) /\ WalkState(more) = S
  BY SameElements, SameStates DEF Copied
<1>2. N \in Nat /\ M \in Nat
  BY <1>1, ConcatProperties
<1>3. PICK f \in [0..N -> S] : WalkRounds(f, spans, list, old) /\ Walks(spans, list, old) = f[N]
  BY <1>1, WalkLoop
<1>4. longer \in Seq(ToSet(more)) /\ old \in Seq(TreeRow(more))
  BY <1>1
<1>5. PICK g \in [0..M -> S] : WalkRounds(g, more, longer, old) /\ Walks(more, longer, old) = g[M]
  BY <1>1, <1>4, WalkLoop
<1>6. f[N].left = <<>>
  BY <1>1, <1>3, WalkEnds
<1>7. g[M].left = <<>>
  BY <1>1, <1>4, <1>5, WalkEnds
<1>8. f[0] = [left |-> Rows(list, 0), laid |-> old] /\ \A i \in 1..N : f[i] = Visit(spans, f[i - 1])
  BY <1>3 DEF WalkRounds
<1>9. g[0] = [left |-> Rows(longer, 0), laid |-> old] /\ \A i \in 1..M : g[i] = Visit(more, g[i - 1])
  BY <1>5 DEF WalkRounds
<1>10. \A i \in 0..N : f[i] \in S
  BY <1>3
<1>11. \A i \in 0..M : g[i] \in S
  BY <1>5
<1>12. Walk(spans, list, old) = f[N].laid /\ Walk(more, longer, old) = g[M].laid
  BY <1>3, <1>5 DEF Walk, Walks
<1> HIDE DEF N, M
<1> DEFINE P == {i \in 0..M : \E c \in 0..N : Trails(f[c], g[i])}
<1>13. 0 \in P
  <2>1. Embeds(Rows(list, 0), Rows(longer, 0), Seen(old))
    BY EmbedRows
  <2>2. f[0].left = Rows(list, 0) /\ f[0].laid = old /\ g[0].left = Rows(longer, 0) /\ g[0].laid = old
    BY <1>8, <1>9
  <2>3. Trails(f[0], g[0])
    BY <2>1, <2>2 DEF Trails
  <2> QED
    BY <1>2, <2>3
<1>14. ASSUME NEW i \in 1..M, i - 1 \in P PROVE i \in P
  <2>1. i - 1 \in 0..M /\ i \in 0..M
    BY <1>2
  <2>2. PICK c \in 0..N : Trails(f[c], g[i - 1])
    BY <1>14
  <2>3. f[c] \in S /\ g[i - 1] \in S /\ g[i] = Visit(more, g[i - 1])
    BY <1>9, <1>10, <1>11, <2>1
  <2>4. CASE Trails(f[c], g[i])
    BY <2>1, <2>4
  <2>5. CASE f[c].left # <<>> /\ Trails(Visit(spans, f[c]), g[i])
    <3>1. c # N
      BY <1>6, <2>5
    <3>2. c + 1 \in 1..N /\ c + 1 \in 0..N /\ (c + 1) - 1 = c
      BY <1>2, <3>1
    <3>3. f[c + 1] = Visit(spans, f[c])
      BY <1>8, <3>2
    <3> QED
      BY <2>1, <2>5, <3>2, <3>3
  <2> QED
    BY <2>2, <2>3, <2>4, <2>5, VisitTrails
<1>15. M \in P
  <2> HIDE DEF P
  <2>1. \A i \in 1..M : i - 1 \in P => i \in P
    BY <1>14
  <2>2. \A i \in 0..M : i \in P
    BY <1>2, <1>13, <2>1, Rounds, Zenon
  <2> QED
    BY <1>2, <2>2
<1>16. PICK c \in 0..N : Trails(f[c], g[M])
  BY <1>15
<1>17. f[c].left = <<>>
  <2>1. f[c].left \in Seq(TreeRow(spans))
    BY <1>10 DEF WalkState
  <2>2. PICK at : EmbedsAt(at, f[c].left, g[M].left, Seen(f[c].laid))
    BY <1>16 DEF Trails, Embeds
  <2>3. at \in [1..Len(f[c].left) -> 1..0]
    BY <1>7, <2>2 DEF EmbedsAt
  <2>4. Len(f[c].left) \in Nat /\ ~ (1 \in 1..Len(f[c].left))
    BY <2>1, <2>3
  <2> QED
    BY <2>1, <2>4
<1> DEFINE Q == {i \in 0..N : i < c \/ f[i] = f[c]}
<1>18. 0 \in Q
  <2>1. c = 0 \/ 0 < c
    BY <1>2
  <2> QED
    BY <1>2, <2>1
<1>19. ASSUME NEW i \in 1..N, i - 1 \in Q PROVE i \in Q
  <2>1. i \in 0..N /\ i - 1 \in 0..N /\ f[i] = Visit(spans, f[i - 1])
    BY <1>2, <1>8
  <2>2. i < c \/ i = c \/ f[i - 1] = f[c]
    BY <1>2, <1>19
  <2>3. CASE f[i - 1] = f[c]
    <3>1. Visit(spans, f[c]) = f[c]
      BY <1>1, <1>10, <1>17, VisitIs DEF Skips, Takes
    <3> QED
      BY <2>1, <2>3, <3>1
  <2> QED
    BY <2>1, <2>2, <2>3
<1>20. N \in Q
  <2> HIDE DEF Q
  <2>1. \A i \in 1..N : i - 1 \in Q => i \in Q
    BY <1>19
  <2>2. \A i \in 0..N : i \in Q
    BY <1>2, <1>18, <2>1, Rounds, Zenon
  <2> QED
    BY <1>2, <2>2
<1>21. f[N] = f[c]
  <2>1. ~ (N < c) 
    BY <1>2
  <2> QED
    BY <1>20, <2>1
<1> QED
  BY <1>12, <1>16, <1>21 DEF Trails

\* A waterfall of a list with copies has the same rows.
LEMMA LayoutOfCopies ==
  ASSUME NEW spans, NEW more, Copied(spans, more)
  PROVE  LayoutWaterfall(more) = LayoutWaterfall(spans)
<1> DEFINE roots == Roots(spans)
           both == Roots(more)
           none == <<>>
<1>1. /\ spans \in Seq(Valid) /\ more \in Seq(Valid) /\ WithCopies(spans, more)
      /\ ToSet(more) = ToSet(spans) /\ TreeRow(more) = TreeRow(spans)
  BY SameElements, SameStates DEF Copied
<1>2. /\ roots \in Seq(ToSet(spans)) /\ Len(roots) <= Len(spans)
      /\ both \in Seq(ToSet(spans)) /\ Len(both) <= Len(more)
  <2>1. /\ roots \in Seq(Valid) /\ ToSet(roots) \subseteq ToSet(spans)
        /\ both \in Seq(Valid) /\ ToSet(both) \subseteq ToSet(more)
    BY <1>1, TreeLists
  <2>2. Len(roots) <= Len(spans) /\ Len(both) <= Len(more)
    BY <1>1, OnlyIs DEF Roots
  <2> QED
    BY <1>1, <2>1, <2>2, ListOf
<1>3. WithCopies(roots, both)
  BY <1>1, TreeOfCopies
<1>4. none \in Seq(TreeRow(spans))
  BY EmptySeq
<1> DEFINE tree == Walk(spans, roots, none)
<1>5. Walk(more, both, none) = tree
  <2> HIDE DEF roots, both, none
  <2> QED
    BY <1>2, <1>3, <1>4, WalkOfCopies
<1>6. tree \in Seq(TreeRow(spans))
  BY <1>1, TreeIs
<1> DEFINE T == {s \in ToSet(spans) : s.id \notin Seen(tree)}
           extra == Only(spans, T)
           extras == Only(more, T)
<1>7. WithCopies(extra, extras)
  BY <1>1, OnlyWithCopies
<1>8. /\ extra \in Seq(ToSet(spans)) /\ Len(extra) <= Len(spans)
      /\ extras \in Seq(ToSet(spans)) /\ Len(extras) <= Len(more)
  <2>1. /\ extra \in Seq(Valid) /\ Len(extra) <= Len(spans) /\ ToSet(extra) \subseteq ToSet(spans)
        /\ extras \in Seq(Valid) /\ Len(extras) <= Len(more) /\ ToSet(extras) \subseteq ToSet(more)
    BY <1>1, OnlyIs
  <2> QED
    BY <1>1, <2>1, ListOf
<1>9. Walk(more, extras, tree) = Walk(spans, extra, tree)
  <2> HIDE DEF tree, extra, extras
  <2> QED
    BY <1>6, <1>7, <1>8, WalkOfCopies
<1>10. LayoutWaterfall(spans) = Walk(spans, extra, tree)
  BY DEF LayoutWaterfall
<1>11. LayoutWaterfall(more) = Walk(more, extras, tree)
  BY <1>1, <1>5 DEF LayoutWaterfall
<1> QED
  BY <1>9, <1>10, <1>11

-----------------------------------------------------------------------------
(* A request that is repeated *)

\* The rows of a trace.
OfTrace(rs, t) == Only(rs, {s \in ToSet(rs) : s.tid = t})

\* The page that is loaded was read from rows that have since got nothing but copies.
PageOfCopies ==
  page.status = "ok" =>
    /\ inserts > 0
    /\ ByStart(page.spans)
    /\ \A s \in ToSet(page.spans) : s.tid = trace
    /\ Lasts(page.spans, Batch.spans)
    /\ WithCopies(page.spans, OfTrace(rows, trace))

\* What IInv leaves out: the table is in its order, it holds the spans of one
\* request, and of two versions of a span the one that was sent last comes last.
RInv ==
  /\ ByStart(rows)
  /\ inserts = 0 => rows = <<>>
  /\ inserts > 0 => ToSet(rows) = ToSet(Batch.spans)
  /\ Lasts(rows, Batch.spans)
  /\ trace = Empty => page.status = "none"
  /\ PageOfCopies

\* The elements of two lists, one after the other.
LEMMA ElementsOfBoth ==
  ASSUME NEW R, NEW a \in Seq(R), NEW b \in Seq(R)
  PROVE  a \o b \in Seq(R) /\ ToSet(a \o b) = ToSet(a) \cup ToSet(b)
<1> DEFINE v == a \o b
<1>1. /\ v \in Seq(R) /\ Len(v) = Len(a) + Len(b) /\ Len(a) \in Nat /\ Len(b) \in Nat
      /\ \A i \in 1..(Len(a) + Len(b)) : v[i] = IF i <= Len(a) THEN a[i] ELSE b[i - Len(a)]
  BY ConcatProperties
<1> HIDE DEF v
<1>2. ASSUME NEW x \in ToSet(v) PROVE x \in ToSet(a) \cup ToSet(b)
  <2>1. PICK i \in 1..(Len(a) + Len(b)) : x = v[i]
    BY <1>1 DEF ToSet
  <2>2. CASE i <= Len(a)
    <3>1. i \in 1..Len(a) /\ x = a[i]
      BY <1>1, <2>1, <2>2
    <3> QED
      BY <3>1 DEF ToSet
  <2>3. CASE ~ (i <= Len(a))
    <3>1. i - Len(a) \in 1..Len(b) /\ x = b[i - Len(a)]
      BY <1>1, <2>1, <2>3
    <3> QED
      BY <3>1 DEF ToSet
  <2> QED
    BY <2>2, <2>3
<1>3. ASSUME NEW x \in ToSet(a) PROVE x \in ToSet(v)
  <2>1. PICK i \in 1..Len(a) : x = a[i]
    BY <1>3 DEF ToSet
  <2>2. i \in 1..(Len(a) + Len(b)) /\ i <= Len(a)
    BY <1>1
  <2>3. v[i] = x /\ i \in 1..Len(v)
    BY <1>1, <2>1, <2>2
  <2> QED
    BY <2>3 DEF ToSet
<1>4. ASSUME NEW x \in ToSet(b) PROVE x \in ToSet(v)
  <2>1. PICK i \in 1..Len(b) : x = b[i]
    BY <1>4 DEF ToSet
  <2>2. Len(a) + i \in 1..(Len(a) + Len(b)) /\ ~ (Len(a) + i <= Len(a)) /\ (Len(a) + i) - Len(a) = i
    BY <1>1
  <2>3. v[Len(a) + i] = x /\ Len(a) + i \in 1..Len(v)
    BY <1>1, <2>1, <2>2
  <2> QED
    BY <2>3 DEF ToSet
<1> QED
  BY <1>1, <1>2, <1>3, <1>4 DEF v

\* No rows at all are in order.
LEMMA NothingYet ==
  ASSUME NEW b
  PROVE  ByStart(<<>>) /\ Lasts(<<>>, b)
<1>1. \A T : Only(<<>>, T) = <<>>
  <2> SUFFICES ASSUME NEW T PROVE Only(<<>>, T) = <<>>
    OBVIOUS
  <2> DEFINE v == <<>>
  <2>1. v \in Seq(Valid) /\ ToSet(v) \cap T = {}
    BY DEF ToSet
  <2> HIDE DEF v
  <2>2. Only(v, T) = <<>>
    BY <2>1, OnlyNone
  <2> QED
    BY <2>2 DEF v
<1>2. Lasts(<<>>, b)
  BY <1>1 DEF Lasts
<1>3. ByStart(<<>>)
  BY DEF ByStart
<1> QED
  BY <1>2, <1>3

\* RInv holds at first.
LEMMA RetryInit == Init => RInv
<1> SUFFICES ASSUME Init PROVE RInv
  OBVIOUS
<1>1. rows = <<>> /\ inserts = 0 /\ trace = Empty /\ page.status = "none"
  BY DEF Init
<1>2. PageOfCopies
  BY <1>1 DEF PageOfCopies
<1> QED
  BY <1>1, <1>2, NothingYet DEF RInv

\* A span added to the request keeps RInv.
LEMMA RetryAddSpan ==
  ASSUME IInv, RInv, NEW sp \in Offered, AddSpan(sp)
  PROVE  RInv'
<1>1. inserts = 0 /\ trace = Empty /\ rows' = rows /\ inserts' = inserts /\ trace' = trace /\ page' = page
  BY DEF AddSpan, readerVars
<1>2. rows = <<>> /\ page.status = "none"
  BY <1>1 DEF RInv
<1>3. PageOfCopies'
  BY <1>1, <1>2 DEF PageOfCopies
<1>4. ByStart(rows)' /\ Lasts(rows, Batch.spans)'
  BY <1>1, <1>2, NothingYet
<1> QED
  BY <1>1, <1>2, <1>3, <1>4 DEF RInv

\* Storing the batch again puts copies into the table and keeps RInv.
LEMMA RetryStore ==
  ASSUME IInv, RInv, Store
  PROVE  RInv'
<1> DEFINE b == Batch.spans
           all == rows \o b
<1>1. /\ rows' = Ordered(all) /\ inserts' = inserts + 1
      /\ request' = request /\ trace' = trace /\ page' = page
  BY DEF Store, readerVars
<1>2. request \in Seq(Offered) /\ rows \in Seq(Valid) /\ inserts \in Nat
  BY BoundsAreNumbers DEF IInv
<1>3. b \in Seq(Valid)
  BY <1>2, BatchIs
<1>4. Batch' = Batch
  BY <1>1 DEF Batch
<1>5. /\ ByStart(rows) /\ Lasts(rows, b) /\ (inserts = 0 => rows = <<>>)
      /\ (inserts > 0 => ToSet(rows) = ToSet(b)) /\ (trace = Empty => page.status = "none") /\ PageOfCopies
  BY DEF RInv
<1> HIDE DEF b
<1>6. all \in Seq(Valid) /\ ToSet(all) = ToSet(rows) \cup ToSet(b)
  BY <1>2, <1>3, ElementsOfBoth
<1>7. ToSet(rows) \subseteq ToSet(b)
  <2>1. CASE inserts = 0
    <3>1. ToSet(rows) = {}
      BY <1>5, <2>1 DEF ToSet
    <3> QED
      BY <3>1
  <2>2. CASE inserts > 0
    BY <1>5, <2>2
  <2> QED
    BY <1>2, <2>1, <2>2
<1>8. ByStart(rows') /\ Lasts(rows', b)
  BY <1>1, <1>2, <1>3, <1>6, <1>7, OrderedByStart, OrderedLasts
<1>9. rows' \in Seq(Valid) /\ ToSet(rows') = ToSet(b)
  BY <1>1, <1>6, <1>7, OrderedIs
<1>10. PageOfCopies'
  <2> SUFFICES ASSUME page.status = "ok" PROVE PageOfCopies'
    BY <1>1 DEF PageOfCopies
  <2> DEFINE list == page.spans
             own == {s \in ToSet(rows) : s.tid = trace}
             few == OfTrace(rows, trace)
             many == OfTrace(rows', trace)
  <2>1. /\ inserts > 0 /\ ByStart(list) /\ \A s \in ToSet(list) : s.tid = trace
        /\ Lasts(list, b) /\ WithCopies(list, few)
    BY <1>5 DEF PageOfCopies, b
  <2>2. ToSet(rows') = ToSet(rows) /\ ToSet(b) \subseteq ToSet(rows)
    BY <1>5, <1>9, <2>1
  <2>3. WithCopies(rows, rows')
    BY <1>1, <1>2, <1>3, <1>5, <2>2, OrderedWithCopies
  <2>4. few = Only(rows, own) /\ many = Only(rows', own)
    BY <2>2 DEF OfTrace
  <2>5. few \in Seq(Valid) /\ many \in Seq(Valid) /\ list \in Seq(Valid)
    BY <1>2, <1>9, <2>4, OnlyIs DEF IInv, PageIsRead
  <2> HIDE DEF own, few, many, list
  <2>6. WithCopies(few, many)
    BY <1>2, <1>9, <2>3, <2>4, OnlyWithCopies
  <2>7. WithCopies(list, many)
    BY <2>1, <2>5, <2>6, CopiesOfCopies
  <2>8. inserts' > 0
    BY <1>1, <1>2, <2>1
  <2> QED
    BY <1>1, <1>4, <2>1, <2>7, <2>8 DEF PageOfCopies, list, many, b
<1>11. inserts' # 0
  BY <1>1, <1>2
<1> QED
  BY <1>1, <1>4, <1>5, <1>8, <1>9, <1>10, <1>11 DEF RInv, b

\* The page that is loaded is the table's.
LEMMA RetryLoad ==
  ASSUME IInv, RInv, NEW t \in Traces, Load(t)
  PROVE  RInv'
<1>1. /\ trace' = t /\ page' = GetTrace(rows, t)
      /\ request' = request /\ rows' = rows /\ inserts' = inserts
  BY DEF Load
<1>2. rows \in Seq(Valid) /\ inserts \in Nat
  BY BoundsAreNumbers DEF IInv
<1>3. Batch' = Batch /\ t # Empty
  BY <1>1 DEF Batch, Traces
<1>4. PageOfCopies'
  <2> SUFFICES ASSUME page'.status = "ok" PROVE PageOfCopies'
    BY DEF PageOfCopies
  <2> DEFINE own == {s \in ToSet(rows) : s.tid = t}
             list == Only(rows, own)
  <2>1. page'.spans = list /\ list \in Seq(Valid) /\ Len(list) >= 1
    BY <1>1, <1>2, GetTraceIs, LimitsArePositive
  <2>2. inserts > 0
    <3>1. Len(list) <= Len(rows)
      BY <1>2, OnlyIs
    <3>2. rows # <<>>
      BY <1>2, <2>1, <3>1
    <3> QED
      BY <1>2, <3>2 DEF RInv
  <2>3. ByStart(list)
    BY <1>2, OnlyByStart DEF RInv
  <2>4. \A s \in ToSet(list) : s.tid = t
    BY <1>2, OnlyIs
  <2>5. Lasts(list, Batch.spans)
    BY <1>2, OnlyLasts DEF RInv
  <2>6. WithCopies(list, list)
    BY <2>1, NoCopies
  <2> QED
    BY <1>1, <1>3, <2>1, <2>2, <2>3, <2>4, <2>5, <2>6 DEF PageOfCopies, OfTrace
<1> QED
  BY <1>1, <1>3, <1>4 DEF RInv

\* Every step keeps RInv.
LEMMA RetryNext == IInv /\ RInv /\ [Next]_vars => RInv'
<1> SUFFICES ASSUME IInv, RInv, [Next]_vars PROVE RInv'
  OBVIOUS
<1>1. ASSUME NEW sp \in Offered, AddSpan(sp) PROVE RInv'
  BY <1>1, RetryAddSpan
<1>2. ASSUME Store PROVE RInv'
  BY <1>2, RetryStore
<1>3. ASSUME NEW t \in Traces, Load(t) PROVE RInv'
  BY <1>3, RetryLoad
<1>4. ASSUME UNCHANGED vars PROVE RInv'
  <2>1. request' = request /\ rows' = rows /\ inserts' = inserts /\ trace' = trace /\ page' = page
    BY <1>4 DEF vars, readerVars
  <2>2. Batch' = Batch
    BY <2>1 DEF Batch
  <2>3. PageOfCopies'
    BY <2>1, <2>2 DEF RInv, PageOfCopies
  <2> QED
    BY <2>1, <2>2, <2>3 DEF RInv
<1> QED
  BY <1>1, <1>2, <1>3, <1>4 DEF Next

\* The page of a list with copies.
LEMMA PageOfCopiesIs ==
  ASSUME NEW spans, NEW more, Copied(spans, more), spans # <<>>,
         NEW t, \A s \in ToSet(spans) : s.tid = t, NEW b, Lasts(spans, b), Lasts(more, b)
  PROVE  /\ AssembleTrace(more).path = AssembleTrace(spans).path
         /\ AssembleTrace(more).pathNs = AssembleTrace(spans).pathNs
         /\ AssembleTrace(more).start = AssembleTrace(spans).start
         /\ AssembleTrace(more).dur = AssembleTrace(spans).dur
         /\ ToSet(AssembleTrace(more).bottlenecks) \subseteq ToSet(AssembleTrace(spans).bottlenecks)
<1> DEFINE path == CriticalPath(spans)
<1>1. /\ spans \in Seq(Valid) /\ ByStart(spans) /\ more \in Seq(Valid) /\ ByStart(more) /\ WithCopies(spans, more)
      /\ ToSet(more) = ToSet(spans)
  BY SameElements DEF Copied
<1>2. CriticalPath(more) = path
  BY <1>1, PathOfCopies
<1>3. Chain(spans, path)
  BY <1>1, PathIs
<1> HIDE DEF path
<1>4. path[1].id \in Known(spans) /\ Last(path).id \in Known(spans)
  <2>1. path \in Seq(Valid) /\ Len(path) >= 1 /\ \A i \in 1..Len(path) : path[i] \in ToSet(spans)
    BY <1>3 DEF Chain
  <2>2. 1 \in 1..Len(path) /\ Len(path) \in 1..Len(path) /\ Last(path) = path[Len(path)]
    BY <2>1 DEF Last
  <2> QED
    BY <2>1, <2>2 DEF Known
<1>5. ByID(more, path[1].id) = ByID(spans, path[1].id) /\ ByID(more, Last(path).id) = ByID(spans, Last(path).id)
  BY <1>1, <1>4, ByIDOfCopies
<1>6. PathWallNs(more, path) = PathWallNs(spans, path)
  BY <1>5 DEF PathWallNs
<1>7. ToSet(RankBottlenecks(more)) \subseteq ToSet(RankBottlenecks(spans))
  BY <1>1, RankOfCopies
<1>8. /\ AssembleTrace(spans).path = path /\ AssembleTrace(more).path = path
      /\ AssembleTrace(spans).pathNs = PathWallNs(spans, path) /\ AssembleTrace(more).pathNs = PathWallNs(more, path)
      /\ AssembleTrace(spans).bottlenecks = RankBottlenecks(spans)
      /\ AssembleTrace(more).bottlenecks = RankBottlenecks(more)
  BY <1>2 DEF AssembleTrace, path
<1>9. AssembleTrace(more).start = AssembleTrace(spans).start /\ AssembleTrace(more).dur = AssembleTrace(spans).dur
  BY <1>1 DEF AssembleTrace
<1> QED
  BY <1>6, <1>7, <1>8, <1>9

\* What RetryChangesNothing demands of a step.
SaysTheSame ==
  /\ page'.path = page.path
  /\ page'.pathNs = page.pathNs
  /\ page'.start = page.start
  /\ page'.dur = page.dur
  /\ ToSet(page'.bottlenecks) \subseteq ToSet(page.bottlenecks)
  /\ laid' = laid

\* A page that is loaded again says what it said.
LEMMA LoadedAgain ==
  ASSUME IInv, RInv, NEW t \in Traces, Load(t), page.status = "ok", page'.status = "ok"
  PROVE  SaysTheSame
<1> DEFINE spans == page.spans
           more == OfTrace(rows, t)
           b == Batch.spans
<1>1. trace \in {Empty, t} /\ page' = GetTrace(rows, t) /\ laid' = LayoutWaterfall(page'.spans)
  BY DEF Load
<1>2. trace = t
  BY <1>1 DEF RInv
<1>3. /\ spans \in Seq(Valid) /\ Len(spans) >= 1 /\ page = AssembleTrace(spans) /\ laid = LayoutWaterfall(spans)
  BY LimitsArePositive DEF IInv, PageIsRead
<1>4. rows \in Seq(Valid) /\ ByStart(rows) /\ Lasts(rows, b)
  BY DEF IInv, RInv
<1>5. page'.spans = more /\ more \in Seq(Valid) /\ page' = AssembleTrace(more)
  BY <1>1, <1>4, GetTraceIs DEF OfTrace
<1>6. ByStart(spans) /\ (\A s \in ToSet(spans) : s.tid = t) /\ Lasts(spans, b) /\ WithCopies(spans, more)
  BY <1>2 DEF RInv, PageOfCopies
<1>7. ByStart(more) /\ Lasts(more, b)
  BY <1>4, OnlyByStart, OnlyLasts DEF OfTrace
<1> HIDE DEF spans, more, b
<1>8. Copied(spans, more) /\ spans # <<>>
  BY <1>3, <1>5, <1>6, <1>7 DEF Copied
<1>9. laid' = laid
  BY <1>1, <1>3, <1>5, <1>8, LayoutOfCopies
<1> DEFINE p == AssembleTrace(spans)
           q == AssembleTrace(more)
<1>10. /\ q.path = p.path /\ q.pathNs = p.pathNs /\ q.start = p.start /\ q.dur = p.dur
       /\ ToSet(q.bottlenecks) \subseteq ToSet(p.bottlenecks)
  BY <1>6, <1>7, <1>8, PageOfCopiesIs
<1>11. page = p /\ page' = q
  BY <1>3, <1>5
<1> HIDE DEF p, q
<1> QED
  BY <1>9, <1>10, <1>11 DEF SaysTheSame

\* No step makes a page that is loaded say anything else.
LEMMA RetrySays ==
  IInv /\ RInv /\ [Next]_vars => [page.status = "ok" /\ page'.status = "ok" => SaysTheSame]_vars
<1> SUFFICES ASSUME IInv, RInv, [Next]_vars, page.status = "ok", page'.status = "ok" PROVE SaysTheSame
  OBVIOUS
<1>1. ASSUME page' = page, laid' = laid PROVE SaysTheSame
  BY <1>1 DEF SaysTheSame
<1>2. ASSUME NEW sp \in Offered, AddSpan(sp) PROVE SaysTheSame
  BY <1>1, <1>2 DEF AddSpan, readerVars
<1>3. ASSUME Store PROVE SaysTheSame
  BY <1>1, <1>3 DEF Store, readerVars
<1>4. ASSUME NEW t \in Traces, Load(t) PROVE SaysTheSame
  BY <1>4, LoadedAgain
<1>5. ASSUME UNCHANGED vars PROVE SaysTheSame
  BY <1>1, <1>5 DEF vars, readerVars
<1> QED
  BY <1>2, <1>3, <1>4, <1>5 DEF Next

\* For requests of any length, with spans of any shape, however often they are
\* repeated between two loads of a page: the page that is loaded again shows the
\* same path, times and waterfall, and lists no bottleneck it did not list.
THEOREM RetryIsHarmless == Spec => RetryChangesNothing
<1>1. Init => IInv /\ RInv
  BY InvInit, RetryInit
<1>2. IInv /\ RInv /\ [Next]_vars => (IInv /\ RInv)'
  BY InvNext, RetryNext
<1> QED
  BY <1>1, <1>2, RetrySays, PTL DEF Spec, RetryChangesNothing, SaysTheSame

=============================================================================
