--------------------------- MODULE LiveRowsProofs ---------------------------
(***************************************************************************)
(* What merging live rows does to a list, for every list, row and limit:   *)
(* LiveRows.  Before it, what the proofs of other modules need as well:    *)
(* the folds that the model writes the code's loops with, and Only.        *)
(*                                                                         *)
(* The loops of the code are functions on 0..n, defined by what a round    *)
(* makes of the one before it.  That they are defined, and what holds      *)
(* after every round, is induction on the number of the round; it comes    *)
(* from the fact that a set of numbers that is not empty has a least one.  *)
(* FoldLoop turns a fold into such a loop, a sequence f with f[0] the      *)
(* start and f[i] what round i makes of f[i - 1].                          *)
(***************************************************************************)
EXTENDS LiveRows, Common, SequenceTheorems, FiniteSetTheorems, WellFoundedInduction, TLAPS

-----------------------------------------------------------------------------
(* Induction *)

LEMMA LeastNumber ==
  ASSUME NEW T \in SUBSET Nat, T # {}
  PROVE  \E x \in T : \A y \in T : x <= y
<1> DEFINE R == OpToRel(<, Nat)
<1>1. IsWellFoundedOn(R, Nat)
  BY NatLessThanWellFounded
<1> HIDE DEF R
<1>2. PICK x \in T : \A y \in T : ~ (<<y, x>> \in R)
  BY <1>1, WFMin
<1>3. \A y \in T : y < x => <<y, x>> \in R
  BY DEF R, OpToRel
<1>4. \A y \in T : ~ (y < x)
  BY <1>2, <1>3
<1>5. \A y \in T : x <= y
  <2>1. \A y \in T : y \in Nat
    OBVIOUS
  <2> QED
    BY <1>4, <2>1
<1> QED
  BY <1>5

\* What holds before the first round, and after a round if before it, holds
\* after every round.
LEMMA Rounds ==
  ASSUME NEW n \in Nat, NEW P, 0 \in P, \A i \in 1..n : i - 1 \in P => i \in P
  PROVE  \A i \in 0..n : i \in P
<1> SUFFICES ASSUME NEW m \in 0..n, m \notin P PROVE FALSE
  OBVIOUS
<1> DEFINE T == {i \in 0..n : i \notin P}
<1>1. T \in SUBSET Nat /\ T # {}
  OBVIOUS
<1>2. PICK x \in T : \A y \in T : x <= y
  BY <1>1, LeastNumber
<1>3. x \in 1..n /\ x - 1 \in 0..n /\ x - 1 \notin T
  BY <1>2
<1> QED
  BY <1>3

\* f[i] is what n rounds of a loop over S have made of start after the i-th.
IsLoop(f, S, n, start, Round) ==
  f \in [0..n -> S] /\ f[0] = start /\ \A i \in 1..n : f[i] = Round[i][f[i - 1]]

\* A loop whose rounds map S to S is defined.
LEMMA LoopIsDefined ==
  ASSUME NEW S, NEW n \in Nat, NEW start \in S, NEW Round \in [1..n -> [S -> S]]
  PROVE  \E f : IsLoop(f, S, n, start, Round)
<1> DEFINE Upto(m, f) == IsLoop(f, S, m, start, Round)
           P == {m \in 0..n : \E f : Upto(m, f)}
<1>1. 0 \in P
  <2>1. Upto(0, [i \in 0..0 |-> start])
    BY DEF IsLoop
  <2> QED
    BY <2>1
<1>2. ASSUME NEW m \in 1..n, m - 1 \in P PROVE m \in P
  <2>1. PICK f : f \in [0..(m - 1) -> S] /\ Upto(m - 1, f)
    BY <1>2 DEF IsLoop
  <2> DEFINE g == [i \in 0..m |-> IF i = m THEN Round[m][f[m - 1]] ELSE f[i]]
  <2>2. f[m - 1] \in S /\ Round[m] \in [S -> S]
    BY <2>1
  <2>3. g \in [0..m -> S]
    BY <2>1, <2>2
  <2>4. g[0] = start
    BY <2>1 DEF IsLoop
  <2>5. ASSUME NEW i \in 1..m PROVE g[i] = Round[i][g[i - 1]]
    <3>1. g[i - 1] = f[i - 1]
      OBVIOUS
    <3> QED
      BY <2>1, <3>1 DEF IsLoop
  <2>6. Upto(m, g)
    BY <2>3, <2>4, <2>5 DEF IsLoop
  <2> HIDE DEF g, Upto
  <2> QED
    BY <2>3, <2>6
<1>3. \A m \in 0..n : m \in P
  <2> HIDE DEF P
  <2>1. \A m \in 1..n : m - 1 \in P => m \in P
    BY <1>2
  <2> QED
    BY <1>1, <2>1, Rounds, Zenon
<1> QED
  BY <1>3

-----------------------------------------------------------------------------
(* The least and the greatest of finitely many numbers *)

\* Finitely many numbers have a greatest.
LEMMA HasGreatest ==
  ASSUME NEW n \in Nat \ {0}, NEW f \in [1..n -> Int]
  PROVE  \E i \in 1..n : \A j \in 1..n : f[j] <= f[i]
<1> DEFINE P == {i \in 0..n : i = 0 \/ \E k \in 1..i : \A j \in 1..i : f[j] <= f[k]}
<1>1. 0 \in P
  OBVIOUS
<1>2. ASSUME NEW i \in 1..n, i - 1 \in P PROVE i \in P
  <2>1. CASE i = 1
    <3>1. \A j \in 1..1 : f[j] <= f[1]
      OBVIOUS
    <3> QED
      BY <2>1, <3>1
  <2>2. CASE i # 1
    <3>1. PICK k \in 1..(i - 1) : \A j \in 1..(i - 1) : f[j] <= f[k]
      BY <1>2, <2>2
    <3>2. f[i] \in Int /\ f[k] \in Int /\ \A j \in 1..i : f[j] \in Int
      OBVIOUS
    <3>3. CASE f[i] <= f[k]
      <4>1. \A j \in 1..i : f[j] <= f[k]
        BY <3>1, <3>3
      <4> QED
        BY <4>1
    <3>4. CASE f[k] <= f[i]
      <4>1. \A j \in 1..i : f[j] <= f[i]
        BY <3>1, <3>2, <3>4
      <4> QED
        BY <4>1
    <3> QED
      BY <3>2, <3>3, <3>4
  <2> QED
    BY <2>1, <2>2
<1>3. \A i \in 0..n : i \in P
  <2> HIDE DEF P
  <2>1. n \in Nat /\ \A i \in 1..n : i - 1 \in P => i \in P
    BY <1>2
  <2> QED
    BY <1>1, <2>1, Rounds, Zenon
<1>4. n \in P
  <2> HIDE DEF P
  <2> QED
    BY <1>3
<1> QED
  BY <1>4

\* What Max of a list of numbers is.
LEMMA MaxOf ==
  ASSUME NEW n \in Nat \ {0}, NEW f \in [1..n -> Int], NEW S, S = {f[i] : i \in 1..n}
  PROVE  Max(S) \in S /\ \A x \in S : x <= Max(S)
<1>1. PICK i \in 1..n : \A j \in 1..n : f[j] <= f[i]
  BY HasGreatest
<1>2. f[i] \in S /\ \A x \in S : f[i] >= x
  BY <1>1
<1>3. Max(S) \in S /\ \A x \in S : Max(S) >= x
  BY <1>2 DEF Max
<1> QED
  BY <1>3

\* What Min of a list of numbers is.
LEMMA MinOf ==
  ASSUME NEW n \in Nat \ {0}, NEW f \in [1..n -> Int], NEW S, S = {f[i] : i \in 1..n}
  PROVE  Min(S) \in S /\ \A x \in S : Min(S) <= x
<1> DEFINE g == [i \in 1..n |-> - f[i]]
<1>1. g \in [1..n -> Int]
  OBVIOUS
<1>2. PICK i \in 1..n : \A j \in 1..n : g[j] <= g[i]
  BY <1>1, HasGreatest
<1>3. f[i] \in S /\ \A x \in S : f[i] <= x
  BY <1>2
<1>4. Min(S) \in S /\ \A x \in S : Min(S) <= x
  BY <1>3 DEF Min
<1> QED
  BY <1>4

\* The least of a set of natural numbers, and the greatest of 1..n.
LEMMA MinOfNumbers ==
  ASSUME NEW S \in SUBSET Nat, S # {}
  PROVE  Min(S) \in S /\ \A x \in S : Min(S) <= x
<1>1. PICK x \in S : \A y \in S : x <= y
  BY LeastNumber
<1> QED
  BY <1>1 DEF Min

\* Max of some of the numbers up to n.
LEMMA MaxOfNumbers ==
  ASSUME NEW n \in Nat, NEW S \in SUBSET (1..n), S # {}
  PROVE  Max(S) \in S /\ \A x \in S : x <= Max(S)
<1> DEFINE D == {m \in Nat : n - m \in S}
<1>1. \A y \in S : y \in 1..n /\ n - y \in Nat /\ n - (n - y) = y /\ n - y \in D
  OBVIOUS
<1>2. D \in SUBSET Nat /\ D # {}
  BY <1>1
<1>3. PICK z \in D : \A m \in D : z <= m
  <2> HIDE DEF D
  <2> QED
    BY <1>2, LeastNumber
<1>4. z \in Nat /\ n - z \in S
  BY <1>3
<1>5. ASSUME NEW y \in S PROVE n - z >= y
  <2>1. z <= n - y
    BY <1>1, <1>3
  <2> QED
    BY <1>1, <1>4, <2>1
<1>6. Max(S) \in S /\ \A y \in S : Max(S) >= y
  BY <1>4, <1>5 DEF Max
<1> QED
  BY <1>1, <1>6

\* The set MapThenFoldSet takes its next element from, and what it leaves.
LEMMA MaxUpto ==
  ASSUME NEW n \in Nat \ {0}
  PROVE  Max(1..n) = n /\ (1..n) \ {n} = 1..(n - 1)
<1>1. n \in 1..n /\ \A x \in 1..n : n >= x
  OBVIOUS
<1>2. Max(1..n) \in 1..n /\ \A x \in 1..n : Max(1..n) >= x
  BY <1>1 DEF Max
<1> QED
  BY <1>1, <1>2

\* How many numbers there are up to n.
LEMMA UptoIsFinite ==
  ASSUME NEW n \in Nat
  PROVE  IsFiniteSet(1..n) /\ Cardinality(1..n) = n
BY FS_Interval

-----------------------------------------------------------------------------
(* FoldLeft as a loop *)

\* What FoldLeft computes over 1..n: f[T] is what the rounds in T make of start.
Folds(f, n, start, Round) ==
  f = [T \in SUBSET (1..n) |->
         IF T = {} THEN start ELSE LET x == Max(T) IN Round[x][f[T \ {x}]]]

\* The recursion of MapThenFoldSet over the numbers up to n has a solution.
LEMMA FoldIsDefined ==
  ASSUME NEW S, NEW n \in Nat, NEW start \in S, NEW Round \in [1..n -> [S -> S]]
  PROVE  \E f \in [SUBSET (1..n) -> S] : Folds(f, n, start, Round)
<1> DEFINE Skip(T) == [i \in 1..n |-> [acc \in S |-> IF i \in T THEN Round[i][acc] ELSE acc]]
           Loop(T) == CHOOSE g : IsLoop(g, S, n, start, Skip(T))
           f == [T \in SUBSET (1..n) |-> Loop(T)[n]]
<1>1. ASSUME NEW T
      PROVE  /\ Loop(T) \in [0..n -> S]
             /\ Loop(T)[0] = start
             /\ \A i \in 1..n : Loop(T)[i] = IF i \in T THEN Round[i][Loop(T)[i - 1]] ELSE Loop(T)[i - 1]
  <2>1. Skip(T) \in [1..n -> [S -> S]]
    OBVIOUS
  <2>2. \E g : IsLoop(g, S, n, start, Skip(T))
    <3> DEFINE R == Skip(T)
    <3>1. R \in [1..n -> [S -> S]]
      BY <2>1
    <3> HIDE DEF R
    <3>2. \E g : IsLoop(g, S, n, start, R)
      BY <3>1, LoopIsDefined
    <3> QED
      BY <3>2 DEF R
  <2>3. IsLoop(Loop(T), S, n, start, Skip(T))
    BY <2>2
  <2> HIDE DEF Loop
  <2>4. Loop(T) \in [0..n -> S] /\ Loop(T)[0] = start /\ \A i \in 1..n : Loop(T)[i] = Skip(T)[i][Loop(T)[i - 1]]
    BY <2>3 DEF IsLoop
  <2>5. \A i \in 1..n : Loop(T)[i - 1] \in S
    BY <2>4
  <2> QED
    BY <2>4, <2>5
<1> HIDE DEF Loop
<1>2. f \in [SUBSET (1..n) -> S]
  BY <1>1
<1>3. ASSUME NEW T \in SUBSET (1..n), T = {} PROVE f[T] = start
  <2> DEFINE P == {i \in 0..n : Loop(T)[i] = start}
  <2>1. 0 \in P /\ \A i \in 1..n : i - 1 \in P => i \in P
    BY <1>1, <1>3
  <2>2. \A i \in 0..n : i \in P
    <3> HIDE DEF P
    <3> QED
      BY <2>1, Rounds, Zenon
  <2> QED
    BY <2>2
<1>4. ASSUME NEW T \in SUBSET (1..n), T # {}
      PROVE  f[T] = LET x == Max(T) IN Round[x][f[T \ {x}]]
  <2> DEFINE U == T \ {Max(T)}
  <2>1. Max(T) \in T /\ \A y \in T : y <= Max(T)
    BY <1>4, MaxOfNumbers
  <2> DEFINE x == Max(T)
  <2> HIDE DEF x
  <2>2. x \in 1..n /\ x \in T /\ U = T \ {x} /\ \A y \in T : y <= x
    BY <2>1 DEF x
  <2> HIDE DEF U
  <2> DEFINE P == {i \in 0..n : /\ i < x => Loop(T)[i] = Loop(U)[i]
                                /\ i >= x => Loop(U)[i] = Loop(U)[x - 1] /\ Loop(T)[i] = Round[x][Loop(U)[x - 1]]}
  <2>3. 0 \in P
    BY <1>1, <2>2
  <2>4. ASSUME NEW i \in 1..n, i - 1 \in P PROVE i \in P
    <3>1. CASE i < x
      <4>1. i \in T <=> i \in U
        BY <2>2, <3>1
      <4>2. Loop(T)[i - 1] = Loop(U)[i - 1]
        BY <2>2, <2>4, <3>1
      <4>3. Loop(T)[i] = Loop(U)[i]
        BY <1>1, <4>1, <4>2
      <4> QED
        BY <2>2, <3>1, <4>3
    <3>2. CASE i = x
      <4>1. i \in T /\ i \notin U
        BY <2>2, <3>2
      <4> QED
        BY <1>1, <2>4, <3>2, <4>1
    <3>3. CASE i > x
      <4>1. i \notin T /\ i \notin U
        BY <2>2, <3>3
      <4> QED
        BY <1>1, <2>2, <2>4, <3>3, <4>1
    <3> QED
      BY <2>2, <3>1, <3>2, <3>3
  <2>5. \A i \in 0..n : i \in P
    <3> HIDE DEF P
    <3>1. \A i \in 1..n : i - 1 \in P => i \in P
      BY <2>4
    <3> QED
      BY <2>3, <3>1, Rounds, Zenon
  <2>6. Loop(T)[n] = Round[x][Loop(U)[n]]
    <3>1. n \in P
      <4> HIDE DEF P
      <4> QED
        BY <2>5
    <3> QED
      BY <2>2, <3>1
  <2>7. U \in SUBSET (1..n)
    BY <2>2
  <2>8. f[T] = Round[x][f[U]]
    BY <2>6, <2>7
  <2> HIDE DEF f
  <2> QED
    BY <2>8, <2>2 DEF x
<1> HIDE DEF f
<1>5. f = [T \in SUBSET (1..n) |-> IF T = {} THEN start ELSE LET x == Max(T) IN Round[x][f[T \ {x}]]]
  BY <1>2, <1>3, <1>4
<1> QED
  BY <1>2, <1>5 DEF Folds

\* Its value over 1..n is what the n-th round makes of the rounds before.
Unfolds(iter, S, n, start, Round) ==
  /\ iter[{}] = start
  /\ \A i \in 1..n : iter[1..(i - 1)] \in S => iter[1..i] = Round[i][iter[1..(i - 1)]]

\* What such a recursion makes of 1..n is what a loop leaves after n rounds.
LEMMA FoldLoop ==
  ASSUME NEW S, NEW n \in Nat, NEW start \in S, NEW Round, NEW iter, Unfolds(iter, S, n, start, Round),
         Round \in [1..n -> [S -> S]]
  PROVE  \E f : IsLoop(f, S, n, start, Round) /\ f[n] = iter[1..n]
<1> DEFINE P == {i \in 0..n : iter[1..i] \in S}
           f == [i \in 0..n |-> iter[1..i]]
<1>1. 1..0 = {}
  OBVIOUS
<1>2. 0 \in P
  BY <1>1 DEF Unfolds
<1>3. \A i \in 1..n : i - 1 \in P => i \in P
  BY DEF Unfolds
<1>4. \A i \in 0..n : i \in P
  <2> HIDE DEF P
  <2> QED
    BY <1>2, <1>3, Rounds, Zenon
<1>5. \A i \in 0..n : iter[1..i] \in S
  BY <1>4
<1>6. f \in [0..n -> S]
  BY <1>5
<1>7. f[0] = start
  BY <1>1 DEF Unfolds
<1>8. ASSUME NEW i \in 1..n PROVE f[i] = Round[i][f[i - 1]]
  <2>1. i - 1 \in 0..n /\ i \in 0..n
    OBVIOUS
  <2>2. f[i] = iter[1..i] /\ f[i - 1] = iter[1..(i - 1)]
    BY <2>1
  <2> HIDE DEF f
  <2> QED
    BY <1>5, <2>1, <2>2 DEF Unfolds
<1>9. f[n] = iter[1..n]
  OBVIOUS
<1> HIDE DEF f
<1> QED
  BY <1>6, <1>7, <1>8, <1>9 DEF IsLoop

-----------------------------------------------------------------------------
(* Only *)

OnlyRounds(f, seq, T) ==
  /\ f[0] = <<>>
  /\ \A i \in 1..Len(seq) : f[i] = IF seq[i] \in T THEN Append(f[i - 1], seq[i]) ELSE f[i - 1]

\* Only as a loop.
LEMMA OnlyLoop ==
  ASSUME NEW R, NEW seq \in Seq(R), NEW T
  PROVE  \E f \in [0..Len(seq) -> Seq(R)] : OnlyRounds(f, seq, T) /\ Only(seq, T) = f[Len(seq)]
<1> DEFINE n == Len(seq)
           S == Seq(R)
           start == <<>>
           Round == [i \in 1..n |-> [acc \in S |-> IF seq[i] \in T THEN Append(acc, seq[i]) ELSE acc]]
           Body(k) == [U \in SUBSET DOMAIN seq |->
                         IF U = {} THEN <<>>
                         ELSE LET x == Max(U) IN IF seq[x] \in T THEN Append(k[U \ {x}], seq[x]) ELSE k[U \ {x}]]
           iter == CHOOSE k : k = Body(k)
<1>1. n \in Nat /\ DOMAIN seq = 1..n /\ start \in S /\ \A i \in 1..n : seq[i] \in R
  OBVIOUS
<1>2. Round \in [1..n -> [S -> S]]
  BY <1>1
<1>3. PICK g \in [SUBSET (1..n) -> S] : Folds(g, n, start, Round)
  <2> HIDE DEF n, S, start, Round
  <2> QED
    BY <1>1, <1>2, FoldIsDefined
<1>4. g = Body(g)
  <2>1. ASSUME NEW U \in SUBSET (1..n), U # {}
        PROVE  Max(U) \in 1..n /\ U \ {Max(U)} \in SUBSET (1..n)
    BY <1>1, <2>1, MaxOfNumbers
  <2>2. \A U \in SUBSET (1..n) : g[U] = Body(g)[U]
    BY <1>1, <1>3, <2>1 DEF Folds
  <2> QED
    BY <1>1, <2>2
<1>5. iter = Body(iter)
  BY <1>4
<1>6. Only(seq, T) = iter[1..n]
  BY <1>1 DEF Only, FoldLeft, MapThenFoldSet
<1> HIDE DEF iter
<1>7. iter[{}] = start
  BY <1>5
<1>8. ASSUME NEW i \in 1..n, iter[1..(i - 1)] \in S PROVE iter[1..i] = Round[i][iter[1..(i - 1)]]
  <2>1. 1..i \in SUBSET DOMAIN seq /\ 1..i # {} /\ Max(1..i) = i /\ (1..i) \ {i} = 1..(i - 1)
    BY <1>1, MaxUpto
  <2>2. iter[1..i] = Body(iter)[1..i]
    BY <1>5, Zenon
  <2> QED
    BY <1>8, <2>1, <2>2
<1>9. PICK f : IsLoop(f, S, n, start, Round) /\ f[n] = iter[1..n]
  <2>1. Unfolds(iter, S, n, start, Round)
    BY <1>7, <1>8 DEF Unfolds
  <2> HIDE DEF n, S, start, Round
  <2> QED
    BY <1>1, <1>2, <2>1, FoldLoop
<1>10. f \in [0..n -> S] /\ f[0] = start /\ \A i \in 1..n : f[i] = Round[i][f[i - 1]]
  BY <1>9 DEF IsLoop
<1>11. \A i \in 1..n : f[i] = IF seq[i] \in T THEN Append(f[i - 1], seq[i]) ELSE f[i - 1]
  <2>1. \A i \in 1..n : f[i - 1] \in S
    BY SMTT(20), <1>10
  <2> QED
    BY <1>10, <2>1
<1>12. OnlyRounds(f, seq, T)
  BY <1>10, <1>11 DEF OnlyRounds
<1> QED
  BY <1>6, <1>9, <1>10, <1>12

\* at says where in the first i elements of seq those of w come from.
PickedAt(at, w, seq, T, i) ==
  /\ at \in [1..Len(w) -> 1..i]
  /\ \A k, l \in 1..Len(w) : k < l => at[k] < at[l]
  /\ \A k \in 1..Len(w) : w[k] = seq[at[k]] /\ w[k] \in T
  /\ \A j \in 1..i : seq[j] \in T => \E k \in 1..Len(w) : at[k] = j

\* Only keeps the places whose element is in T, in order.
LEMMA OnlyPicks ==
  ASSUME NEW R, NEW seq \in Seq(R), NEW T
  PROVE  Only(seq, T) \in Seq(R) /\ \E at : PickedAt(at, Only(seq, T), seq, T, Len(seq))
<1> DEFINE n == Len(seq)
<1>0. PICK f \in [0..n -> Seq(R)] : OnlyRounds(f, seq, T) /\ Only(seq, T) = f[n]
  BY OnlyLoop
<1>1. /\ f[0] = <<>> /\ Only(seq, T) = f[n]
      /\ \A i \in 1..n : f[i] = IF seq[i] \in T THEN Append(f[i - 1], seq[i]) ELSE f[i - 1]
  BY <1>0 DEF OnlyRounds
<1>2. n \in Nat /\ \A i \in 1..n : seq[i] \in R
  OBVIOUS
<1> DEFINE P == {i \in 0..n : \E at : PickedAt(at, f[i], seq, T, i)}
<1>3. 0 \in P
  <2>1. PickedAt([k \in 1..0 |-> 1], f[0], seq, T, 0)
    BY <1>1 DEF PickedAt
  <2> QED
    BY <2>1, <1>2
<1>4. ASSUME NEW i \in 1..n, i - 1 \in P PROVE i \in P
  <2> DEFINE w == f[i - 1]
             m == Len(w)
  <2>1. PICK at : PickedAt(at, w, seq, T, i - 1)
    BY <1>4
  <2>2. w \in Seq(R) /\ m \in Nat /\ seq[i] \in R /\ i \in 0..n /\ i \in Nat /\ i >= 1
    BY <1>1, <1>2
  <2>3. CASE seq[i] \notin T
    <3>1. f[i] = w
      BY <1>1, <2>3
    <3>2. PickedAt(at, w, seq, T, i)
      <4>1. at \in [1..m -> 1..(i - 1)] /\ 1..(i - 1) \subseteq 1..i
        BY <2>1, <2>2 DEF PickedAt
      <4>2. at \in [1..m -> 1..i]
        BY <4>1
      <4>3. \A j \in 1..i : j = i \/ j \in 1..(i - 1)
        BY <2>2
      <4> QED
        BY <2>1, <2>3, <4>2, <4>3 DEF PickedAt
    <3> QED
      BY <2>2, <3>1, <3>2
  <2>4. CASE seq[i] \in T
    <3> DEFINE v == Append(w, seq[i])
               to == [k \in 1..(m + 1) |-> IF k = m + 1 THEN i ELSE at[k]]
    <3>1. f[i] = v
      BY <1>1, <2>4
    <3>2. Len(v) = m + 1 /\ v[m + 1] = seq[i] /\ \A k \in 1..m : v[k] = w[k]
      BY <2>2
    <3> HIDE DEF v, w
    <3>3. /\ at \in [1..m -> 1..(i - 1)]
          /\ \A k, l \in 1..m : k < l => at[k] < at[l]
          /\ \A k \in 1..m : w[k] = seq[at[k]] /\ w[k] \in T
          /\ \A j \in 1..(i - 1) : seq[j] \in T => \E k \in 1..m : at[k] = j
      BY <2>1 DEF PickedAt
    <3>4. /\ m \in Nat /\ i \in Nat /\ i >= 1
          /\ to \in [1..(m + 1) -> 1..i] /\ to[m + 1] = i
          /\ \A k \in 1..m : to[k] = at[k] /\ at[k] \in 1..(i - 1)
      <4>1. m \in Nat /\ i \in Nat /\ i >= 1
        BY <2>2
      <4> HIDE DEF m
      <4>2. m + 1 \in 1..(m + 1) /\ \A k \in 1..m : k \in 1..(m + 1) /\ k # m + 1
        BY <4>1
      <4>3. \A k \in 1..(m + 1) : k = m + 1 \/ k \in 1..m
        BY <4>1
      <4>4. \A k \in 1..m : at[k] \in 1..(i - 1) /\ at[k] \in 1..i
        BY <3>3, <4>1
      <4>5. to \in [1..(m + 1) -> 1..i]
        BY <4>1, <4>3, <4>4
      <4> QED
        BY <4>1, <4>2, <4>4, <4>5
    <3> HIDE DEF to, m
    <3>5. \A k, l \in 1..(m + 1) : k < l => to[k] < to[l]
      <4>1. ASSUME NEW k \in 1..(m + 1), NEW l \in 1..(m + 1), k < l PROVE to[k] < to[l]
        <5>1. k \in 1..m /\ (l = m + 1 \/ l \in 1..m)
          BY <3>4, <4>1
        <5>2. at[k] \in 1..(i - 1) /\ to[k] = at[k]
          BY <3>4, <5>1
        <5>3. CASE l = m + 1
          BY <3>4, <5>2, <5>3
        <5>4. CASE l \in 1..m
          <6>1. at[k] < at[l] /\ to[l] = at[l]
            BY <3>3, <3>4, <4>1, <5>1, <5>4
          <6> QED
            BY <5>2, <6>1
        <5> QED
          BY <5>1, <5>3, <5>4
      <4> QED
        BY <4>1
    <3>6. \A k \in 1..(m + 1) : v[k] = seq[to[k]] /\ v[k] \in T
      <4>1. \A k \in 1..(m + 1) : k = m + 1 \/ k \in 1..m
        BY <3>4
      <4> QED
        BY <2>4, <3>2, <3>3, <3>4, <4>1
    <3>7. \A j \in 1..i : seq[j] \in T => \E k \in 1..(m + 1) : to[k] = j
      <4>1. m + 1 \in 1..(m + 1) /\ \A k \in 1..m : k \in 1..(m + 1)
        BY <3>4
      <4>2. \A j \in 1..i : j = i \/ j \in 1..(i - 1)
        BY <3>4
      <4> QED
        BY <3>3, <3>4, <4>1, <4>2
    <3>8. PickedAt(to, v, seq, T, i)
      BY <3>2, <3>4, <3>5, <3>6, <3>7 DEF PickedAt
    <3> QED
      BY <2>2, <3>1, <3>8
  <2> QED
    BY <2>3, <2>4
<1>5. \A i \in 0..n : i \in P
  <2> HIDE DEF P
  <2>1. \A i \in 1..n : i - 1 \in P => i \in P
    BY <1>4
  <2> QED
    BY <1>2, <1>3, <2>1, Rounds, Zenon
<1>6. n \in P
  <2> HIDE DEF P
  <2> QED
    BY <1>2, <1>5
<1> QED
  BY <1>1, <1>2, <1>6

\* Where a list has elements of T.
Places(seq, T) == {i \in DOMAIN seq : seq[i] \in T}

\* What Only keeps, as sets.
LEMMA OnlyIs ==
  ASSUME NEW R, NEW seq \in Seq(R), NEW T
  PROVE  /\ Only(seq, T) \in Seq(R)
         /\ Len(Only(seq, T)) <= Len(seq)
         /\ ToSet(Only(seq, T)) = ToSet(seq) \cap T
         /\ Len(Only(seq, T)) = Cardinality(Places(seq, T))
<1> DEFINE w == Only(seq, T)
           D == {i \in DOMAIN seq : seq[i] \in T}
           m == Len(w)
           n == Len(seq)
<1>1. w \in Seq(R) /\ m \in Nat /\ n \in Nat /\ DOMAIN seq = 1..n /\ DOMAIN w = 1..m
  BY OnlyPicks
<1>8. \A i \in 1..n : seq[i] \in R
  OBVIOUS
<1>2. PICK at : PickedAt(at, w, seq, T, n)
  BY OnlyPicks
<1> HIDE DEF w, m
<1>3. at \in Bijection(1..m, D)
  <2>1. at \in [1..m -> D]
    BY <1>1, <1>2 DEF PickedAt, m
  <2>2. \A k, l \in 1..m : at[k] = at[l] => k = l
    <3>1. \A k, l \in 1..m : k < l => at[k] < at[l]
      BY <1>2 DEF PickedAt, m
    <3>2. \A k \in 1..m : at[k] \in Int
      BY <1>1, <2>1
    <3> QED
      BY <1>1, <3>1, <3>2
  <2>3. \A j \in D : \E k \in 1..m : at[k] = j
    BY <1>1, <1>2 DEF PickedAt, m
  <2> HIDE DEF D
  <2> QED
    BY <2>1, <2>2, <2>3 DEF Bijection, Injection, Surjection, IsInjective
<1>4. IsFiniteSet(D) /\ Cardinality(D) <= n
  <2>1. D \in SUBSET (1..n)
    BY <1>1
  <2>2. IsFiniteSet(1..n) /\ Cardinality(1..n) = n
    BY <1>1, UptoIsFinite
  <2> HIDE DEF D
  <2> QED
    BY <2>1, <2>2, FS_Subset
<1>5. IsFiniteSet(1..m) /\ Cardinality(1..m) = m
  BY <1>1, UptoIsFinite
<1>6. Cardinality(D) = m
  <2> HIDE DEF D
  <2> QED
    BY <1>3, <1>4, <1>5, FS_Bijection DEF ExistsBijection
<1>7. ToSet(w) = ToSet(seq) \cap T
  <2>3. ToSet(w) = {w[k] : k \in 1..m} /\ ToSet(seq) = {seq[i] : i \in 1..n}
    BY <1>1 DEF ToSet
  <2>1. ASSUME NEW k \in 1..m PROVE w[k] \in T /\ \E i \in 1..n : seq[i] = w[k]
    BY <1>2 DEF PickedAt, m
  <2>2. ASSUME NEW i \in 1..n, seq[i] \in T PROVE \E k \in 1..m : w[k] = seq[i]
    BY <1>2, <2>2 DEF PickedAt, m
  <2> QED
    BY <2>1, <2>2, <2>3
<1> QED
  BY <1>1, <1>4, <1>6, <1>7 DEF w, m, Places

-----------------------------------------------------------------------------
(* Array.slice and Array.filter *)

\* The first rows are those of the list, as many as the limit allows.
LEMMA FirstOfList ==
  ASSUME NEW R, NEW rows \in Seq(R), NEW limit \in Nat
  PROVE  /\ FirstOf(rows, limit) \in Seq(R)
         /\ Len(FirstOf(rows, limit)) = IF Len(rows) < limit THEN Len(rows) ELSE limit
         /\ \A i \in DOMAIN FirstOf(rows, limit) : i \in DOMAIN rows /\ FirstOf(rows, limit)[i] = rows[i]
         /\ Len(FirstOf(rows, limit)) < limit => FirstOf(rows, limit) = rows
<1> DEFINE n == IF Len(rows) < limit THEN Len(rows) ELSE limit
           short == FirstOf(rows, limit)
<1>1. n \in 0..Len(rows)
  OBVIOUS
<1>2. short \in Seq(R) /\ Len(short) = n /\ \A i \in 1..n : short[i] = rows[i]
  BY <1>1, SubSeqProperties DEF FirstOf
<1>3. DOMAIN short = 1..n /\ DOMAIN rows = 1..Len(rows)
  BY <1>2
<1>4. ASSUME n < limit PROVE short = rows
  BY <1>2, <1>4, SeqEqual
<1> QED
  BY <1>1, <1>2, <1>3, <1>4

\* The loop of Without.
Kept(kept, rows, id) ==
  /\ kept[0] = <<>>
  /\ \A i \in 1..Len(rows) :
       kept[i] = IF rows[i].id = id THEN kept[i - 1] ELSE Append(kept[i - 1], rows[i])

LEMMA WithoutLoop ==
  ASSUME NEW R, NEW rows \in Seq(R), NEW id
  PROVE  \E kept : /\ Kept(kept, rows, id)
                   /\ Without(rows, id) = kept[Len(rows)]
                   /\ \A i \in 0..Len(rows) : kept[i] \in Seq(R)
<1> DEFINE n == Len(rows)
           Body(k) == [i \in 0..n |-> IF i = 0 THEN <<>>
                                      ELSE IF rows[i].id = id THEN k[i - 1] ELSE Append(k[i - 1], rows[i])]
           Round == [i \in 1..n |-> [acc \in Seq(R) |-> IF rows[i].id = id THEN acc ELSE Append(acc, rows[i])]]
           kept == CHOOSE k : k = Body(k)
<1>1. n \in Nat /\ \A i \in 1..n : rows[i] \in R
  OBVIOUS
<1>2. Round \in [1..n -> [Seq(R) -> Seq(R)]]
  BY <1>1
<1>3. <<>> \in Seq(R)
  BY EmptySeq
<1>4. PICK g \in [0..n -> Seq(R)] : g[0] = <<>> /\ \A i \in 1..n : g[i] = Round[i][g[i - 1]]
  <2> DEFINE S == Seq(R)
             start == <<>>
  <2>1. n \in Nat
    BY <1>1
  <2>2. start \in S
    BY <1>3
  <2>3. Round \in [1..n -> [S -> S]]
    BY <1>2
  <2> HIDE DEF Round, n, S, start
  <2>4. \E f : IsLoop(f, S, n, start, Round)
    BY <2>1, <2>2, <2>3, LoopIsDefined
  <2> QED
    BY <2>4 DEF S, start, IsLoop
<1>5. g = Body(g)
  <2>1. ASSUME NEW i \in 0..n PROVE g[i] = Body(g)[i]
    <3>1. CASE i = 0
      BY <3>1, <1>4
    <3>2. CASE i \in 1..n
      <4>1. g[i - 1] \in Seq(R)
        BY <3>2
      <4> QED
        BY <3>2, <4>1, <1>4
    <3> QED
      BY <3>1, <3>2
  <2> QED
    BY <2>1
<1>6. kept = Body(kept)
  BY <1>5
<1>7. Without(rows, id) = kept[n]
  BY DEF Without
<1> HIDE DEF kept
<1>8. Kept(kept, rows, id)
  <2>1. kept[0] = Body(kept)[0] /\ \A i \in 1..n : kept[i] = Body(kept)[i]
    BY <1>6
  <2>2. Body(kept)[0] = <<>>
    BY <1>1
  <2>3. ASSUME NEW i \in 1..n
        PROVE  Body(kept)[i] = IF rows[i].id = id THEN kept[i - 1] ELSE Append(kept[i - 1], rows[i])
    BY <1>1
  <2> QED
    BY <2>1, <2>2, <2>3 DEF Kept
<1>9. \A i \in 0..n : kept[i] \in Seq(R)
  <2> DEFINE P == {i \in 0..n : kept[i] \in Seq(R)}
  <2>1. 0 \in P
    <3>1. kept[0] \in Seq(R)
      BY <1>3, <1>8, Zenon DEF Kept
    <3> QED
      BY <1>1, <3>1
  <2>2. ASSUME NEW i \in 1..n, i - 1 \in P PROVE i \in P
    <3>1. kept[i] = kept[i - 1] \/ kept[i] = Append(kept[i - 1], rows[i])
      BY <1>8 DEF Kept
    <3>2. kept[i - 1] \in Seq(R) /\ rows[i] \in R
      BY <1>1, <2>2
    <3>3. Append(kept[i - 1], rows[i]) \in Seq(R)
      BY <3>2
    <3>4. kept[i] \in Seq(R)
      BY <3>1, <3>2, <3>3, Zenon
    <3>5. i \in 0..n
      BY <1>1
    <3> QED
      BY <3>4, <3>5, Zenon
  <2>3. \A i \in 0..n : i \in P
    <3> HIDE DEF P
    <3> QED
      BY <1>1, <2>1, <2>2, Rounds, Zenon
  <2> QED
    BY <2>3 DEF P
<1> QED
  BY <1>7, <1>8, <1>9

\* What w holds of the first i rows, when those of id are left out: no others,
\* in their order, and all of the rest, none further down; where none is left
\* out before, they keep their places; and when there is at most one, at most one is left out.
InOrder(w, rows, i) ==
  \A k, l \in 1..Len(w) : k < l => \E a, b \in 1..i : a < b /\ w[k] = rows[a] /\ w[l] = rows[b]
OnlyOthers(w, rows, id, i) == \A k \in 1..Len(w) : w[k].id # id /\ \E a \in 1..i : w[k] = rows[a]
AllOthers(w, rows, id, i) == \A a \in 1..i : rows[a].id # id => \E k \in 1..Len(w) : k <= a /\ w[k] = rows[a]
InPlace(w, rows, id, i) ==
  \A m \in 0..i : (\A j \in 1..m : rows[j].id # id) => m <= Len(w) /\ \A j \in 1..m : w[j] = rows[j]
OneLess(w, rows, id, i) ==
  Distinct(rows) => \/ i <= Len(w) /\ \A j \in 1..i : rows[j].id # id
                    \/ i - 1 <= Len(w) /\ \E j \in 1..i : rows[j].id = id

Sifted(w, rows, id, i) ==
  /\ Len(w) <= i
  /\ InOrder(w, rows, i)
  /\ OnlyOthers(w, rows, id, i)
  /\ AllOthers(w, rows, id, i)
  /\ InPlace(w, rows, id, i)
  /\ OneLess(w, rows, id, i)

LEMMA SiftedSkip ==
  ASSUME NEW R, NEW rows \in Seq(R), NEW id, NEW i \in 1..Len(rows), NEW w \in Seq(R),
         Sifted(w, rows, id, i - 1), rows[i].id = id
  PROVE  Sifted(w, rows, id, i)
<1>1. Len(w) \in Nat /\ i \in Nat
  OBVIOUS
<1>2. Len(w) <= i
  BY <1>1 DEF Sifted
<1>3. InOrder(w, rows, i)
  BY <1>1 DEF Sifted, InOrder
<1>4. OnlyOthers(w, rows, id, i)
  BY <1>1 DEF Sifted, OnlyOthers
<1>5. AllOthers(w, rows, id, i)
  BY <1>1 DEF Sifted, AllOthers
<1>6. InPlace(w, rows, id, i)
  BY <1>1 DEF Sifted, InPlace
<1>7. OneLess(w, rows, id, i)
  <2>1. ASSUME Distinct(rows), NEW j \in 1..(i - 1) PROVE rows[j].id # id
    BY <2>1 DEF Distinct
  <2> QED
    BY <1>1, <2>1 DEF Sifted, OneLess
<1> QED
  BY <1>2, <1>3, <1>4, <1>5, <1>6, <1>7 DEF Sifted

LEMMA SiftedTake ==
  ASSUME NEW R, NEW rows \in Seq(R), NEW id, NEW i \in 1..Len(rows), NEW w \in Seq(R),
         Sifted(w, rows, id, i - 1), rows[i].id # id
  PROVE  Sifted(Append(w, rows[i]), rows, id, i)
<1> DEFINE v == Append(w, rows[i])
           n == Len(w)
<1>1. n \in Nat /\ i \in Nat /\ rows[i] \in R
  OBVIOUS
<1>2. Len(v) = n + 1 /\ v[n + 1] = rows[i] /\ \A k \in 1..n : v[k] = w[k]
  BY <1>1
<1> HIDE DEF v
<1>3. Len(v) <= i
  BY <1>1, <1>2 DEF Sifted
<1>4. InOrder(v, rows, i)
  <2> SUFFICES ASSUME NEW k \in 1..(n + 1), NEW l \in 1..(n + 1), k < l
               PROVE  \E a, b \in 1..i : a < b /\ v[k] = rows[a] /\ v[l] = rows[b]
    BY <1>2 DEF InOrder
  <2>1. CASE l \in 1..n
    <3>1. k \in 1..n
      BY <1>1, <2>1
    <3>2. PICK a, b \in 1..(i - 1) : a < b /\ w[k] = rows[a] /\ w[l] = rows[b]
      BY <2>1, <3>1 DEF Sifted, InOrder
    <3> QED
      BY <1>1, <1>2, <2>1, <3>1, <3>2
  <2>2. CASE l = n + 1
    <3>1. k \in 1..n
      BY <1>1, <2>2
    <3>2. PICK a \in 1..(i - 1) : w[k] = rows[a]
      BY <3>1 DEF Sifted, OnlyOthers
    <3> QED
      BY <1>1, <1>2, <2>2, <3>1, <3>2, SMTT(20)
  <2> QED
    BY <1>1, <2>1, <2>2
<1>5. OnlyOthers(v, rows, id, i)
  <2> SUFFICES ASSUME NEW k \in 1..(n + 1)
               PROVE  v[k].id # id /\ \E a \in 1..i : v[k] = rows[a]
    BY <1>2 DEF OnlyOthers
  <2>1. CASE k \in 1..n
    BY <1>1, <1>2, <2>1 DEF Sifted, OnlyOthers
  <2>2. CASE k = n + 1
    BY <1>1, <1>2, <2>2
  <2> QED
    BY <1>1, <2>1, <2>2
<1>6. AllOthers(v, rows, id, i)
  <2> SUFFICES ASSUME NEW a \in 1..i, rows[a].id # id
               PROVE  \E k \in 1..(n + 1) : k <= a /\ v[k] = rows[a]
    BY <1>2 DEF AllOthers
  <2>1. CASE a \in 1..(i - 1)
    <3>1. PICK k \in 1..n : k <= a /\ w[k] = rows[a]
      BY <2>1 DEF Sifted, AllOthers
    <3> QED
      BY <1>1, <1>2, <3>1
  <2>2. CASE a = i
    BY <1>1, <1>2, <1>3, <2>2
  <2> QED
    BY <1>1, <2>1, <2>2
<1>7. InPlace(v, rows, id, i)
  <2> SUFFICES ASSUME NEW m \in 0..i, \A j \in 1..m : rows[j].id # id
               PROVE  m <= n + 1 /\ \A j \in 1..m : v[j] = rows[j]
    BY <1>2 DEF InPlace
  <2>1. CASE m \in 0..(i - 1)
    <3>1. m <= n /\ \A j \in 1..m : w[j] = rows[j]
      BY <2>1 DEF Sifted, InPlace
    <3> QED
      BY <1>1, <1>2, <2>1, <3>1
  <2>2. CASE m = i
    <3>1. i - 1 <= n /\ \A j \in 1..(i - 1) : w[j] = rows[j]
      BY <1>1, <2>2 DEF Sifted, InPlace
    <3>2. n = i - 1
      BY <1>1, <3>1 DEF Sifted
    <3> QED
      BY <1>1, <1>2, <2>2, <3>1, <3>2
  <2> QED
    BY <1>1, <2>1, <2>2
<1>8. OneLess(v, rows, id, i)
  <2> SUFFICES ASSUME Distinct(rows)
               PROVE  \/ i <= n + 1 /\ \A j \in 1..i : rows[j].id # id
                      \/ i - 1 <= n + 1 /\ \E j \in 1..i : rows[j].id = id
    BY <1>2 DEF OneLess
  <2>1. CASE i - 1 <= n /\ \A j \in 1..(i - 1) : rows[j].id # id
    BY <1>1, <2>1
  <2>2. CASE i - 2 <= n /\ \E j \in 1..(i - 1) : rows[j].id = id
    BY <1>1, <2>2
  <2> QED
    BY <1>1, <2>1, <2>2 DEF Sifted, OneLess
<1> QED
  BY <1>3, <1>4, <1>5, <1>6, <1>7, <1>8 DEF Sifted, v

\* Array.filter by the trace: no row of it, and all others in their order.
LEMMA WithoutList ==
  ASSUME NEW R, NEW rows \in Seq(R), NEW id
  PROVE  Without(rows, id) \in Seq(R) /\ Sifted(Without(rows, id), rows, id, Len(rows))
<1>1. PICK kept : /\ Kept(kept, rows, id)
                  /\ Without(rows, id) = kept[Len(rows)]
                  /\ \A i \in 0..Len(rows) : kept[i] \in Seq(R)
  BY WithoutLoop
<1> DEFINE n == Len(rows)
           P == {i \in 0..n : Sifted(kept[i], rows, id, i)}
<1>2. n \in Nat
  OBVIOUS
<1>3. 0 \in P
  <2>1. kept[0] = <<>> /\ Len(<<>>) = 0
    BY <1>1 DEF Kept
  <2>2. Sifted(<<>>, rows, id, 0)
    BY DEF Sifted, InOrder, OnlyOthers, AllOthers, InPlace, OneLess
  <2> QED
    BY <1>2, <2>1, <2>2
<1>4. ASSUME NEW i \in 1..n, i - 1 \in P PROVE i \in P
  <2>1. kept[i - 1] \in Seq(R) /\ Sifted(kept[i - 1], rows, id, i - 1)
    BY <1>1, <1>2, <1>4
  <2>2. CASE rows[i].id = id
    <3>1. kept[i] = kept[i - 1]
      BY <1>1, <2>2 DEF Kept
    <3> QED
      BY <1>2, <2>1, <2>2, <3>1, SiftedSkip
  <2>3. CASE rows[i].id # id
    <3>1. kept[i] = Append(kept[i - 1], rows[i])
      BY <1>1, <2>3 DEF Kept
    <3>2. Sifted(Append(kept[i - 1], rows[i]), rows, id, i)
      BY <2>1, <2>3, SiftedTake
    <3>3. Sifted(kept[i], rows, id, i)
      BY <3>1, <3>2, Zenon
    <3> QED
      BY <1>2, <3>3
  <2> QED
    BY <2>2, <2>3
<1>5. \A i \in 0..n : i \in P
  <2> HIDE DEF P
  <2>1. \A i \in 1..n : i - 1 \in P => i \in P
    BY <1>4
  <2> QED
    BY <1>2, <1>3, <2>1, Rounds, Zenon
<1> QED
  BY <1>1, <1>2, <1>5

-----------------------------------------------------------------------------
(* prependLiveRow *)

\* What the list with the row on top holds of the list before.
Merged(new, rows, row, limit) ==
  /\ Len(new) \in 1..limit /\ Len(new) <= Len(rows) + 1 /\ new[1] = row
  /\ \A k \in 2..Len(new) : new[k].id # row.id /\ \E a \in 1..Len(rows) : new[k] = rows[a]
  /\ \A k, l \in 2..Len(new) :
       k < l => \E a, b \in 1..Len(rows) : a < b /\ new[k] = rows[a] /\ new[l] = rows[b]
  /\ \A a \in 1..Len(rows) : rows[a].id # row.id /\ (a < limit \/ Len(new) < limit) =>
       \E k \in 2..Len(new) : k <= a + 1 /\ new[k] = rows[a]
  /\ \A m \in 0..Len(rows) : (\A j \in 1..m : rows[j].id # row.id) =>
       \A j \in 1..m : j < limit => j + 1 <= Len(new) /\ new[j + 1] = rows[j]
  /\ Distinct(rows) /\ Len(rows) <= limit => Len(rows) <= Len(new)

LEMMA PrependList ==
  ASSUME NEW R, NEW rows \in Seq(R), NEW row \in R, NEW limit \in Nat \ {0}
  PROVE  /\ PrependLiveRow(rows, row, limit) \in Seq(R)
         /\ Merged(PrependLiveRow(rows, row, limit), rows, row, limit)
<1> DEFINE w == Without(rows, row.id)
           all == <<row>> \o w
           new == PrependLiveRow(rows, row, limit)
           n == Len(rows)
           c == Len(w)
<1>1. w \in Seq(R) /\ Sifted(w, rows, row.id, n)
  BY WithoutList
<1> HIDE DEF w
<1>2. n \in Nat /\ c \in Nat
  BY <1>1
<1>3. all \in Seq(R) /\ Len(all) = c + 1 /\ all[1] = row /\ \A k \in 1..c : all[k + 1] = w[k]
  BY <1>1
<1>4. new = FirstOf(all, limit)
  BY DEF PrependLiveRow, w
<1> HIDE DEF all, new
<1>5. /\ new \in Seq(R)
      /\ Len(new) = IF c + 1 < limit THEN c + 1 ELSE limit
      /\ \A k \in 1..Len(new) : new[k] = all[k]
  BY <1>3, <1>4, FirstOfList
<1> HIDE DEF n, c
<1>6. Len(new) \in 1..limit /\ Len(new) <= c + 1
  BY <1>2, <1>5
<1>7. new[1] = row /\ \A k \in 2..Len(new) : k - 1 \in 1..c /\ new[k] = w[k - 1]
  <2>1. ASSUME NEW k \in 2..Len(new) PROVE k - 1 \in 1..c /\ new[k] = w[k - 1]
    <3>1. k - 1 \in 1..c /\ (k - 1) + 1 = k /\ k \in 1..Len(new)
      BY <1>2, <1>6
    <3>2. all[k] = w[k - 1]
      BY <1>3, <3>1
    <3> QED
      BY <1>5, <3>1, <3>2
  <2> QED
    BY <1>3, <1>5, <1>6, <2>1
<1>8. ASSUME NEW k \in 2..Len(new)
      PROVE  new[k].id # row.id /\ \E a \in 1..n : new[k] = rows[a]
  BY <1>1, <1>7, SMTT(20) DEF Sifted, OnlyOthers, c
<1>9. ASSUME NEW k \in 2..Len(new), NEW l \in 2..Len(new), k < l
      PROVE  \E a, b \in 1..n : a < b /\ new[k] = rows[a] /\ new[l] = rows[b]
  <2>1. k - 1 \in 1..c /\ l - 1 \in 1..c /\ k - 1 < l - 1
    BY <1>6, <1>7, <1>9
  <2>2. PICK a, b \in 1..n : a < b /\ w[k - 1] = rows[a] /\ w[l - 1] = rows[b]
    BY <1>1, <2>1 DEF Sifted, InOrder, c
  <2> QED
    BY <1>7, <2>2
<1>10. ASSUME NEW a \in 1..n, rows[a].id # row.id, a < limit \/ Len(new) < limit
       PROVE  \E k \in 2..Len(new) : k <= a + 1 /\ new[k] = rows[a]
  <2>1. PICK k \in 1..c : k <= a /\ w[k] = rows[a]
    BY <1>1, <1>10 DEF Sifted, AllOthers, c
  <2>2. k + 1 \in 2..Len(new) /\ (k + 1) - 1 = k /\ k + 1 <= a + 1
    BY <1>2, <1>5, <1>10, <2>1
  <2> QED
    BY <1>7, <2>1, <2>2
<1>11. ASSUME NEW m \in 0..n, \A j \in 1..m : rows[j].id # row.id, NEW j \in 1..m, j < limit
       PROVE  j + 1 <= Len(new) /\ new[j + 1] = rows[j]
  <2>1. m <= c /\ w[j] = rows[j]
    BY <1>1, <1>11 DEF Sifted, InPlace, n, c
  <2>2. j + 1 <= Len(new) /\ j + 1 \in 2..Len(new) /\ (j + 1) - 1 = j
    BY <1>2, <1>5, <1>11, <2>1
  <2> QED
    BY <1>7, <2>1, <2>2
<1>12. ASSUME Distinct(rows), n <= limit PROVE n <= Len(new)
  <2>1. n - 1 <= c
    BY <1>1, <1>2, <1>12 DEF Sifted, OneLess, n, c
  <2> QED
    BY <1>2, <1>5, <1>12, <2>1
<1>13. Merged(new, rows, row, limit)
  <2>1. Len(new) <= n + 1
    BY <1>1, <1>2, <1>6 DEF Sifted, n, c
  <2> QED
    BY <1>6, <1>7, <1>8, <1>9, <1>10, <1>11, <1>12, <2>1 DEF Merged, n
<1> QED
  BY <1>5, <1>13 DEF new

\* A trace stays in the list once.
LEMMA MergedDistinct ==
  ASSUME NEW R, NEW rows \in Seq(R), NEW row \in R, NEW limit \in Nat \ {0},
         NEW new \in Seq(R), Merged(new, rows, row, limit), Distinct(rows)
  PROVE  Distinct(new)
<1>1. ASSUME NEW k \in 1..Len(new), NEW l \in 1..Len(new), k < l PROVE new[k].id # new[l].id
  <2>1. l \in 2..Len(new)
    BY <1>1
  <2>2. CASE k = 1
    BY <2>1, <2>2 DEF Merged
  <2>3. CASE k \in 2..Len(new)
    <3>1. PICK a, b \in 1..Len(rows) : a < b /\ new[k] = rows[a] /\ new[l] = rows[b]
      BY <1>1, <2>1, <2>3 DEF Merged
    <3> QED
      BY <3>1 DEF Distinct
  <2> QED
    BY <1>1, <2>2, <2>3
<1> QED
  BY <1>1 DEF Distinct

\* Every row of top arrived after every row of low, or that is of a search.
Above(top, low) ==
  \A i \in DOMAIN top, j \in DOMAIN low : top[i].at > low[j].at \/ low[j].at = 0

\* A row later than the list's keeps it ordered by arrival.
LEMMA MergedDescending ==
  ASSUME NEW R, NEW rows \in Seq(R), NEW row \in R, NEW limit \in Nat \ {0},
         NEW new \in Seq(R), Merged(new, rows, row, limit),
         Descending(rows), Above(<<row>>, rows)
  PROVE  Descending(new)
<1>1. ASSUME NEW k \in 1..Len(new), NEW l \in 1..Len(new), k < l
      PROVE  new[k].at > new[l].at \/ new[l].at = 0
  <2>1. l \in 2..Len(new)
    BY <1>1
  <2>2. CASE k = 1
    <3>1. PICK b \in 1..Len(rows) : new[l] = rows[b]
      BY <2>1 DEF Merged
    <3> QED
      BY <2>2, <3>1 DEF Merged, Above
  <2>3. CASE k \in 2..Len(new)
    <3>1. PICK a, b \in 1..Len(rows) : a < b /\ new[k] = rows[a] /\ new[l] = rows[b]
      BY <1>1, <2>1, <2>3 DEF Merged
    <3> QED
      BY <3>1 DEF Descending
  <2> QED
    BY <1>1, <2>2, <2>3
<1> QED
  BY <1>1 DEF Descending

\* No trace of the list is lost while there is room, and none is made up.
LEMMA MergedIds ==
  ASSUME NEW R, NEW rows \in Seq(R), NEW row \in R, NEW limit \in Nat \ {0},
         NEW new \in Seq(R), Merged(new, rows, row, limit)
  PROVE  /\ row.id \in Ids(new) /\ Ids(new) \subseteq Ids(rows) \cup {row.id}
         /\ Len(new) < limit => Ids(rows) \subseteq Ids(new)
<1>1. row.id \in Ids(new)
  BY DEF Merged, Ids
<1>2. ASSUME NEW k \in 1..Len(new) PROVE new[k].id \in Ids(rows) \cup {row.id}
  <2>1. CASE k = 1
    BY <2>1 DEF Merged
  <2>2. CASE k \in 2..Len(new)
    <3>1. PICK a \in 1..Len(rows) : new[k] = rows[a]
      BY <2>2 DEF Merged
    <3>2. rows[a].id \in Ids(rows)
      BY DEF Ids
    <3> QED
      BY <3>1, <3>2
  <2> QED
    BY <1>2, <2>1, <2>2
<1>3. ASSUME Len(new) < limit, NEW a \in 1..Len(rows) PROVE rows[a].id \in Ids(new)
  <2>1. CASE rows[a].id = row.id
    BY <1>1, <2>1
  <2>2. CASE rows[a].id # row.id
    <3>1. PICK k \in 2..Len(new) : new[k] = rows[a]
      BY <1>3, <2>2 DEF Merged
    <3> QED
      BY <3>1 DEF Ids
  <2> QED
    BY <2>1, <2>2
<1>4. Ids(new) \subseteq Ids(rows) \cup {row.id}
  BY <1>2 DEF Ids
<1>5. Len(new) < limit => Ids(rows) \subseteq Ids(new)
  <2>1. SUFFICES ASSUME Len(new) < limit, NEW a \in DOMAIN rows PROVE rows[a].id \in Ids(new)
    BY DEF Ids
  <2> QED
    BY <1>3, <2>1
<1> QED
  BY <1>1, <1>4, <1>5

LEMMA DescendingConcat ==
  ASSUME NEW R, NEW top \in Seq(R), NEW low \in Seq(R)
  PROVE  Descending(top \o low) <=> Descending(top) /\ Descending(low) /\ Above(top, low)
<1> DEFINE m == Len(top)
           n == Len(low)
           all == top \o low
<1>1. /\ m \in Nat /\ n \in Nat /\ DOMAIN all = 1..(m + n) /\ DOMAIN top = 1..m /\ DOMAIN low = 1..n
      /\ \A i \in 1..m : all[i] = top[i]
      /\ \A j \in 1..n : all[m + j] = low[j]
  OBVIOUS
<1> HIDE DEF all, m, n
<1>2. ASSUME Descending(all) PROVE Descending(top) /\ Descending(low) /\ Above(top, low)
  <2>1. Descending(top)
    BY <1>1, <1>2 DEF Descending
  <2>2. Descending(low)
    <3>1. ASSUME NEW i \in 1..n, NEW j \in 1..n, i < j PROVE low[i].at > low[j].at \/ low[j].at = 0
      <4>1. m + i \in 1..(m + n) /\ m + j \in 1..(m + n) /\ m + i < m + j
        BY <1>1, <3>1
      <4> QED
        BY <1>1, <1>2, <4>1 DEF Descending
    <3> QED
      BY <1>1, <3>1 DEF Descending
  <2>3. Above(top, low)
    <3>1. ASSUME NEW i \in 1..m, NEW j \in 1..n PROVE top[i].at > low[j].at \/ low[j].at = 0
      <4>1. i \in 1..(m + n) /\ m + j \in 1..(m + n) /\ i < m + j
        BY <1>1
      <4> QED
        BY <1>1, <1>2, <4>1 DEF Descending
    <3> QED
      BY <1>1, <3>1 DEF Above
  <2> QED
    BY <2>1, <2>2, <2>3
<1>3. ASSUME Descending(top), Descending(low), Above(top, low) PROVE Descending(all)
  <2>1. ASSUME NEW k \in 1..(m + n), NEW l \in 1..(m + n), k < l
        PROVE  all[k].at > all[l].at \/ all[l].at = 0
    <3>1. CASE l <= m
      <4>1. k \in 1..m /\ l \in 1..m
        BY <1>1, <2>1, <3>1
      <4> QED
        BY <1>1, <1>3, <2>1, <4>1 DEF Descending
    <3>2. CASE k > m
      <4>1. k - m \in 1..n /\ l - m \in 1..n /\ k - m < l - m /\ m + (k - m) = k /\ m + (l - m) = l
        BY <1>1, <2>1, <3>2
      <4>2. all[k] = low[k - m] /\ all[l] = low[l - m]
        BY <1>1, <4>1
      <4> QED
        BY <1>1, <1>3, <4>1, <4>2, ZenonT(40) DEF Descending
    <3>3. CASE k <= m /\ l > m
      <4>1. k \in 1..m /\ l - m \in 1..n /\ m + (l - m) = l
        BY <1>1, <3>3
      <4>2. all[k] = top[k] /\ all[l] = low[l - m]
        BY <1>1, <4>1
      <4> QED
        BY <1>1, <1>3, <4>1, <4>2, ZenonT(40) DEF Above
    <3> QED
      BY <1>1, <3>1, <3>2, <3>3
  <2> QED
    BY <1>1, <2>1 DEF Descending
<1> QED
  BY <1>2, <1>3 DEF all

-----------------------------------------------------------------------------
(* flushPending *)

\* What the loop of FlushPending has made of the table after i rounds, when
\* every list shows a trace once and is no longer than the limit.
Flushed(w, rows, pending, limit, i) ==
  /\ Len(w) <= limit /\ Len(rows) <= Len(w)
  /\ Distinct(w)
  /\ \A k \in 1..Len(w) : \/ \E a \in 1..Len(rows) : w[k] = rows[a]
                          \/ \E a \in 1..Len(pending) : a > Len(pending) - i /\ w[k] = pending[a]
  /\ Descending(pending \o rows) => Descending(w)
  /\ \A j \in 1..i : j <= Len(w) /\ w[j] = pending[Len(pending) - i + j]
  /\ \A a \in 1..Len(rows) : a + i <= limit => \E k \in 1..Len(w) : k <= a + i /\ w[k].id = rows[a].id
  /\ Len(w) < limit => /\ Ids(rows) \subseteq Ids(w)
                       /\ \A a \in 1..Len(pending) : a > Len(pending) - i => pending[a].id \in Ids(w)

LEMMA FlushedStep ==
  ASSUME NEW R, NEW rows \in Seq(R), NEW pending \in Seq(R), NEW limit \in Nat \ {0},
         Len(rows) <= limit, Len(pending) <= limit, Distinct(rows), Distinct(pending),
         NEW i \in 1..Len(pending), NEW w \in Seq(R), Flushed(w, rows, pending, limit, i - 1),
         NEW row, row = pending[Len(pending) + 1 - i],
         NEW new, new = PrependLiveRow(w, row, limit)
  PROVE  new \in Seq(R) /\ Flushed(new, rows, pending, limit, i)
<1> DEFINE n == Len(pending)
           m == Len(rows)
<1>1. n \in Nat /\ m \in Nat /\ i \in Nat /\ n + 1 - i \in 1..n /\ row \in R
  OBVIOUS
<1>2. new \in Seq(R) /\ Merged(new, w, row, limit)
  BY <1>1, PrependList
<1>3. Distinct(w) /\ Len(w) <= limit /\ m <= Len(w)
  BY DEF Flushed
<1>4. Len(new) \in Nat /\ Len(new) <= limit /\ Len(w) <= Len(new)
  BY <1>2, <1>3 DEF Merged
<1>5. Distinct(new)
  BY <1>1, <1>2, <1>3, MergedDistinct
<1>6. ASSUME NEW k \in 1..Len(new)
      PROVE  \/ \E a \in 1..m : new[k] = rows[a]
             \/ \E a \in 1..n : a > n - i /\ new[k] = pending[a]
  <2>1. CASE k = 1
    <3>1. new[k] = pending[n + 1 - i] /\ n + 1 - i > n - i
      BY <1>1, <1>2, <2>1 DEF Merged
    <3> QED
      BY <1>1, <3>1
  <2>2. CASE k \in 2..Len(new)
    <3>1. PICK b \in 1..Len(w) : new[k] = w[b]
      BY <1>2, <2>2 DEF Merged
    <3>2. \/ \E a \in 1..m : w[b] = rows[a]
          \/ \E a \in 1..n : a > n - (i - 1) /\ w[b] = pending[a]
      BY DEF Flushed
    <3> QED
      BY <1>1, <3>1, <3>2, SMTT(20)
  <2> QED
    BY <1>4, <2>1, <2>2
<1>7. ASSUME Descending(pending \o rows) PROVE Descending(new)
  <2>1. Descending(pending) /\ Above(pending, rows)
    BY <1>7, DescendingConcat
  <2>2. Descending(w)
    BY <1>7 DEF Flushed
  <2>3. Above(<<row>>, w)
    <3>1. ASSUME NEW k \in 1..Len(w) PROVE row.at > w[k].at \/ w[k].at = 0
      <4>1. CASE \E a \in 1..m : w[k] = rows[a]
        BY <1>1, <2>1, <4>1 DEF Above
      <4>2. CASE \E a \in 1..n : a > n - (i - 1) /\ w[k] = pending[a]
        <5>1. PICK a \in 1..n : a > n - (i - 1) /\ w[k] = pending[a]
          BY <4>2
        <5>2. n + 1 - i < a
          BY <1>1, <5>1
        <5> QED
          BY <1>1, <2>1, <5>1, <5>2 DEF Descending
      <4> QED
        BY <4>1, <4>2 DEF Flushed
    <3>2. DOMAIN <<row>> = {1} /\ DOMAIN w = 1..Len(w)
      OBVIOUS
    <3>3. \A a \in DOMAIN <<row>> : <<row>>[a] = row
      OBVIOUS
    <3> QED
      BY <3>1, <3>2, <3>3, SMTT(20) DEF Above
  <2> QED
    BY <1>1, <1>2, <2>2, <2>3, MergedDescending
<1>8. ASSUME NEW j \in 1..i PROVE j <= Len(new) /\ new[j] = pending[n - i + j]
  <2>1. CASE j = 1
    BY <1>1, <1>2, <2>1 DEF Merged
  <2>2. CASE j \in 2..i
    <3>1. \A b \in 1..(i - 1) : b <= Len(w) /\ w[b] = pending[n - (i - 1) + b]
      BY DEF Flushed
    <3>2. ASSUME NEW b \in 1..(i - 1) PROVE w[b].id # row.id
      <4> DEFINE p == n - (i - 1) + b
                 q == n + 1 - i
      <4>1. p \in 1..n /\ q \in 1..n /\ p # q
        BY <1>1
      <4>2. w[b] = pending[p] /\ row = pending[q]
        BY <3>1
      <4> HIDE DEF p, q
      <4> QED
        BY <4>1, <4>2 DEF Distinct
    <3>3. i - 1 \in 0..Len(w) /\ j - 1 \in 1..(i - 1) /\ j - 1 < limit
      BY <1>1, <1>3, <2>2, <3>1
    <3>4. (j - 1) + 1 <= Len(new) /\ new[(j - 1) + 1] = w[j - 1]
      BY <1>2, <3>2, <3>3 DEF Merged
    <3>5. (j - 1) + 1 = j /\ n - (i - 1) + (j - 1) = n - i + j
      BY <1>1
    <3> QED
      BY <3>1, <3>3, <3>4, <3>5
  <2> QED
    BY <1>1, <2>1, <2>2
<1>9. ASSUME NEW a \in 1..m, a + i <= limit
      PROVE  \E k \in 1..Len(new) : k <= a + i /\ new[k].id = rows[a].id
  <2>1. PICK b \in 1..Len(w) : b <= a + (i - 1) /\ w[b].id = rows[a].id
    <3>1. a + (i - 1) <= limit
      BY <1>1, <1>9
    <3> QED
      BY <3>1 DEF Flushed
  <2>2. CASE w[b].id = row.id
    <3>1. 1 \in 1..Len(new) /\ new[1] = row /\ 1 <= a + i
      BY <1>1, <1>2 DEF Merged
    <3> QED
      BY <2>1, <2>2, <3>1
  <2>3. CASE w[b].id # row.id
    <3>1. b < limit /\ b + 1 <= a + i
      BY <1>1, <1>9, <2>1
    <3>2. PICK k \in 2..Len(new) : k <= b + 1 /\ new[k] = w[b]
      BY <1>2, <2>3, <3>1 DEF Merged
    <3>3. k \in 1..Len(new) /\ k <= a + i
      BY <1>1, <3>1, <3>2
    <3> QED
      BY <2>1, <3>2, <3>3
  <2> QED
    BY <2>2, <2>3
<1>10. ASSUME Len(new) < limit
       PROVE  /\ Ids(rows) \subseteq Ids(new)
              /\ \A a \in 1..n : a > n - i => pending[a].id \in Ids(new)
  <2>1. Len(w) < limit
    BY <1>2, <1>4, <1>10
  <2>2. row.id \in Ids(new) /\ Ids(w) \subseteq Ids(new)
    BY <1>1, <1>2, <1>10, MergedIds
  <2>3. /\ Ids(rows) \subseteq Ids(w)
        /\ \A a \in 1..n : a > n - (i - 1) => pending[a].id \in Ids(w)
    BY <2>1 DEF Flushed
  <2>4. ASSUME NEW a \in 1..n, a > n - i PROVE pending[a].id \in Ids(new)
    <3>1. a = n + 1 - i \/ a > n - (i - 1)
      BY <1>1, <2>4, SMTT(20)
    <3> QED
      BY <2>2, <2>3, <3>1
  <2> QED
    BY <2>2, <2>3, <2>4
<1> QED
  BY <1>2, <1>3, <1>4, <1>5, <1>6, <1>7, <1>8, <1>9, <1>10 DEF Flushed

\* The loop of FlushPending.
Applied(out, rows, pending, limit) ==
  /\ out[0] = rows
  /\ \A i \in 1..Len(pending) :
       out[i] = PrependLiveRow(out[i - 1], pending[Len(pending) + 1 - i], limit)

LEMMA FlushLoop ==
  ASSUME NEW R, NEW rows \in Seq(R), NEW pending \in Seq(R), NEW limit \in Nat \ {0}
  PROVE  \E out : /\ Applied(out, rows, pending, limit)
                  /\ FlushPending(rows, pending, limit) = out[Len(pending)]
<1> DEFINE n == Len(pending)
           Body(f) == [i \in 0..n |-> IF i = 0 THEN rows
                                      ELSE PrependLiveRow(f[i - 1], pending[n + 1 - i], limit)]
           S == Seq(R)
           Round == [i \in 1..n |-> [acc \in S |-> PrependLiveRow(acc, pending[n + 1 - i], limit)]]
           out == CHOOSE f : f = Body(f)
<1>1. n \in Nat /\ rows \in S /\ \A i \in 1..n : pending[n + 1 - i] \in R
  OBVIOUS
<1>2. Round \in [1..n -> [S -> S]]
  BY <1>1, PrependList
<1>3. \E f : IsLoop(f, S, n, rows, Round)
  <2> HIDE DEF n, S, Round
  <2> QED
    BY <1>1, <1>2, LoopIsDefined
<1>4. PICK g : IsLoop(g, S, n, rows, Round)
  BY <1>3
<1>5. g = Body(g)
  <2>1. ASSUME NEW i \in 0..n PROVE g[i] = Body(g)[i]
    <3>1. CASE i = 0
      BY <3>1, <1>4 DEF IsLoop
    <3>2. CASE i \in 1..n
      <4>1. g[i - 1] \in S
        <5>1. i - 1 \in 0..n
          BY <1>1, <3>2
        <5>2. g \in [0..n -> S]
          BY <1>4 DEF IsLoop
        <5> HIDE DEF S, n
        <5> QED
          BY <5>1, <5>2
      <4> QED
        BY <3>2, <4>1, <1>4 DEF IsLoop
    <3> QED
      BY <1>1, <3>1, <3>2
  <2> HIDE DEF S
  <2> QED
    BY <1>4, <2>1 DEF IsLoop
<1>6. out = Body(out)
  BY <1>5
<1>7. FlushPending(rows, pending, limit) = out[n]
  BY DEF FlushPending
<1> HIDE DEF out
<1>8. Applied(out, rows, pending, limit)
  <2>1. out[0] = Body(out)[0] /\ \A i \in 1..n : out[i] = Body(out)[i]
    BY <1>6
  <2>2. Body(out)[0] = rows
    BY <1>1
  <2>3. ASSUME NEW i \in 1..n
        PROVE  Body(out)[i] = PrependLiveRow(out[i - 1], pending[n + 1 - i], limit)
    BY <1>1
  <2> QED
    BY <2>1, <2>2, <2>3 DEF Applied
<1> QED
  BY <1>7, <1>8

\* The table that "N new" makes of the rows that wait.
LEMMA FlushList ==
  ASSUME NEW R, NEW rows \in Seq(R), NEW pending \in Seq(R), NEW limit \in Nat \ {0},
         Len(rows) <= limit, Len(pending) <= limit, Distinct(rows), Distinct(pending)
  PROVE  /\ FlushPending(rows, pending, limit) \in Seq(R)
         /\ Flushed(FlushPending(rows, pending, limit), rows, pending, limit, Len(pending))
<1> DEFINE n == Len(pending)
<1>1. PICK out : Applied(out, rows, pending, limit) /\ FlushPending(rows, pending, limit) = out[n]
  BY FlushLoop
<1>2. n \in Nat
  OBVIOUS
<1> DEFINE P == {i \in 0..n : out[i] \in Seq(R) /\ Flushed(out[i], rows, pending, limit, i)}
<1>3. 0 \in P
  <2>1. out[0] = rows
    BY <1>1 DEF Applied
  <2>2. Descending(pending \o rows) => Descending(rows)
    BY DescendingConcat
  <2>3. Flushed(rows, rows, pending, limit, 0)
    BY <1>2, <2>2 DEF Flushed
  <2> QED
    BY <1>2, <2>1, <2>3
<1>4. ASSUME NEW i \in 1..n, i - 1 \in P PROVE i \in P
  <2>1. out[i - 1] \in Seq(R) /\ Flushed(out[i - 1], rows, pending, limit, i - 1)
    BY <1>4
  <2>2. out[i] = PrependLiveRow(out[i - 1], pending[n + 1 - i], limit)
    BY <1>1 DEF Applied
  <2>3. out[i] \in Seq(R) /\ Flushed(out[i], rows, pending, limit, i)
    BY <2>1, <2>2, FlushedStep
  <2> QED
    BY <1>2, <2>3
<1>5. \A i \in 0..n : i \in P
  <2> HIDE DEF P
  <2>1. \A i \in 1..n : i - 1 \in P => i \in P
    BY <1>4
  <2> QED
    BY <1>2, <1>3, <2>1, Rounds, Zenon
<1> QED
  BY <1>1, <1>2, <1>5
=============================================================================
