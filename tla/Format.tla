-------------------------------- MODULE Format -------------------------------
(***************************************************************************)
(* How the pages write numbers: web/src/search/format.ts.  A text is       *)
(* modelled by the number it says, in the unit of its argument: 100 ns for *)
(* a duration, a ten-thousandth for a rate, a hundred-thousandth for a     *)
(* fraction.  "<1us", "<0.001" and "<0.1%" say a number below the one they *)
(* name.                                                                   *)
(*                                                                         *)
(* A definition whose name ends in an underscore and a few words is a      *)
(* wrong variant of the one after it.                                      *)
(***************************************************************************)
EXTENDS Integers, Sequences

\* Math.round, toFixed: to a multiple of a unit.
Round(n, unit) == ((2 * n + unit) \div (2 * unit)) * unit

\* us, ms with one decimal below 10, ms, s with two decimals below 10, s.
FormatDuration(d) ==
  CASE d <= 0 -> 0
    [] d \in 1..9999 -> IF Round(d, 10) < 10 THEN 1 ELSE Round(d, 10)
    [] d \in 10000..99999 -> Round(d, 1000)
    [] d \in 100000..9999999 -> Round(d, 10000)
    [] OTHER -> IF d < 100000000 THEN Round(d, 100000) ELSE Round(d, 10000000)

\* Wrong: what three decimals cannot show is not told from nothing.
FormatRate_NoLeast(n) ==
  CASE n <= 0 -> 0
    [] n \in 1..9999 -> Round(n, 10)
    [] n \in 10000..999999 -> Round(n, 100)
    [] OTHER -> Round(n, 10000)

\* Three decimals below 1, two below 100.
FormatRate(n) ==
  CASE n <= 0 -> 0
    [] n \in 1..9 -> 1
    [] n \in 10..9999 -> Round(n, 10)
    [] n \in 10000..999999 -> Round(n, 100)
    [] OTHER -> Round(n, 10000)

\* One decimal; only a fraction that rounds to all of it is "100%".
FormatPct(rate) ==
  CASE rate <= 0 -> 0
    [] rate \in 1..99 -> 1
    [] rate >= 99950 -> 100000
    [] OTHER -> Round(rate, 100)

\* The change in percent, or 0 for no text.
FormatDeltaPct(prev, curr) == IF prev <= 0 THEN 0 ELSE Round((curr - prev) * 100, prev) \div prev

\* The steps between ticks, in microseconds: 1, 2 and 5 of a power of ten up to
\* ten seconds, and two more.
TICK_STEPS ==
  [i \in 1..24 |->
     CASE i = 23 -> 30000000
       [] i = 24 -> 60000000
       [] OTHER -> <<1, 2, 5>>[((i - 1) % 3) + 1] * 10 ^ ((i - 1) \div 3)]

\* timeTicks: the times of the ticks of a waterfall, none in its last 28 %.
TimeTicks(duration) ==
  IF duration <= 0 THEN <<0>>
  ELSE LET wide == {i \in 1..24 : 3 * TICK_STEPS[i] >= duration}
           step == IF wide = {} THEN TICK_STEPS[24]
                   ELSE TICK_STEPS[CHOOSE i \in wide : \A j \in wide : i <= j]
           last == (18 * duration) \div (25 * step)
       IN  [i \in 1..last + 1 |-> (i - 1) * step]

-----------------------------------------------------------------------------
(* Properties *)

\* Sorted numbers stay sorted when they are written, and what is not zero is
\* not written as zero, nor a part as the whole.
FormatsKeepOrder(values) ==
  \A a, b \in values :
    /\ a <= b => /\ FormatDuration(a) <= FormatDuration(b)
                 /\ FormatRate(a) <= FormatRate(b)
                 /\ FormatPct(a) <= FormatPct(b)
    /\ a > 0 => FormatDuration(a) > 0 /\ FormatRate(a) > 0 /\ FormatPct(a) > 0
    /\ a < 99950 => FormatPct(a) < 100000
    /\ b > 0 /\ a \in 0..200000 /\ b <= 200000 /\ FormatDeltaPct(b, a) > 0 => a > b

\* A waterfall of at most three minutes has one to three ticks.
TicksAreFew(duration) == duration <= 180000000 => Len(TimeTicks(duration)) \in 1..3
=============================================================================
