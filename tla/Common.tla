------------------------------- MODULE Common -------------------------------
(* Helpers of several modules: Math.max, Math.min and filter. *)
EXTENDS Integers, Sequences, FiniteSets, SequencesExt

Larger(a, b) == IF a > b THEN a ELSE b
Smaller(a, b) == IF a < b THEN a ELSE b

\* The elements of seq that are in S, in their order.
Only(seq, S) == FoldLeft(LAMBDA out, e : IF e \in S THEN Append(out, e) ELSE out, <<>>, seq)
=============================================================================
