---------------------------- MODULE MCRateLimit -----------------------------
(* Small instances of RateLimit for TLC. *)
EXTENDS RateLimit, TLC

\* Callers are interchangeable.
Symmetry == Permutations(Callers)
=============================================================================
