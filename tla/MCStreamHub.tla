---------------------------- MODULE MCStreamHub -----------------------------
(* Small instances of StreamHub for TLC. *)
EXTENDS StreamHub, TLC

\* Connections and publishers are interchangeable (safety runs only).
Symmetry == Permutations(Conns) \cup Permutations(Publishers)
=============================================================================
