--------------------------- MODULE MCTraceIngest ----------------------------
(* Small instances of TraceIngest for TLC. *)
EXTENDS TraceIngest, TLC

CONSTANTS full, log, huge   \* the batches

\* An export whose spans have children, sent up to twice; a log batch; an export
\* above the span cap.
MCBatches == {full, log, huge}
MCContent ==
  (full :> <<"spans", "span_events", "span_links">>) @@ (log :> <<"logs">>) @@ (huge :> <<"spans">>)
MCTraceOf == (full :> 1) @@ (huge :> 1) @@ (log :> 2)
MCLiveRows == (full :> 1) @@ (log :> 2) @@ (huge :> 1)
MCOversized == {huge}
MCMaxAttempts == (full :> 2) @@ (log :> 1) @@ (huge :> 1)

\* Request goroutines are interchangeable.
Symmetry == Permutations(Handlers)
=============================================================================
