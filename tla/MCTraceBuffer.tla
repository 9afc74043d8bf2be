--------------------------- MODULE MCTraceBuffer ---------------------------
(* The trace for TLC. *)
EXTENDS TraceBuffer
=============================================================================
