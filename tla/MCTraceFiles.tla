---------------------------- MODULE MCTraceFiles ----------------------------
(***************************************************************************)
(* TraceFiles for TLC: headers that are right or off by one.               *)
(***************************************************************************)
EXTENDS TraceFiles

OffByOne == {-1, 0, 1}

=============================================================================
