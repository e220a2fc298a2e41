------------------------------- MODULE MCPerf -------------------------------
(***************************************************************************)
(* Model-checking Perf: as many messages as slots for the client, and a    *)
(* server that takes them in smaller batches.                              *)
(***************************************************************************)
EXTENDS Perf
=============================================================================
