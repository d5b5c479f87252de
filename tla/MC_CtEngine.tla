----------------------------- MODULE MC_CtEngine -----------------------------
(* Model-checking instance of CtEngine: two send_ct calls in a row and a   *)
(* descriptor table with room for two leaked bsg descriptors, so that the  *)
(* second call can meet an exhausted table.                                *)
EXTENDS CtEngine

MC_MAX_FDS == 2
MC_MAX_CALLS == 2
=============================================================================
