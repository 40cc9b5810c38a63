------------------------ MODULE MC_StaticCounters --------------------------
(* The counters under one pipeline thread, and under the ingress and      *)
(* egress threads together.  SEED starts at 42 as in the code, or at       *)
(* 65534, the value it holds after 65492 calls.                            *)
EXTENDS StaticCounters

CONSTANTS rx, tx
=============================================================================
