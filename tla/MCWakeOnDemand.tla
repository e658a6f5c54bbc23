--------------------------- MODULE MCWakeOnDemand ---------------------------
(* Small instances of WakeOnDemand for TLC.  A sample shows a service whose *)
(* processor alone is low, which is in use, or one with both resources low. *)
EXTENDS WakeOnDemand

CpuLowOrBoth == {{"cpu"}, {"cpu", "memory"}}
=============================================================================
