----------------------------- MODULE MCMetricsHub -----------------------------
(* Small instance of MetricsHub for TLC.                                   *)
EXTENDS MetricsHub
===============================================================================
