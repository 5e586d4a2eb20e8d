------------------------- MODULE MCAnalyticsRuntime -------------------------
(* Two places for a process, for TLC.                                      *)
EXTENDS AnalyticsRuntime
=============================================================================
