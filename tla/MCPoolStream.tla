---------------------------- MODULE MCPoolStream ----------------------------
(* Small instances of PoolStream for TLC.                                  *)
EXTENDS PoolStream
=============================================================================
