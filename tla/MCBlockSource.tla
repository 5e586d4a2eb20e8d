---------------------------- MODULE MCBlockSource ----------------------------
(* Small instances of BlockSource for TLC.                                 *)
EXTENDS BlockSource
=============================================================================
