---------------------------- MODULE MCStreamHub ----------------------------
(* Small instances of StreamHub for TLC.                                   *)
EXTENDS StreamHubInv, TLC
Symmetry == Permutations(Topics) \cup Permutations(Clients)
=============================================================================
