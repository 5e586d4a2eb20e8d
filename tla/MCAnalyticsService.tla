------------------------ MODULE MCAnalyticsService ------------------------
(* Small instances of AnalyticsService for TLC: a chain with a fork, two   *)
(* pairs, an event that a later block delivers again, one mined on both    *)
(* branches, and one that needs an earlier one.                            *)
EXTENDS AnalyticsService

CONSTANTS g, a1, a2, b1, deposit, withdraw, swap, p1, p2, k1, none

MCBlocks == {g, a1, a2, b1}
MCStart == {g}
MCParent == g :> none @@ a1 :> g @@ a2 :> a1 @@ b1 :> g
MCNumber == g :> 1 @@ a1 :> 2 @@ a2 :> 3 @@ b1 :> 2
MCTime == g :> 10 @@ a1 :> 11 @@ a2 :> 13 @@ b1 :> 12
MCEvents ==
  g :> <<swap>> @@ a1 :> <<deposit>> @@ a2 :> <<deposit, withdraw>> @@ b1 :> <<swap, deposit>>
MCRequires == deposit :> {} @@ swap :> {} @@ withdraw :> {deposit}
MCPairsOf == deposit :> {p1} @@ swap :> {p1, p2} @@ withdraw :> {p2}

(* The browser follows p1, which most events change and one does not.      *)
MCInit == ServiceInit /\ browser[k1].pair = p1
MCSpec == MCInit /\ [][ServiceNext]_allVars /\ Fairness

(* The same tree, where a1 withdraws what was never deposited.             *)
PoisonEvents == [MCEvents EXCEPT ![a1] = <<withdraw>>]
=============================================================================
