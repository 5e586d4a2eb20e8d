------------------------- MODULE MCCanonicalEngine -------------------------
(***************************************************************************)
(* The engine's views, one at a time: the candles over a block tree, and   *)
(* the bins of a pool down to a browser.  The two share no state here.     *)
(*                                                                         *)
(* The tree has four branches, in which one event is mined on several of   *)
(* them, one is delivered again by a later block, one needs an earlier one,*)
(* and b1 withdraws, in its second event, what was never deposited on its  *)
(* branch.                                                                 *)
(***************************************************************************)
EXTENDS CandleRollups, PoolStream, TLC

CONSTANTS g, a1, a2, a3, a4, b1, b2, b3, c2, c3, d3, deposit, withdraw, swap, none

MCBlocks == {g, a1, a2, a3, a4, b1, b2, b3, c2, c3, d3}
MCStart == {g}
MCParent ==
  g :> none @@ a1 :> g @@ a2 :> a1 @@ a3 :> a2 @@ a4 :> a3
    @@ b1 :> g @@ b2 :> b1 @@ b3 :> b2 @@ c2 :> a1 @@ c3 :> c2 @@ d3 :> a2
MCNumber ==
  g :> 1 @@ a1 :> 2 @@ a2 :> 3 @@ a3 :> 4 @@ a4 :> 5
    @@ b1 :> 2 @@ b2 :> 3 @@ b3 :> 4 @@ c2 :> 3 @@ c3 :> 4 @@ d3 :> 4
MCTime ==
  g :> 10 @@ a1 :> 11 @@ a2 :> 13 @@ a3 :> 14 @@ a4 :> 20
    @@ b1 :> 11 @@ b2 :> 11 @@ b3 :> 21 @@ c2 :> 11 @@ c3 :> 19 @@ d3 :> 13
MCEvents ==
  g :> <<>> @@ a1 :> <<deposit>> @@ a2 :> <<deposit, swap>> @@ a3 :> <<withdraw, swap>>
    @@ a4 :> <<withdraw, deposit>>
    @@ b1 :> <<swap, withdraw>> @@ b2 :> <<deposit, withdraw>> @@ b3 :> <<swap>>
    @@ c2 :> <<swap, withdraw>> @@ c3 :> <<deposit>> @@ d3 :> <<withdraw>>
MCRequires == deposit :> {} @@ swap :> {} @@ withdraw :> {deposit}

(* A minute of one second; two and four of them; and a week of eight, made *)
(* of the fours, that does not begin with the epoch.                       *)
MCSeconds == <<1, 2, 4, 8>>
MCSource == <<0, 1, 1, 3>>
MCOffset == <<0, 0, 0, 4>>

-----------------------------------------------------------------------------
VARIABLE machine

MCInit ==
  /\ machine \in {"candles", "pool"}
  /\ CandleInit /\ PoolInit
  /\ machine = "candles" => retained[1].active = 0
  /\ machine = "pool" => backfillStatus = "complete"

MCNext ==
  \/ machine = "candles" /\ CandleNext /\ UNCHANGED <<machine, poolVars>>
  \/ machine = "pool" /\ PoolNext /\ UNCHANGED <<machine, candleVars>>

MCSpec == MCInit /\ [][MCNext]_<<machine, candleVars, poolVars>>
=============================================================================
