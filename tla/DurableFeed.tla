---------------------------- MODULE DurableFeed ----------------------------
(***************************************************************************)
(* What the analytics service promises of its durable state: candles and   *)
(* the log of change events that followers replay.  One step replaces both *)
(* at once, the log only grows, and it tells of every candle that changed: *)
(* by an event that carries the new candle, or by a reset.                 *)
(***************************************************************************)
EXTENDS Sequences, Integers

CONSTANTS
  Pairs,    \* pairs with candles
  Candles,  \* values of a candle
  Reset     \* topic of the event that voids every earlier snapshot

VARIABLES candles, log

Init ==
  /\ candles \in [Pairs -> Candles]
  /\ log = <<>>

(* The events of a step, in order: the last one of a pair, unless a reset  *)
(* follows it, carries the candle the step leaves.                         *)
Last(events, p) ==
  CHOOSE i \in DOMAIN events :
    /\ events[i].topic \in {p, Reset}
    /\ \A j \in DOMAIN events : events[j].topic \in {p, Reset} => j <= i
Tells(events, p, candle) ==
  /\ \E i \in DOMAIN events : events[i].topic \in {p, Reset}
  /\ LET e == events[Last(events, p)] IN e.topic = p => e.candle = candle

Step ==
  LET events == SubSeq(log', Len(log) + 1, Len(log')) IN
  /\ Len(log') >= Len(log)
  /\ SubSeq(log', 1, Len(log)) = log
  /\ \A p \in Pairs : candles'[p] # candles[p] => Tells(events, p, candles'[p])

Spec == Init /\ [][Step]_<<candles, log>>
=============================================================================
