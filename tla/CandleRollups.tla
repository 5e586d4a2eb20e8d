--------------------------- MODULE CandleRollups ---------------------------
(***************************************************************************)
(* The candles of one pair over the canonical chain (engine.ts): an append *)
(* updates one minute and rebuilds the buckets above it, a reorg rebuilds  *)
(* them all, and followers - the stored table, and whoever reads the       *)
(* stream - are told only the candles an append changed, among them those  *)
(* that it merely finalized.                                               *)
(*                                                                         *)
(* A candle is the sequence of the updates merged into it: its open, close,*)
(* high, low, sums, revision and blocks are functions of that sequence, and*)
(* merging a source into a roll-up is concatenation.                       *)
(***************************************************************************)
EXTENDS CanonicalEngine

CONSTANTS
  Seconds,  \* candleIntervalSeconds, of the intervals 1..Len(Seconds)
  Source,   \* interval an interval is rolled up from, a shorter one; 1 is the minute
  Offset    \* MONDAY_EPOCH_OFFSET_SECONDS where it applies, 0 elsewhere

Intervals == DOMAIN Seconds

ASSUME IntervalAssumption ==
  /\ Seconds \in Seq(Nat \ {0}) /\ Seconds # <<>>
  /\ \A i \in Intervals : Offset[i] \in Nat
  /\ \A i \in Intervals \ {1} :
       /\ Source[i] \in 1..(i - 1)
       /\ Seconds[i] % Seconds[Source[i]] = 0
       /\ Offset[i] % Seconds[Source[i]] = Offset[Source[i]] % Seconds[Source[i]]
ASSUME OrderAssumption == \A b \in Blocks : Events[b] \in Seq(EventIds)

VARIABLES
  candles,  \* #candles: <<interval, start>> -> updates
  followed  \* what a follower of the changes holds, final or not

candleVars == <<engineVars, candles, followed>>

-----------------------------------------------------------------------------
(* candleBoundary                                                          *)
Boundary(i, t) == ((t - Offset[i]) \div Seconds[i]) * Seconds[i] + Offset[i]

KeyAt(i, t) == <<i, Boundary(i, t)>>
End(key) == key[2] + Seconds[key[1]]
Extended(cs, key, updates) ==
  [k \in DOMAIN cs \cup {key} |->
     IF k # key THEN cs[k] ELSE IF k \in DOMAIN cs THEN cs[k] \o updates ELSE updates]

(* #applyCanonicalBlock: the minute of the block.                          *)
MinuteApplied(cs, env) ==
  IF env.kept = {} THEN cs ELSE Extended(cs, KeyAt(1, Time[env.id]), InOrder(env))

(* The candles a bucket is rolled up from, in the order of their times: in *)
(* each slot of a source there is one or none.                             *)
SourcesOf(cs, key) ==
  LET source == Source[key[1]]
      slot(n) == <<source, key[2] + (n - 1) * Seconds[source]>>
  IN
  [n \in 1..(Seconds[key[1]] \div Seconds[source]) |->
     IF slot(n) \in DOMAIN cs THEN cs[slot(n)] ELSE <<>>]

(* mergeCandleIntoRollup, of each of them.                                 *)
Merged(cs, key) == FlattenSeq(SourcesOf(cs, key))

(* #rebuildRollupBucket                                                    *)
Rebucketed(cs, key) ==
  [k \in DOMAIN cs \cup {key} |-> IF k = key THEN Merged(cs, key) ELSE cs[k]]

(* Mutant: a bucket is rebuilt before the one it is made of.               *)
BucketsRebuilt_Downwards(cs, t) ==
  LET upTo[i \in Intervals] ==
        IF i = 1 THEN cs ELSE Rebucketed(upTo[i - 1], KeyAt(Len(Seconds) + 2 - i, t))
  IN upTo[Len(Seconds)]

(* The buckets of a block's time, each from rebuilt sources.               *)
BucketsRebuilt(cs, t) ==
  LET upTo[i \in Intervals] ==
        IF i = 1 THEN cs ELSE Rebucketed(upTo[i - 1], KeyAt(i, t))
  IN upTo[Len(Seconds)]

(* #applyCanonicalAppend, of a block none of whose events throws.          *)
Incremented(cs, env) ==
  IF env.kept = {} THEN cs ELSE BucketsRebuilt(MinuteApplied(cs, env), Time[env.id])

(* #buildCandleRollups: every bucket of every interval, from the minutes.  *)
WithInterval(cs, i) ==
  LET keys == {KeyAt(i, k[2]) : k \in {s \in DOMAIN cs : s[1] = Source[i]}} IN
  [k \in DOMAIN cs \cup keys |-> IF k \in keys THEN Merged(cs, k) ELSE cs[k]]
RolledUp(minutes) ==
  LET upTo[i \in Intervals] == IF i = 1 THEN minutes ELSE WithInterval(upTo[i - 1], i)
  IN upTo[Len(Seconds)]

NoCandles == [k \in {} |-> <<>>]

(* #rebuild of the candles: a block that throws leaves only minutes.       *)
MinutesOf(chain) ==
  LET upTo[n \in 0..Len(chain)] ==
        IF n = 0 THEN NoCandles ELSE MinuteApplied(upTo[n - 1], chain[n])
  IN upTo[Len(chain)]
CandlesRebuilt ==
  IF views' = blocks' THEN RolledUp(MinutesOf(views')) ELSE MinutesOf(views')

(* restoreCheckpoint ingests the blocks one by one.                        *)
CandlesIngested(chain) ==
  LET upTo[n \in 0..Len(chain)] ==
        IF n = 0 THEN NoCandles ELSE Incremented(upTo[n - 1], chain[n])
  IN upTo[Len(chain)]

(* Mutant: a candle is final a second too late.                            *)
NewlyFinalized_Late(cs, before, t) ==
  {k \in {KeyAt(i, before) : i \in Intervals} \cap DOMAIN cs :
     before < End(k) /\ End(k) < t}

(* #newlyFinalizedCandleKeys                                               *)
NewlyFinalized(cs, before, t) ==
  {k \in {KeyAt(i, before) : i \in Intervals} \cap DOMAIN cs :
     before < End(k) /\ End(k) <= t}

(* finalizeCandle, at the head of the chain.                               *)
Finalized(cs, chain) ==
  [k \in DOMAIN cs |-> [updates |-> cs[k], final |-> End(k) <= Time[Last(chain).id]]]

(* A follower keeps the candle of the higher revision.                     *)
Newer(old, new) == IF Len(new.updates) >= Len(old.updates) THEN new ELSE old
Follows(changes) ==
  [k \in DOMAIN followed \cup DOMAIN changes |->
     IF k \notin DOMAIN changes THEN followed[k]
     ELSE IF k \in DOMAIN followed THEN Newer(followed[k], changes[k]) ELSE changes[k]]

-----------------------------------------------------------------------------
CandleInit == Init /\ candles = NoCandles /\ followed = NoCandles

(* #applyCanonicalAppend.  A block that throws has updated its minute, but *)
(* nothing is rolled up and nothing is published.                          *)
CandlesAppended(b) ==
  LET env == Last(views')
      touched == IF env.kept = {} THEN {} ELSE {KeyAt(i, Time[b]) : i \in Intervals}
      final == IF blocks = <<>> THEN {}
               ELSE NewlyFinalized(candles, Time[Last(blocks).id], Time[b])
  IN
  /\ Appended(b)
  /\ IF env = Last(blocks')
     THEN /\ candles' = Incremented(candles, env)
          /\ followed' = Follows([k \in touched \cup final |-> Finalized(candles', blocks')[k]])
     ELSE candles' = MinuteApplied(candles, env) /\ UNCHANGED followed

(* A reorg and a rewind rebuild, and make followers reload.                *)
CandlesReplaced(b) ==
  /\ Reorged(b) \/ Rewound(b)
  /\ candles' = CandlesRebuilt
  /\ followed' = IF views' = blocks' THEN Finalized(candles', blocks') ELSE followed

CandlesDuplicated(b) == Duplicated(b) /\ UNCHANGED <<candles, followed>>

(* A restored engine ingests its blocks; followers stay.                   *)
CandlesRestored ==
  /\ Restored
  /\ candles' = CandlesIngested(blocks')
  /\ UNCHANGED followed

CandleNext ==
  \/ \E b \in Offered : CandlesAppended(b) \/ CandlesReplaced(b) \/ CandlesDuplicated(b)
  \/ CandlesRestored

CandleSpec == CandleInit /\ [][CandleNext]_candleVars

-----------------------------------------------------------------------------
(* Every candle of the retained blocks, made directly of their events.     *)
Share(env, k) == IF KeyAt(k[1], Time[env.id]) = k THEN InOrder(env) ELSE <<>>
ReferenceOf(chain) ==
  LET keys == {KeyAt(i, Time[chain[n].id]) :
                 i \in Intervals, n \in {m \in DOMAIN chain : chain[m].kept # {}}} IN
  [k \in keys |-> FlattenSeq([n \in DOMAIN chain |-> Share(chain[n], k)])]
Reference == ReferenceOf(blocks)

(* Each candle of every interval holds each event of its time once and in  *)
(* order, whether it was appended to, rebuilt or restored; and a follower  *)
(* who was told only of changes holds all of them, and knows which are     *)
(* final.                                                                  *)
CandlesFollowed ==
  Whole /\ blocks # <<>> => /\ candles = Reference
                            /\ followed = Finalized(Reference, blocks)
=============================================================================
