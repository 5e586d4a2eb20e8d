-------------------------- MODULE CanonicalEngine --------------------------
(***************************************************************************)
(* The canonical chain of the analytics engine (engine.ts): the retained   *)
(* blocks, the index of event identities, the views derived from them      *)
(* (candles, positions, pools), and the coverage of a complete history.    *)
(*                                                                         *)
(* A block's hash determines its number, parent, time and events.  An      *)
(* event has an identity, under which a later block may deliver it again,  *)
(* and may require earlier events: a withdrawal needs its deposit.  An     *)
(* event whose requirements are missing throws out of ingestBlock.         *)
(*                                                                         *)
(* The views are a function of the events applied, so they are modelled by *)
(* the chain of those events: an envelope that threw is there, cut short.  *)
(***************************************************************************)
EXTENDS Integers, SequencesExt

CONSTANTS
  Blocks,      \* block hashes a source may submit
  Start,       \* blocks a source may begin its history with
  Parent,      \* parent hash of a block
  Number,      \* block number
  Time,        \* block timestamp
  Events,      \* identities of a block's events, in order
  Requires,    \* identities an event needs applied before it
  MaxReorgs    \* bound: reorgs in a behaviour

EventIds == UNION {Range(Events[b]) : b \in Blocks}

ASSUME BlockAssumption ==
  /\ Start \subseteq Blocks
  /\ Number \in [Blocks -> Nat] /\ Time \in [Blocks -> Nat]
  /\ \A b \in Blocks : IsInjective(Events[b])
  /\ \A b, c \in Blocks : Parent[b] = c => Number[c] < Number[b]
(* The consensus rule of the chain that is followed.                       *)
ASSUME ClockAssumption ==
  \A b, c \in Blocks : Parent[b] = c => Time[c] <= Time[b]
ASSUME ReorgBound == MaxReorgs \in Nat

VARIABLES
  blocks,          \* #blocks: canonical envelopes, oldest first
  eventIndex,      \* #canonicalEventFingerprints
  views,           \* the derived state: envelopes applied
  reorgCount,      \* #reorgCount
  backfillStatus,  \* #backfillStatus
  coverageThrough  \* #coverageThroughTimestamp; -1 is null

engineVars == <<blocks, eventIndex, views, reorgCount, backfillStatus, coverageThrough>>

-----------------------------------------------------------------------------
(* Chains of envelopes [id, kept]: a block and those of its events whose   *)
(* identities were new; the block lists them in order.                     *)

Identities(chain) == UNION {chain[i].kept : i \in DOMAIN chain}

(* Mutant: known identities are kept.                                      *)
Canonical_Unfiltered(b, known) == [id |-> b, kept |-> Range(Events[b])]

(* canonicalizeBlock: an event of a known identity is left out.            *)
Canonical(b, known) == [id |-> b, kept |-> Range(Events[b]) \ known]

InOrder(env) ==
  FlattenSeq([n \in DOMAIN Events[env.id] |->
                IF Events[env.id][n] \in env.kept THEN <<Events[env.id][n]>> ELSE <<>>])

Prefix(chain, n) == SubSeq(chain, 1, n)

(* An event applies when all it requires was applied, of its own block     *)
(* too, where that lists it earlier.                                       *)
Applies(done, env, n) ==
  Events[env.id][n] \in env.kept =>
    Requires[Events[env.id][n]] \subseteq
      done \cup (env.kept \cap {Events[env.id][m] : m \in 1..(n - 1)})

(* #applyCanonicalBlock: events in order, up to the first that throws.     *)
Applied(done, env) ==
  [env EXCEPT !.kept =
     {e \in @ : \E n \in DOMAIN Events[env.id] :
                 Events[env.id][n] = e /\ \A m \in 1..n : Applies(done, env, m)}]

(* #rebuild: the retained blocks again, up to the first that throws.       *)
Torn(chain) ==
  {i \in DOMAIN chain : Applied(Identities(Prefix(chain, i - 1)), chain[i]) # chain[i]}
Rebuilt(chain) ==
  IF Torn(chain) = {} THEN chain
  ELSE LET stem == Prefix(chain, Min(Torn(chain)) - 1) IN
       Append(stem, Applied(Identities(stem), chain[Min(Torn(chain))]))

RetainedIn(chain, b) == \E i \in DOMAIN chain : chain[i].id = b
IndexOf(chain, b) == CHOOSE i \in DOMAIN chain : chain[i].id = b

(* Mutant: the parent hash is not compared.                                *)
Extends_ByNumber(chain, b) == chain # <<>> => Number[b] = Number[Last(chain).id] + 1

Extends(chain, b) ==
  chain # <<>> => /\ Number[b] = Number[Last(chain).id] + 1
                  /\ Parent[b] = Last(chain).id

(* The branch of chain that b replaces starts after its parent.            *)
Forks(chain, b) ==
  /\ ~Extends(chain, b)
  /\ RetainedIn(chain, Parent[b])
  /\ Number[b] = Number[Parent[b]] + 1

-----------------------------------------------------------------------------
Init ==
  /\ blocks = <<>>
  /\ eventIndex = {}
  /\ views = <<>>
  /\ reorgCount = 0
  /\ backfillStatus \in {"unavailable", "complete"}
  /\ coverageThrough = -1

(* #advanceCoverage, by a block applied without a throw.                   *)
Advanced(b) == IF backfillStatus = "complete" THEN Time[b] ELSE coverageThrough

(* ingestBlock of a block that extends the head.  The envelope is retained *)
(* before it is applied; its identities and the coverage follow only if    *)
(* no event threw.                                                         *)
Appended(b) ==
  LET env == Canonical(b, eventIndex)
      done == Applied(Identities(views), env)
  IN
  /\ ~RetainedIn(blocks, b)
  /\ Extends(blocks, b)
  /\ blocks' = Append(blocks, env)
  /\ views' = Append(views, done)
  /\ eventIndex' = IF done = env THEN eventIndex \cup env.kept
                                 ELSE eventIndex
  /\ coverageThrough' = IF done = env THEN Advanced(b) ELSE coverageThrough
  /\ UNCHANGED <<reorgCount, backfillStatus>>

(* Mutant: the events of the orphaned branch stay indexed.                 *)
Reorged_KeepsIndex(b) ==
  /\ ~RetainedIn(blocks, b)
  /\ Forks(blocks, b)
  /\ reorgCount < MaxReorgs
  /\ LET stem == Prefix(blocks, IndexOf(blocks, Parent[b])) IN
       blocks' = Append(stem, Canonical(b, Identities(stem)))
  /\ eventIndex' = eventIndex \cup Identities(blocks')
  /\ reorgCount' = reorgCount + 1
  /\ views' = Rebuilt(blocks')
  /\ coverageThrough' = IF views' = blocks' THEN Advanced(b) ELSE coverageThrough
  /\ UNCHANGED backfillStatus

(* Mutant: the new block is applied to the views of the old branch.        *)
Reorged_Incremental(b) ==
  /\ ~RetainedIn(blocks, b)
  /\ Forks(blocks, b)
  /\ reorgCount < MaxReorgs
  /\ LET stem == Prefix(blocks, IndexOf(blocks, Parent[b])) IN
       blocks' = Append(stem, Canonical(b, Identities(stem)))
  /\ eventIndex' = Identities(blocks')
  /\ reorgCount' = reorgCount + 1
  /\ views' = Append(views, Last(blocks'))
  /\ coverageThrough' = Advanced(b)
  /\ UNCHANGED backfillStatus

(* ingestBlock of a block whose parent is retained below the head: the     *)
(* suffix is spliced out, the index replaced and every view rebuilt.       *)
Reorged(b) ==
  /\ ~RetainedIn(blocks, b)
  /\ Forks(blocks, b)
  /\ reorgCount < MaxReorgs
  /\ LET stem == Prefix(blocks, IndexOf(blocks, Parent[b])) IN
       blocks' = Append(stem, Canonical(b, Identities(stem)))
  /\ eventIndex' = Identities(blocks')
  /\ reorgCount' = reorgCount + 1
  /\ views' = Rebuilt(blocks')
  /\ coverageThrough' = IF views' = blocks' THEN Advanced(b) ELSE coverageThrough
  /\ UNCHANGED backfillStatus

(* Mutant: compared after canonicalisation against the whole history.      *)
SamePayload_ByIndex(b) == blocks[IndexOf(blocks, b)] = Canonical(b, eventIndex)

(* ingestBlock of a retained block: a no-op when its payload, canonical    *)
(* at its place in the chain, is unchanged.                                *)
SamePayload(b) ==
  LET i == IndexOf(blocks, b) IN
  blocks[i] = Canonical(b, Identities(Prefix(blocks, i - 1)))
Duplicated(b) ==
  /\ RetainedIn(blocks, b)
  /\ SamePayload(b)
  /\ UNCHANGED engineVars

(* Mutant: coverage does not step back with the head.                      *)
Rewound_KeepsCoverage(b) ==
  /\ RetainedIn(blocks, b)
  /\ Last(blocks).id # b
  /\ reorgCount < MaxReorgs
  /\ blocks' = Prefix(blocks, IndexOf(blocks, b))
  /\ eventIndex' = Identities(blocks')
  /\ reorgCount' = reorgCount + 1
  /\ views' = Rebuilt(blocks')
  /\ UNCHANGED <<backfillStatus, coverageThrough>>

(* Mutant: coverage ends before the new head.                              *)
Rewound_BeforeHead(b) ==
  /\ RetainedIn(blocks, b)
  /\ Last(blocks).id # b
  /\ reorgCount < MaxReorgs
  /\ blocks' = Prefix(blocks, IndexOf(blocks, b))
  /\ eventIndex' = Identities(blocks')
  /\ reorgCount' = reorgCount + 1
  /\ views' = Rebuilt(blocks')
  /\ coverageThrough' = Time[b] - 1
  /\ UNCHANGED backfillStatus

(* Mutant: the events of the abandoned suffix stay indexed.                *)
Rewound_KeepsIndex(b) ==
  /\ RetainedIn(blocks, b)
  /\ Last(blocks).id # b
  /\ reorgCount < MaxReorgs
  /\ blocks' = Prefix(blocks, IndexOf(blocks, b))
  /\ reorgCount' = reorgCount + 1
  /\ views' = Rebuilt(blocks')
  /\ coverageThrough' = Time[b]
  /\ UNCHANGED <<eventIndex, backfillStatus>>

(* rewindCanonicalHead to a retained ancestor of the head.                 *)
Rewound(b) ==
  /\ RetainedIn(blocks, b)
  /\ Last(blocks).id # b
  /\ reorgCount < MaxReorgs
  /\ blocks' = Prefix(blocks, IndexOf(blocks, b))
  /\ eventIndex' = Identities(blocks')
  /\ reorgCount' = reorgCount + 1
  /\ views' = Rebuilt(blocks')
  /\ coverageThrough' = IF views' = blocks' /\ Time[b] < coverageThrough
                        THEN Time[b] ELSE coverageThrough
  /\ UNCHANGED backfillStatus

(* restoreCheckpoint in a fresh engine: a checkpoint's blocks in number    *)
(* order, each ingested, then its reorg count and state of the backfill.   *)
Replayed(payloads) ==
  [i \in DOMAIN payloads |->
     [payloads[i] EXCEPT !.kept = @ \ Identities(Prefix(payloads, i - 1))]]
Linked(payloads) ==
  \A i \in 2..Len(payloads) : Extends(Prefix(payloads, i - 1), payloads[i].id)
Restorable(payloads) ==
  Linked(payloads) /\ Torn(Replayed(payloads)) = {}
RestoreCheckpoint(payloads, reorgs, status, coverage) ==
  /\ blocks' = Replayed(payloads)
  /\ eventIndex' = Identities(blocks')
  /\ views' = blocks'
  /\ reorgCount' = reorgs
  /\ backfillStatus' = status
  /\ coverageThrough' = coverage

(* Export and restore in a new process.                                    *)
Restored ==
  /\ Restorable(blocks)
  /\ RestoreCheckpoint(blocks, reorgCount, backfillStatus, coverageThrough)

(* What a source of canonical blocks may submit.                           *)
Offered == IF blocks = <<>> THEN Start ELSE Blocks

Next ==
  \/ \E b \in Offered : Appended(b) \/ Reorged(b) \/ Duplicated(b) \/ Rewound(b)
  \/ Restored

Spec == Init /\ [][Next]_engineVars

-----------------------------------------------------------------------------
Envelope == [id : Blocks, kept : SUBSET EventIds]

TypeOK ==
  /\ blocks \in Seq(Envelope)
  /\ eventIndex \subseteq EventIds
  /\ views \in Seq(Envelope)
  /\ reorgCount \in 0..MaxReorgs
  /\ backfillStatus \in {"unavailable", "running", "partial", "capped", "complete"}
  /\ coverageThrough \in {-1} \cup Range(Time)

(* The retained blocks are one chain, each the child of the one before.    *)
ChainLinked ==
  \A i \in 2..Len(blocks) :
    /\ Parent[blocks[i].id] = blocks[i - 1].id
    /\ Number[blocks[i].id] = Number[blocks[i - 1].id] + 1

(* A block that throws tears the engine until a reorg or a rewind removes  *)
(* it.  Whatever was torn before, once every retained block applies:       *)
Whole == Restorable(blocks)

(* - no event counts twice: its identity is kept by one retained block     *)
(*   only, and the index that decides it knows exactly those identities;   *)
EventsOnce ==
  Whole =>
    /\ eventIndex = Identities(blocks)
    /\ \A i, j \in DOMAIN blocks :
         i # j => blocks[i].kept \cap blocks[j].kept = {}

(* - the views hold each retained block, however the chain got here;       *)
ViewsMatchBlocks == Whole => views = blocks

(* - re-delivery is harmless: every retained block is still recognised as  *)
(*   a duplicate, although its events were canonicalised against another   *)
(*   history than the one retained now;                                    *)
RedeliveryAccepted ==
  Whole => \A i \in DOMAIN blocks : SamePayload(blocks[i].id)

(* - a complete history covers its head, and no history claims more.       *)
CoverageTracksHead ==
  Whole /\ blocks # <<>> =>
    /\ backfillStatus = "complete" => coverageThrough = Time[Last(blocks).id]
    /\ backfillStatus # "running" => coverageThrough <= Time[Last(blocks).id]

(* All of it at once: the chain is linked, no event counts twice, and the  *)
(* coverage ends at the head.                                              *)
ChainConsistent == TypeOK /\ ChainLinked /\ EventsOnce /\ CoverageTracksHead

(* A checkpoint restores the engine it was exported from.                  *)
RestoreFaithful ==
  views = blocks => Restorable(blocks) /\ Replayed(blocks) = blocks
=============================================================================
