----------------------------- MODULE PoolStream -----------------------------
(***************************************************************************)
(* The live bins of one pool, from the canonical block source, which reads *)
(* a selection of bins after each block (canonical-block-source.mjs),      *)
(* through the engine, which replaces those that changed (engine.ts), and  *)
(* the service, which streams the replacements (service.ts), to a browser  *)
(* that keeps a window of them around the active bin (analytics-data.ts,   *)
(* pool-workspace-context.tsx).                                            *)
(*                                                                         *)
(* A bin's reserves and supply are one bit, which changes whenever a block *)
(* trades through the bin or changes its liquidity.  The log of the stream *)
(* and its cursors are StreamHub's: a browser receives the frames after    *)
(* its cursor in order, or is refused and loads anew.  A retained state is *)
(* what a rebuild of the engine up to it would give (ViewsMatchBlocks of   *)
(* CanonicalEngine).                                                       *)
(***************************************************************************)
EXTENDS Integers, SequencesExt, FiniteSetsExt

CONSTANTS
  MaxId,       \* MAX_UINT24
  Radius,      \* POOL_BIN_RADIUS, POOL_STREAM_RADIUS and the browser's radius
  MaxReads,    \* MAX_INCREMENTAL_BIN_READS
  MaxPending,  \* MAX_PENDING_POOL_STREAM_UPDATES
  Reset,       \* the frame that ends a stream
  MaxEvents,   \* bound: events mined after the pool's creation
  PoolReorgs,  \* bound: reorganisations
  MaxFaults    \* bound: restarts of the service

ASSUME PoolAssumption ==
  /\ MaxId \in Nat /\ Radius \in Nat
  /\ MaxReads = 2 * Radius + 1
  /\ MaxPending \in Nat \ {0}
  /\ MaxEvents \in Nat /\ PoolReorgs \in Nat /\ MaxFaults \in Nat

VARIABLES
  retained,  \* the chain's pool and the engine's, after each retained block
  forced,    \* the next block is read in full: a resumed source
  phase,     \* the service: backfill or live
  log,       \* frames published
  browser,   \* the workspace of one browser
  minted,    \* events mined
  reorgs, faults

poolVars == <<retained, forced, phase, log, browser, minted, reorgs, faults>>

Ids == 0..MaxId

-----------------------------------------------------------------------------
(* The chain.  A block's events are swaps, each to a new active bin, and   *)
(* deposits or withdrawals of one bin.                                     *)
Event == [kind : {"swap", "liquidity"}, id : Ids]
Eventful == SeqOf(Event, MaxEvents - minted) \ {<<>>}

Between(a, b) == Max({0, Min({a, b})})..Min({MaxId, Max({a, b})})

(* Where the swaps of a block are, and the active bin before its n-th      *)
(* event.                                                                  *)
SwapsAt(events) == {i \in DOMAIN events : events[i].kind = "swap"}
ActiveBefore(active, events, n) ==
  LET earlier == {i \in SwapsAt(events) : i < n} IN
  IF earlier = {} THEN active ELSE events[Max(earlier)].id
ActiveAfter(active, events) == ActiveBefore(active, events, Len(events) + 1)

(* Bins that a block trades through, or whose liquidity it changes.        *)
Named(events) == {events[i].id : i \in DOMAIN events \ SwapsAt(events)}
Traded(active, events) ==
  Named(events) \cup
    UNION {Between(ActiveBefore(active, events, i), events[i].id) : i \in SwapsAt(events)}
Toggled(content, ids) == [id \in Ids |-> IF id \in ids THEN 1 - content[id] ELSE content[id]]

-----------------------------------------------------------------------------
(* The source: selectObservedBinIds.                                       *)

(* Mutant: every range starts at the block's first active bin.             *)
Crossed_FromFirst(active, events) ==
  Between(active, ActiveAfter(active, events)) \cap
    UNION {Between(active, events[i].id) : i \in SwapsAt(events)}

(* addRange, from swap to swap.                                            *)
Crossed(active, events) ==
  UNION {Between(ActiveBefore(active, events, i), events[i].id) : i \in SwapsAt(events)}

Window(active) == Max({0, active - Radius})..Min({MaxId, active + Radius})

(* Mutant: bins that come into view are not read.                          *)
Edge_None(prior, active) == {}

Edge(prior, active) ==
  IF active > prior THEN (prior + Radius + 1)..Min({MaxId, active + Radius})
  ELSE IF active < prior THEN Max({0, active - Radius})..(prior - Radius - 1)
  ELSE {}

(* What is read after a block, and whether it replaces the window: beyond  *)
(* MaxReads, and in full reads, the centred window.                        *)
Observation(prior, events, full) ==
  LET active == ActiveAfter(prior, events)
      ids == Crossed(prior, events) \cup Named(events) \cup {active} \cup Edge(prior, active)
  IN
  IF full \/ Cardinality(ids) > MaxReads THEN [ids |-> Window(active), replace |-> TRUE]
  ELSE [ids |-> ids, replace |-> FALSE]

-----------------------------------------------------------------------------
(* The engine: #applyPoolStateObservation.                                 *)
Bin(content, revision) == [content |-> content, revision |-> revision]
Unchanged(bins, id, content) == id \in DOMAIN bins /\ bins[id].content = content[id]
RevisionOf(bins, id) == IF id \in DOMAIN bins THEN bins[id].revision ELSE 0
Observed(bins, id, content) ==
  IF Unchanged(bins, id, content) THEN bins[id]
  ELSE Bin(content[id], RevisionOf(bins, id) + 1)

(* Mutant: a new window keeps the bins outside it.                         *)
BinsAfter_Keeps(bins, obs, content) ==
  [id \in obs.ids \cup DOMAIN bins |->
     IF id \in obs.ids THEN Observed(bins, id, content) ELSE bins[id]]

BinsAfter(bins, obs, content) ==
  [id \in obs.ids \cup (IF obs.replace THEN {} ELSE DOMAIN bins) |->
     IF id \in obs.ids THEN Observed(bins, id, content) ELSE bins[id]]

(* binReplacements: a sparse update omits the bins that did not change.    *)
Replacements(bins, obs, content) ==
  {id \in obs.ids : obs.replace \/ ~Unchanged(bins, id, content)}

Current == Last(retained)
After(prior, events, full) ==
  LET content == Toggled(prior.content, Traded(prior.active, events))
      obs == Observation(prior.active, events, full)
  IN
  [hash     |-> minted + Len(events),
   active   |-> ActiveAfter(prior.active, events),
   content  |-> content,
   revision |-> prior.revision + 1,
   bins     |-> BinsAfter(prior.bins, obs, content)]

(* The frame of the update to state, the n-th block.                       *)
Frame(n, state, ids, replace) ==
  [number   |-> n,
   hash     |-> state.hash,
   active   |-> state.active,
   revision |-> state.revision,
   bins     |-> [id \in ids |-> state.bins[id]],
   replace  |-> replace]

-----------------------------------------------------------------------------
(* The browser's cache: applyPoolStateUpdate.                              *)
Base(shown, f) == IF f.replace THEN <<>> ELSE shown.bins

(* The checks that would throw.                                            *)
Fits(shown, c) ==
  LET f == log[c] IN
  /\ c > shown.cursor
  /\ f.number >= shown.number
  /\ f.number = shown.number => f.hash = shown.hash
  /\ f.revision > shown.revision
  /\ \A id \in DOMAIN f.bins \cap DOMAIN Base(shown, f) :
       f.bins[id].revision >= Base(shown, f)[id].revision

(* Mutant: the cache is not pruned.                                        *)
Shows_Unpruned(shown, c) ==
  LET f == log[c]
      ids == DOMAIN f.bins \cup DOMAIN Base(shown, f)
  IN
  [cursor   |-> c,
   number   |-> f.number,
   hash     |-> f.hash,
   active   |-> f.active,
   revision |-> f.revision,
   bins     |-> [id \in ids |-> IF id \in DOMAIN f.bins THEN f.bins[id] ELSE shown.bins[id]]]

(* The update applied, and the cache pruned to the window.                 *)
Shows(shown, c) ==
  LET f == log[c]
      ids == (DOMAIN f.bins \cup DOMAIN Base(shown, f)) \cap Window(f.active)
  IN
  [cursor   |-> c,
   number   |-> f.number,
   hash     |-> f.hash,
   active   |-> f.active,
   revision |-> f.revision,
   bins     |-> [id \in ids |-> IF id \in DOMAIN f.bins THEN f.bins[id] ELSE shown.bins[id]]]

(* The updates at cursors cs, applied in turn.                             *)
ShowsAll(shown, cs) ==
  LET after[n \in 0..Len(cs)] == IF n = 0 THEN shown ELSE Shows(after[n - 1], cs[n])
  IN after[Len(cs)]
FitsAll(shown, cs) ==
  \A i \in DOMAIN cs : Fits(ShowsAll(shown, SubSeq(cs, 1, i - 1)), cs[i])

NotLoaded == [state |-> "loading", cursor |-> 0, shown |-> [cursor |-> 0],
              pending |-> <<>>, batch |-> <<>>]

-----------------------------------------------------------------------------
(* The pool's creation is read in full.                                    *)
Created(active) ==
  [hash |-> 0, active |-> active, content |-> [id \in Ids |-> 0], revision |-> 1,
   bins |-> [id \in Window(active) |-> Bin(0, 1)]]

PoolInit ==
  /\ \E active \in Ids : retained = <<Created(active)>>
  /\ forced = FALSE
  /\ phase = "live"
  /\ log = <<>>
  /\ browser = NotLoaded
  /\ minted = 0 /\ reorgs = 0 /\ faults = 0

Published(frame) == log' = Append(log, frame)

(* A block with events of the pool is read, ingested and, live, published. *)
(* A sparse block of a resumed start is read in full.                      *)
Block(events) ==
  LET state == After(Current, events, forced)
      obs == Observation(Current.active, events, forced)
  IN
  /\ retained' = Append(retained, state)
  /\ minted' = minted + Len(events)
  /\ forced' = FALSE
  /\ IF phase = "live"
     THEN Published(Frame(Len(retained'), state,
                          Replacements(Current.bins, obs, state.content), obs.replace))
     ELSE UNCHANGED log
  /\ UNCHANGED <<phase, browser, reorgs, faults>>

(* A block replaces those after the n-th: poolProgress is that of the      *)
(* ancestor, the engine rebuilds, and all that is published is a reset.    *)
Reorg(n, events) ==
  /\ phase = "live" /\ ~forced
  /\ n < Len(retained)
  /\ reorgs < PoolReorgs
  /\ retained' = Append(SubSeq(retained, 1, n), After(retained[n], events, FALSE))
  /\ minted' = minted + Len(events)
  /\ reorgs' = reorgs + 1
  /\ Published(Reset)
  /\ UNCHANGED <<forced, phase, browser, faults>>

(* The head moves back to the n-th block.                                  *)
Rewind(n) ==
  /\ phase = "live" /\ ~forced
  /\ n < Len(retained)
  /\ reorgs < PoolReorgs
  /\ retained' = SubSeq(retained, 1, n)
  /\ reorgs' = reorgs + 1
  /\ Published(Reset)
  /\ UNCHANGED <<forced, phase, browser, minted, faults>>

(* The process restarts from its durable state and backfills.              *)
Restart ==
  /\ faults < MaxFaults
  /\ phase = "live"
  /\ phase' = "backfill"
  /\ forced' = TRUE
  /\ faults' = faults + 1
  /\ UNCHANGED <<retained, log, browser, minted, reorgs>>

(* The backfill ends: poolSnapshotUpdate is published.                     *)
EndBackfill ==
  /\ phase = "backfill"
  /\ phase' = "live"
  /\ Published(Frame(Len(retained), Current, DOMAIN Current.bins \cap Window(Current.active), TRUE))
  /\ UNCHANGED <<retained, forced, browser, minted, reorgs, faults>>

-----------------------------------------------------------------------------
(* The browser.                                                            *)

(* The bootstrap query: the pool, its window and the stream's cursor.      *)
Load ==
  /\ phase = "live"
  /\ browser.state = "loading"
  /\ browser' =
       [state   |-> "live",
        cursor  |-> Len(log),
        shown   |-> [cursor   |-> Len(log),
                     number   |-> Len(retained),
                     hash     |-> Current.hash,
                     active   |-> Current.active,
                     revision |-> Current.revision,
                     bins     |-> [id \in DOMAIN Current.bins \cap Window(Current.active) |->
                                     Current.bins[id]]],
        pending |-> <<>>,
        batch   |-> <<>>]
  /\ UNCHANGED <<retained, forced, phase, log, minted, reorgs, faults>>

(* reset: what was shown and is pending is dropped, and a new query begun. *)
Resets == browser' = NotLoaded

(* onPoolState, or the reset frame.                                        *)
Receive ==
  /\ browser.state = "live"
  /\ browser.cursor < Len(log)
  /\ LET c == browser.cursor + 1 IN
     IF \/ log[c] = Reset
        \/ ~Fits(ShowsAll(browser.shown, browser.pending), c)
        \/ Len(browser.pending) >= MaxPending
     THEN Resets
     ELSE browser' = [browser EXCEPT !.cursor = c, !.pending = Append(@, c)]
  /\ UNCHANGED <<retained, forced, phase, log, minted, reorgs, faults>>

(* drainUpdates takes the pending updates and reads the pool's economics   *)
(* at the state they lead to ...                                           *)
Drain ==
  /\ browser.state = "live"
  /\ browser.batch = <<>> /\ browser.pending # <<>>
  /\ IF FitsAll(browser.shown, browser.pending)
     THEN browser' = [browser EXCEPT !.batch = browser.pending, !.pending = <<>>]
     ELSE Resets
  /\ UNCHANGED <<retained, forced, phase, log, minted, reorgs, faults>>

(* Mutant: only the newest update of the batch is applied.                 *)
Attested_Newest ==
  /\ browser.batch # <<>>
  /\ browser' = [browser EXCEPT !.shown = Shows(@, Last(browser.batch)), !.batch = <<>>]
  /\ UNCHANGED <<retained, forced, phase, log, minted, reorgs, faults>>

(* ... and applies them when the read is back.                             *)
Attested ==
  /\ browser.batch # <<>>
  /\ browser' = [browser EXCEPT !.shown = ShowsAll(@, browser.batch), !.batch = <<>>]
  /\ UNCHANGED <<retained, forced, phase, log, minted, reorgs, faults>>

(* The read fails, or the stream is refused.                               *)
Fails ==
  /\ browser.state = "live"
  /\ Resets
  /\ UNCHANGED <<retained, forced, phase, log, minted, reorgs, faults>>

PoolNext ==
  \/ \E events \in Eventful : Block(events) \/ \E n \in DOMAIN retained : Reorg(n, events)
  \/ \E n \in DOMAIN retained : Rewind(n)
  \/ Restart \/ EndBackfill
  \/ Load \/ Receive \/ Drain \/ Attested \/ Fails

PoolSpec == PoolInit /\ [][PoolNext]_poolVars

-----------------------------------------------------------------------------
(* The engine holds every bin of the window, and what it holds of the pool *)
(* is what the chain holds, however few bins were read.                    *)
WindowExact ==
  /\ Window(Current.active) \subseteq DOMAIN Current.bins
  /\ \A id \in DOMAIN Current.bins : Current.bins[id].content = Current.content[id]

(* The browser has received and applied all there is.                      *)
CaughtUp ==
  /\ phase = "live" /\ browser.state = "live"
  /\ browser.cursor = Len(log) /\ browser.pending = <<>> /\ browser.batch = <<>>

(* A browser that is caught up shows the pool's state and the active bin,  *)
(* nothing outside the window, and no bin that is not the engine's.        *)
ShownTrue ==
  CaughtUp =>
    /\ browser.shown.revision = Current.revision
    /\ browser.shown.active = Current.active
    /\ Current.active \in DOMAIN browser.shown.bins
    /\ DOMAIN browser.shown.bins \subseteq Window(Current.active)
    /\ \A id \in DOMAIN browser.shown.bins : browser.shown.bins[id] = Current.bins[id]

(* No update in the stream is refused while none awaits its read, except a *)
(* backfill's snapshot of the revision that is shown already.              *)
UpdatesFit ==
  /\ browser.state = "live" /\ browser.batch = <<>>
  /\ browser.cursor < Len(log) /\ log[browser.cursor + 1] # Reset
  => LET shown == ShowsAll(browser.shown, browser.pending) IN
     \/ Fits(shown, browser.cursor + 1)
     \/ log[browser.cursor + 1].replace /\ log[browser.cursor + 1].revision = shown.revision

(* So the stream, where it does not reset a browser, leaves it with truth. *)
BrowserFollows == ShownTrue /\ UpdatesFit

(* A browser that is caught up shows the window it would load.             *)
ShownComplete ==
  CaughtUp => DOMAIN browser.shown.bins = Window(Current.active)
=============================================================================
