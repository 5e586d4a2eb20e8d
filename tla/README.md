# Verification of Feather Trade

This directory holds a TLA+ development kept beside the Feather Trade
repository: modules that model the stateful core of the analytics service, of the adapter and the
database it depends on, and of the web application's live view, transaction journal and full exit;
TLC configurations that check them on small instances; and TLAPS proofs of what
matters most for every instance. Paths below are relative to `src/`.

Contents: [the system](#1-the-system) · [what is hard about it](#2-what-is-hard-about-it) ·
[modules](#3-modules-and-their-code) · [runs](#4-runs) · [fairness](#5-fairness) ·
[proofs](#6-proofs) · [findings](#7-findings) · [not modelled](#8-what-is-not-modelled) ·
[plan](#9-plan) · [how to run](#10-how-to-run)

## 1. The system

Feather Trade is a front end and an indexing service for Liquidity Book pools
(Trader Joe v2 contracts). Its own logic sits in four places: the analytics
service (`packages/analytics`), the adapters that feed it
(`infra/vps/adapters`), the web application (`apps/web`) and the SDK
(`packages/sdk`). The contracts are vendored.

```
 chain RPC --> block source --> AnalyticsApiService --> store (PostgreSQL | file)
               (pages, reorgs)   | mutation mutex        | canonical_blocks, candles,
                                 | CanonicalEngine       | stream_events, writer lease
                                 | CandleStreamHub       '--> restart: create() / restore()
               server-cli, runtime: start, supervise, shut down
                                 v
                         HTTP reads + server-sent events --> browser live view (candles, pool bins)
                                                             transaction journal --> wallet, chain
                                                             full exit in batches --'
```

| Component | State it keeps | Operations | Interacts with | Correct when |
|---|---|---|---|---|
| Canonical engine, `engine.ts` `CanonicalAnalyticsEngine` | retained blocks, event identity index, views (pools, candles, positions), reorg count, backfill coverage | `ingestBlock`, `rewindCanonicalHead`, `exportCheckpoint`, `restoreCheckpoint`, queries | called under the service's mutex | the blocks are one chain; no event counts twice; views equal a rebuild; a restore gives the same engine |
| Candle roll-ups, `engine.ts` | buckets of seven nested intervals, keys changed last | incremental update, finalisation, rebuild | engine, stream | incremental = rebuilt; followers are told of every change |
| Service mutations, `service.ts` `AnalyticsApiService` | pending commit, published candle snapshot, mutex | `ingestBlock`, `reconcileCanonicalHead`, `backfill`, `save`, `create` | engine, store, stream hub | readers and followers see durable state only; a failed commit is repaired before anything else happens |
| Durable store, `postgres-store.ts`, `AnalyticsCheckpointStore` | checkpoint rows, candles, event log; or one file | append transaction, full-state transaction, `load`, trimming of the log | service, supervisor | one transaction holds the whole of a change; it can be repeated |
| Writer lease, `postgres-store.ts` | an advisory lock on one session, its loss | acquire, fence, close | PostgreSQL, supervisor | one writer; a closed store has returned its lease and its connection |
| Live stream, `service.ts` `CandleStreamHub` | cursor sequence, per-topic buffers, retained-event index, dropped-through marks, subscribers | `publishBatch`, `restore`, `replayAfter`, `subscribe` | store (its rows after a restart), SSE handlers | an accepted cursor is answered with every later event; memory is bounded |
| Browser live view, `pool-workspace-context.tsx`, `analytics-data.ts` | Last-Event-ID, shown candles; shown pool bins, pending updates | bootstrap, follow, apply, reset | SSE handlers | no silent gap; what is shown is the service's |
| Backfill, `backfill.ts` | page cursor, coverage | page loop, rewind | engine, block source | a complete history, or a visible failure |
| Block source, `canonical-block-source.mjs` | canonical blocks seen, cursor, active bin of each pool | page fetch, reorg search, follow, selection of bins to read | RPC, service | pages of one branch, which the engine accepts; every head is reached; no bin of the window goes stale |
| Runtime supervision, `runtime.ts`, `server-cli.ts` | infrastructure state, shutdown promise, health probe | start, fatal failure, shutdown with deadline | server, store, signals | ends exactly once; ready only as the writer |
| Wallet position queries, `service.ts` | snapshot cache, single-flight map, permits | query at a head | engine, RPC | positions and head belong together; permits neither exceed nor leak |
| Transaction journal, `transaction-journal.ts` | records in `localStorage` | submit, observe, replace, merge between tabs | wallet, chain | no action is submitted twice; no record is lost; a stale observation changes nothing |
| Full exit, `App.tsx` `handleFullExitBatch`, `full-exit-batching.ts` | web lock, reviewed batch; the journal | press, enumerate, plan, review, submit, resume | journal, indexer, wallet | a plan is of one block and covers it; one withdrawal at a time; the exit can be completed |
| The rest | discovery and token images, secrets custody, SDK, dev-market runner, subgraph, contracts, operations scripts | | | see section 8 |

## 2. What is hard about it

* **One thread, many turns.** The mutation mutex orders mutations and reads, but
  a store transaction is an `await`: connections open, browsers reconnect and
  the process may die while it runs.
* **Commit, answer, publication are three instants.** A crash, or a lost answer,
  between any two of them must leave followers neither ahead of nor behind the store.
* **The engine moves before the store.** When a transaction fails the engine is
  ahead; nobody may read it until the pending commit has been flushed. A backfill that fails saves
  the engine as it is.
* **Three trims share one window.** Per topic, topic together with resets, and
  all topics; two indices of the same events; a garbage-collected map of
  marks; and a table in the database that trims by another rule.
* **Cursors outlive the process.** A cursor from before a restart may be in the
  future of the new sequence, or below marks that were only rebuilt from what
  the table still holds.
* **A lock of a session is not a lock of a process.** The session drops, the process finds out
  later, a successor acquires, and a transaction of the old session may be under way. Statements have
  time limits: one may fail while its session lives on, and a session that is given up keeps its lock until the server notices.
* **A query and a stream tell of the same thing.** The browser asks again for its history whenever its window gets the focus, while
  the stream goes on: an answer that was read earlier arrives later than events read after it.
* **The chain moves between any two reads of it.** A page, an observation, an enumeration of
  positions are several requests each, and must be of one branch or one block.
* **Incremental and sparse.** An append touches a few candles and reads a few bins; everything
  else must be what a rebuild, or a full read, would have given - and the browser, which
  keeps less than the engine, is sent less than it may have forgotten.
* **Tabs share a journal, a wallet answers late, a chain changes its mind.** An intent is
  durable before the wallet is asked; the tab may die before the answer, another
  tab may give the intent up, and the reads of one observation straddle blocks and reorganisations.
* **Reorganisations bring events back.** The same log may be mined on both
  branches, or delivered twice on one, and must count once.

`PROJECT.json` lists each hazard at its line with the properties that would
catch it, including those no property covers.

## 3. Modules and their code

| Module | Models | Depends on |
|---|---|---|
| `StreamHub` | `CandleStreamHub`, `stream_events`, `openFilteredStream`, browsers' resume protocol | - |
| `StreamHubInv`, `StreamHub_proofs` | its inductive invariant; lemmas and theorems | `StreamHub` |
| `CanonicalEngine`, `CanonicalEngine_proofs` | chain, identities, views, coverage, checkpoint; theorems | - |
| `CandleRollups` | candles of nested intervals, their followers | extends `CanonicalEngine` |
| `AnalyticsService`, `AnalyticsService_proofs` | mutation, pending commit, backfill, store, crash and restart, browsers; theorems | extends `CanonicalEngine` (its proofs extend those of the engine) |
| `DurableFeed` | abstract: what the durable state promises | - |
| `PoolStream` | pool bins from the block source's reads to a browser's window | - |
| `EngineViews_proofs` | theorems about `CandleRollups` and about `PoolStream`, the two views followed from outside | extends both and the proofs of the engine |
| `BlockSource`, `BlockSource_proofs` | pages of the canonical block source, and the engine that judges them; theorems | - |
| `AnalyticsRuntime`, `AnalyticsRuntime_proofs` | processes, writer lease, start, supervision, shutdown; theorems | - |
| `WalletPositions` | wallet position queries and the executor that admits their loads | - |
| `TransactionJournal`, `TransactionJournal_proofs` | the journal of all tabs, the wallet, the chain they observe; theorems | - |
| `FullExit` | the full exit over tabs, journal, wallet, indexer and chain | - |
| `Positions_proofs` | theorems about both | `FullExit`, `WalletPositions` |
| `MCStreamHub`, `MCCanonicalEngine`, `MCAnalyticsService`, `MCBlockSource`, `MCAnalyticsRuntime`, `MCPositions`, `MCTransactionJournal`, `MCJournalPairs`, `MCPoolStream` | the instances for TLC | |

`MCCanonicalEngine` (candles, pool), `MCPositions` (queries, exit) and `MCJournalPairs` (two settings of
the journal) are *sums*: the first state chooses one of two machines, and only that one moves.

A definition named `X_Something`, placed before `X`, is a *mutant*: `X` as a
plausible bug would have written it. No specification uses one. Every property of a
passing run is violated when one of its mutants takes the place of the original, so each
property is known to depend on the code it is about.

### 3.1 StreamHub

An event is immutable and identified by its cursor, so an event *is* its cursor
and `history[c]`, a ghost, is its topic. A buffer, which the code keeps as an
array in cursor order, is the set of its cursors; an absent map entry is the
empty set or 0.

| Variable | Code |
|---|---|
| `sequence`, `eventsByTopic`, `retainedEvents`, `droppedThrough`, `globalDroppedThrough` | the private fields of `CandleStreamHub` |
| `rows` | table `stream_events` |
| `phase`, `previous` | where the single thread is: serving, inside the loop of `publishBatch`, down, inside the loop of `restore` |
| `client` | a browser: topic, cursor of its snapshot, Last-Event-ID, events written to it since, connection state |

| Action | Code |
|---|---|
| `PersistBatch` | `writeStreamEvents` commits a batch and trims the table |
| `CommitEvent` | one turn of the loop in `publishBatch`: `#commit`, with `#retain` in its three stages (topic splice, `#trimCombinedTopic`, `#trimGlobalReplay`) and the writes to subscribers |
| `Connect` | `openFilteredStream`: an unusable cursor, too long a replay and one subscriber too many each end in a reset, the last of them after the replay was written |
| `Disconnect` | a broken connection or server backpressure: the browser holds a prefix of what was written |
| `Refetch` | a browser without a stream loads its history and `streamCursor`, which the service reads in one critical section |
| `Crash`, `Restart`, `RestoreEvent`, `RestoreDone` | process death; `AnalyticsApiService.create`; the loop and the epilogue of `restore` |

`Crash` is enabled in every phase, so also between COMMIT and publication, and
inside a restore. In the code the loops of `publishBatch` and `restore` are
each one turn of the event loop; the model lets a crash or a broken connection fall
between two iterations, which a real process allows and a single-turn action
would hide. Only `Connect` and `Refetch` wait for the loop's end, as they do in the code.

Left out: payloads (a frame is its cursor), byte limits beside frame
limits, heartbeats, and drop counters. What is modelled of a browser is what was *written* to it, which an answer to a query does not
change; a query that overlaps the stream, and what is then shown, is in `AnalyticsService`.

### 3.2 CanonicalEngine

A block tree is given by constants: `Parent`, `Number`, `Time`, the events each block
carries, and, for each event, the identities it `Requires` (the only ways in
which applying one depends on earlier ones). A retained envelope is
`[id, kept]`: `kept` is the set of the events canonicalisation left in, which the block lists in order
(`Events`). The *views* (pools,
candles, positions) are represented by the sequence of envelopes that were
applied to them: two histories with the same applied events give the same
views, because applying is deterministic. This makes "incremental = rebuilt"
an equation between sequences while the arithmetic stays out.

Actions: `Appended`, `Reorged`, `Duplicated` (the three outcomes of
`ingestBlock`), `Rewound` (`rewindCanonicalHead`), `Restored`
(`exportCheckpoint` followed by `restoreCheckpoint` in a fresh engine). Two
details carry most of the weight. The code retains a block *before* applying it,
so an event that throws (`Applies`, `Torn`) leaves the chain ahead of views, index
and coverage; `#rebuild` replays up to the first throw. And a re-delivered block is
canonicalised against the prefix below it as retained *today*. `ClockAssumption`, that a block is not older
than its parent, is the consensus rule of the chain that is followed; the claims about coverage need it.

`CandleRollups` (section 3.9) extends this module with the candles. Left out: prices, position snapshots
(`augmentHeadPositionSnapshots`, `withMissingPositionSnapshots`), and the
refusal of a block whose payload changed under the same hash, since a hash determines
its content here.

### 3.3 AnalyticsService and DurableFeed

Extends `CanonicalEngine` with the service around it. `phase` is where the process is: `down`,
`backfill`, `serving`. `flushing` is the program counter of the mutation that holds the mutex:
`idle`, `storing` (the transaction is awaited), `stored` (committed, not yet published). A candle is the set of events that made it, each
with its block, because the code's candle names its first and last block: the order in which they count follows.
`pending` is `#pendingCanonicalCommit`, `loading` how a backfill stands.

| Action | Code |
|---|---|
| `Ingest`, `IngestDuplicate`, `Reconcile` | `ingestBlock`, `reconcileCanonicalHead` up to the flush: they require the mutex and that nothing is pending, because each flushes first |
| `RetryFlush` | `#flushPendingCanonicalCommit` at the start of the next mutation or read |
| `StoreCommits`, `StoreFails`, `AnswerLost` | outcomes of the transaction; the immutability check of `writeStreamEvents` refuses a row that differs |
| `Publish` | `publishBatch` after `persist` resolved, `#applyCandleSnapshot`, end of the critical section |
| `BackfillIngest`, `BackfillRewind` | a turn of the loop in `runBackfill`; a rewind, which may be the first thing a restart does |
| `BackfillCompletes`, `BackfillStops` | the loop ends, or throws: coverage and status, then the full save of the `finally` |
| `StartEnds` | `startAnalyticsRuntime` after the backfill: it serves if the backfill completed and was saved, else the process ends |
| `Crash`, `Restart` | process death; `create`, which ends the process again if the checkpoint does not restore, then the backfill |
| `Load`, `Answered`, `AnswerFails` | the browser's query: the request is read by the service at one time and answered at a later one, or fails |
| `Connect`, `Refuse`, `Disconnect`, `Receive` | its stream: open, refused, lost; an event with the revision guard, or a reset |

The replay window is not modelled a second time: `StreamHub` shows that a cursor
is answered with every later event or refused, and `AnalyticsService` uses exactly that
promise: `Connect` gives the full log, and `Refuse` may reset at any time,
which covers every refusal the window can make. Which block a backfill is offered next is
`BlockSource`'s subject; here any block the engine would look at may come.

**The query that overlaps the stream.** `candlesQuery` asks again on every focus (`pool-workspace-context.tsx:186`), also while the
stream is live. So request (`Load`) and answer are apart, any events may be received in between, and the answer replaces what is shown.
`base` is the `streamCursor` of the last answer, of which the effect that opens the stream depends (`:272`), `cursor` that of the
stream. An answer of another `streamCursor` opens the stream again there, which repeats what the answer did not
have. One of the *same* `streamCursor` leaves the stream as it is: events received since then are taken
back and do not come again (`overtaken`), so that the browser silently shows an older candle until the pair's next event, the next answer of a later
cursor, a reset or a reload. It happens when the request was read before an event and answered after it. The comment at
`:202-205` names this for the query of the pool's state, whose option avoids it; the candle query has no such
option. `FollowersCurrent` and `BrowsersCatchUp` therefore except `overtaken` browsers, and say that nothing else can put one behind. A page that
fails (`paginate` compares the heads of the pages too) ends the stream, and the next focus asks again. Left out: the
other queries and views of candles (`App.tsx`); a workspace that is left and entered again is a new browser.

`DurableFeed` is the abstract specification of what a restart and a follower may
rely on: candles and log change in one step, the log only grows, and it tells of
every candle that changed, by an event that carries the new candle or by a reset. `FeedSpec`
states that the durable state of `AnalyticsService` implements it under the
mapping `candles <- db.candles`, `log <- db.log`.

Left out: the checkpoint file store, whose log is memory (`DurableLog` distinguishes it; every
run uses PostgreSQL), and the periodic `persist()` that only it has.

### 3.4 TransactionJournal

One account and one deployment. A transaction of an intent is the original, a speed-up (same
call) or a cancellation, all with the intent's nonce; a record keeps what the code's record
keeps, without times and texts. The *environment* is the wallet (approve, reject, replace), and a
chain of blocks that grows and whose top is replaced by reorganisations of a bounded depth.

| Variable | Code |
|---|---|
| `storage` | `localStorage`, unfiltered: `Load` keeps what `isJournalRecord` accepts |
| `memory` | `stateRef` of each tab, `None` while it is closed |
| `task` | `submitJournaledTransaction` between `begin` and the record of its outcome |
| `probe` | one run of `observeRecord`: the record it was started for, the head, what it found, what it observed |

| Action | Code |
|---|---|
| `Open`, `Close`, `StorageEvent` | `ensureInitialized`, end of the tab, `mergeFromStorage` |
| `Recover` | `recoverAwaitingWalletIntents` at the start of `reconcile`; any subset of the leases may have expired |
| `Begin`, `Abort`, `Send` | `begin` up to the verified durable record; `abort`; the wallet is asked |
| `Submitted`, `FailRejected`, `FailUnknown`, `ResultLost` | the answer of the wallet, its transport's failure, a failed write of it |
| `StartProbe`, `ReadChain`, `ReadBlock`, `CommitProbe`, `Defer` | `reconcile` and `recheck`: snapshot and head; transaction, receipt and scan; the block of the receipt, the nonces and the clock; under the web lock the write, for the same revision only |

A write is one action because the code makes it under an exclusive web lock: merge of memory and
storage, update, merge with storage again, store. `ReadChain` joins reads of blocks up to a head that
is already fixed. `ReadBlock` joins the block of the receipt and the nonces, of which an observation uses one or the other: the nonces
matter only to a record without a transaction, which has no block to look up. Blocks, reorganisations and other tabs' writes come in
between any two of these steps, the last included: the web lock is awaited before the write. A reorganisation as deep as
the confirmations in that last gap makes a record canonical whose transaction is off the chain, until its next observation, which a
canonical record has while it is monitored. `CanonicalOnEvidence` says that this is the only way to such a record.

Times are abstracted: a lease or a timeout that runs may be found expired at any time. Two records
of one revision never differ, since writes are serialised, so the tie-break of a merge by `updatedAt` is left out.
The scan's window of 32 blocks exceeds every chain here. Left out: the bound of 200 records,
the order and batches of monitoring, several accounts and deployments, transactions of the account made elsewhere.

### 3.5 BlockSource

A block *is* its path, the sequence of branches its ancestors and itself were mined on: number,
parent and ancestry are length, front and prefix, and a reorganisation gives the branch a new name. The
chain grows and forks between any two reads. What the engine does with a page is translated from
`engine.ts` too (`AcceptsBlock`, `Rewound`): a page that it refuses ends the process.

| Action | Code |
|---|---|
| `Start` | `startupCursor`: resume at the retained head if the chain still has it, else replay everything |
| `FetchTarget`, `Probe` | `canonicalTarget`, then `findReorgStart`, one header at a time down the cache |
| `LoadHeaders`, `LoadLogs` | `loadRange`: headers linked to each other and to the cached parent; logs and state, which throw for an orphaned block unless there was nothing to read |
| `ApplyOp`, `PageDone` | `runBackfill` and `followLive`: an operation at a time, then the cursor, and a save when the backfill ends |
| `Crash`, `RequestFails`, `Mine`, `Reorganise` | faults and the chain |

A block that a resumed start reads first carries a forced snapshot of every pool (`Pools`): the
payload of the same block is then not the same twice, which is finding 3. Left out: decoding, prices and
oracle rounds. `eth_getLogs` is by number range, as in the code, so logs are of whatever branch is there when
they are read; each is checked against the headers.

The engine ends the process where it cannot go on: a head that vanished during the last page, or a reorganisation
deeper than the cache (after a resumed start, just one block). That is by design; what is
checked is that the next start recovers.

### 3.6 AnalyticsRuntime

Processes that share one PostgreSQL schema. Variables `database` (whose session has the advisory lock, the saved
version, an outage), `store` (`postgres-store.ts`: session, lease client, its error, the version in memory, an open save),
`runtime` (`server-cli.ts`: where the process is, live source, health probe), `shutdown` (its stage, whether an
exit awaits it).

`Launch`, `AcquireWriterLease`, `CreateSchema`, `CheckHealth`, `Load`, `BackfillEnds`, `Listen` are the start in its
order; `BeginSave`, `Commit`, `SaveFails` one transaction behind the fence; `SourceEnded`, `LiveSourceFails`,
`LiveSourceAborts` the live source; `Probe`, `Fatal`, `Signal` what begins the shutdown; `Drained`, `CloseStore`,
`Unlock`, `UnlockFails`, `EndPool`, `Exit` its steps. A session is `open`; `lost`, where the client has given it up or the network has
cut it (`ConnectionLost`) and PostgreSQL has not noticed; `ended` by the pool; or `none`. `SessionDrops` and `NoticeDrop` are apart:
between them the process writes into nothing. `OrphanEnds` is PostgreSQL noticing that a client is gone.

Every statement has a time limit (`lock_timeout`, `statement_timeout`, `query_timeout`, `postgres-store.ts:84-91`). So each may fail
while its session is alive (`TimesOut`: a fault then, and free in an outage), and each failure is what the code makes of
it: `createSchema` and the unlock give the client up by `release(true)` (`:342`, `:370`), the lock staying with a session that nobody
uses; a save throws, its ROLLBACK answered or not; and a COMMIT that was sent may still take
effect after that, or after the process ended. A store may therefore be closed while PostgreSQL still holds its lock. `CloseReleases` states
what `close()` does ensure, and `infra/vps/README.md:225-232` promises no more: drain, a nonzero exit, a restart. The next process is
refused the lock until the server ends the session.

`overlapped` is a history variable: a lock was released while a transaction of that session was open. The
fence properties hold unless that has happened; the code's own description of the lease is "process-lifetime
writer fence" (`postgres-store.ts:319-321`), and only a shutdown while a save hangs sets it. `Launch` waits until PostgreSQL has
ended the session of the same supervisor's last process: a process and its name are one here, and a try in
between is refused and ends at once. One note: a process embedded
without a server would leak its store when `create` returns null, which nothing does.

### 3.7 WalletPositions

A query reads the head (`ReadHead`), finds its snapshots in the cache (`Hit`), joins a load under way (`Join`) or starts one
(`StartLoad`), through `BoundedExecutor`, which admits, queues or refuses (`RefuseLoad`). The load ends
(`LoadSucceeds`, `LoadFails`) whether or not its query has left at its `Deadline`; a permit handed over goes to
the first waiter. The query answers if the head is unchanged (`Answer`), else tries again (`Retry`). Heads include
two blocks of one number. The provider of snapshots is external: it answers for exactly the head it is asked about.

### 3.8 FullExit

`Press` takes the web lock, reads the journal (blocked family, ordinal of the next batch) and either resumes,
shows what it waits for, or enumerates: `Pins`, `ReadsPositions`, `ReadsBalances`, `Probes` (the recursive halving of chunks
that do not fit), `Shows`, or `Completes` and `Stops`. The next press `Reviews` the shown batch against live state, `Begins` a
journal record, `Asks` the wallet; `HashReturned`, `RefusalReturned`, `Aborts` end it. `Reconciles` stands for
the journal's observations (section 3.4), `RemovesPartly` for a removal begun on another page, `Closes` and `Recovers` for
a tab that dies and the lease that runs out.

Balances are all or nothing per bin. Failures of a quote, of gas estimates, approvals and attestations all stop
the press and are one action (`Fails`), or raise the gas (`GasRises`). A batch's transaction burns what it reviewed or reverts.
A branch that was orphaned does not come back. `complete` is shown for a canonical block, not a final
one, as in the code.

### 3.9 CandleRollups

Extends `CanonicalEngine`, each of whose actions it joins with what it does to the candles. A candle is the
*sequence of updates* merged into it: open, close, high, low, sums, revision and last block are functions of that
sequence, and merging a source into a roll-up is concatenation. So "no update is lost, doubled or out
of order, in any interval" is an equation with `Reference`, which is made directly from the retained blocks. A bucket is merged from its
*slots*, one for each source that fits into it, which holds a candle or nothing (`SourcesOf`). A follower
receives what `listLastChangedCandles` lists and keeps the higher revision. `Seconds`, `Source` and `Offset` describe the
intervals: the code's are minute, five and fifteen minutes, hour, four hours, day and the week, which begins on a Monday.

### 3.10 PoolStream

A bin's reserves and supply are one bit. A swap changes every bin from the active bin to the one it ends in (the source's own
view of a swap); a deposit or withdrawal changes the bin it names. After a block the source reads a
selection of bins (`Observation`, from `selectObservedBinIds`), the engine keeps and publishes
those that changed (`BinsAfter`, `Replacements`), and the browser applies updates and prunes to its window
(`Fits`, `Shows`). The browser's queue is there with its one asynchronous step: `Drain` takes the pending updates
and asks for the pool's economics, `Attested` applies them when these are back, and updates received between the
two wait.

Log, cursors and replay are `StreamHub`'s; a state rebuilt after a reorg is the earlier one, which is what
`ViewsMatchBlocks` says of the engine. The snapshot published when a backfill ends may repeat the revision
that a browser shows; `applyPoolStateUpdate` refuses that and the browser reloads.

## 4. Runs

| Run | Config | Properties | Question |
|---|---|---|---|
| `stream_hub` | `MCStreamHub.cfg` | `NoSilentGap` `ReplayExact` `ReplayAccounting` `RestartResumesLog` | one browser, two topics, every trim of a three-event window, disconnects, refusals, restarts |
| `engine` | `MCCanonicalEngine.cfg` | `ChainConsistent` `ViewsMatchBlocks` `RedeliveryAccepted` `RestoreFaithful` `CandlesFollowed` `WindowExact` `BrowserFollows` | the engine and its candles over a tree with four branches; pool bins down to a browser |
| `pool_window` | `MCPoolWindow.cfg` | `ShownComplete`, violated | finding 4 |
| `service` | `MCAnalyticsService.cfg` | `ServiceConsistent` `ReadersSeeDurable` `AlwaysRestorable` `RetryIdempotent` `FollowersCurrent` `FeedSpec` `BrowsersCatchUp` | backfill and live mutations; store failures, lost answers and crashes between any two steps, a browser following and asking again on focus |
| `service_poison` | `MCServicePoison.cfg` | `AlwaysRestorable`, violated | finding 1 |
| `source` | `MCBlockSource.cfg` | `SourceConsistent` `PagesAccepted` `CatchesUp` | a chain that forks between any two reads; crashes; resumed starts |
| `source_replay` | `MCSourceReplay.cfg` | `PagesAccepted`, violated | finding 3 |
| `runtime` | `MCAnalyticsRuntime.cfg` | `ReadyIsWriter` `FencedHolderCurrent` `CloseReleases` `EventuallyServes` `OutageIsFatal` | two processes, one lease, outages, dropped and lost sessions, statements that time out, late answers, signals, forced exits |
| `positions` | `MCPositions.cfg` | `OneAtATime` `PlanCovers` `OrdinalsExact` `PermitsExact` `EnumeratesOneBlock` `AnswersMatchHead` `ResumedExitCompletes` | queries that share loads while the head moves; a full exit over two tabs |
| `journal_pairs` | `MCJournalPairs.cfg` | `NoDuplicate` `ReturnedHashRecorded` `CanonicalStays` `DeepRemovalsExclude` `DeepCanonicalOnEvidence` | two tabs, the same action twice: expired leases, stale memories, late observations; or two removals of one pool and a reorganisation as deep as the confirmations, before or after the block lookup |
| `journal_chain` | `MCJournalChain.cfg` | `NothingLostOnReload` `JournalConsistent` | replacements and failing lookups with a shallow reorganisation |
| `journal_head_moves` | `MCJournalHeadMoves.cfg` | `NothingLostOnReload`, violated | finding 2 |

### Properties

* `NoSilentGap`: a connected browser has been written every event of its topic, and every
  reset, published since its snapshot; a disconnected one holds all of them up to its
  Last-Event-ID. `ReplayExact`: `replayAfter` either refuses a cursor or returns exactly the later
  events; a mark one too low, forgotten, or not rebuilt from the table would show here.
  `ReplayAccounting`: the two indices agree, so the `throw`s of `#trimGlobalReplay`
  are unreachable. `RestartResumesLog`: the sequence after a restore is the last durable cursor.
* `ChainConsistent`: the retained blocks are linked, no event counts twice, the coverage ends at the head, through
  appends, reorgs, rewinds and throwing blocks. `ViewsMatchBlocks`: the views hold each retained block.
  `RedeliveryAccepted`: an honest re-delivery is never mistaken for a changed payload.
  `RestoreFaithful`: a checkpoint restores the engine it came from.
  `CandlesFollowed`: every candle of every interval is the reference's, and a follower holds them all and knows which are final.
* `WindowExact`: the engine has every bin of the window, with the chain's content. `BrowserFollows`: a browser
  that is caught up shows the pool's state and only true bins of the window, and no update of the stream is refused while none
  awaits its read of the pool's economics, the snapshot of a revision shown already apart.
* `ReadersSeeDurable`: when a reader's turn comes, the engine it reads is what a
  restart would restore. `AlwaysRestorable`: whatever failed, the stored blocks
  restore, to the stored candles. `ServiceConsistent`: nothing is published before
  it is durable, and the coverage served is within what was loaded. `RetryIdempotent`: a retried transaction passes the immutability check.
  `FollowersCurrent`: a connected browser that has received all there is shows the last
  published candle, across reconnects, restarts, reorgs and answers that overlap the stream, unless such an answer was of the
  `streamCursor` it had (section 3.3). `BrowsersCatchUp`: one that is behind catches up, unless it is so overtaken and never asks again.
* `SourceConsistent`: a fetch under way, the cache and the cursor are of one branch and nothing between them is skipped.
  `PagesAccepted`: the engine accepts every page, unless the chain was reorganised after its fetch began.
  `CatchesUp`: the engine reaches the chain's head again and again.
* `ReadyIsWriter`, `FencedHolderCurrent`: who answers ready holds the lock and has the saved state; who holds the lock and has
  loaded has loaded the last save. `CloseReleases`: a closed store has no lease, connection or acquisition under way, and its lock is
  another's to take except where the session was lost or given up and lives on in PostgreSQL. `EventuallyServes`: after the last fault somebody serves for
  good. `OutageIsFatal`: nobody stays up on a database that never answers.
* `AnswersMatchHead`: an answer is the owner's snapshots at the head it names. `PermitsExact`: permits, running
  loads, waiters and queued loads agree, and nobody waits while a permit is free.
* `OneAtATime`: at most one withdrawal of the pool is not settled. `PlanCovers`: batches and remaining
  candidates are the enumerated bins, none twice, each batch within its capacity. `OrdinalsExact`: batches are completed in
  order. `EnumeratesOneBlock`: what a press concludes is so at one canonical block. `ResumedExitCompletes`: an exit resumed often enough completes.
* `NoDuplicate`: an intent is begun only when no earlier one of its retry key can still be broadcast or
  unsettled. `DeepRemovalsExclude`: the same for removals from one pool, to the monitoring depth.
  `ReturnedHashRecorded`: a hash the wallet returns is not dropped because another tab moved the
  record on. `CanonicalStays`: a settled verdict is not undone by anything stale. `JournalConsistent`: what is called canonical
  is on the chain, if reorganisations are shallower than the confirmations. `DeepCanonicalOnEvidence`: with deeper ones, a record becomes
  canonical, or is found so again, only by an observation, and is then on the chain unless the very block this looked up was
  replaced between lookup and write. `NothingLostOnReload`: everything stored passes the validation of a reload.

### Bounds and why they are enough

* `StreamHub`: `MaxEvents` 6 against a window of 3 (2 per topic): each of the three
  trims happens, twice and in combination, before the bound, as does each difference between
  the table's trim and memory's. `MaxBatch` 2 gives the loop of `publishBatch` an
  inside. Crashes and reconnects are not bounded. `MaxReplayFrames` 1 against
  replays of up to two. One browser is enough, because browsers do not affect the hub except by the
  subscriber limit. Symmetry is over topics, the reset topic apart.
* `CanonicalEngine`, `CandleRollups`: eleven blocks, forks at three depths, events shared between branches and
  repeated on one, blocks of one second and blocks that skip several. `MaxReorgs` 10 only caps a counter.
  Intervals of 1, 2, 4 and 8 seconds (sources minute, minute, third), the last with an offset: two levels
  of roll-up below the longest, boundaries that coincide and one that does not.
* `PoolStream`: bin ids 0 to 3, radius 1, so that the window is clamped at both ends and an active bin can move out
  of it; `MaxReads` 3 keeps the code's relation 2 x radius + 1; three events after the creation, in one block or in up to three, so
  that a path can go and return, within a block or not; one reorganisation or rewind, one restart, two pending updates (the code allows 256).
* `AnalyticsService`: `MaxFaults` 2 allows every pair of a store failure, a lost
  answer and a crash (a lost answer followed by a crash is the interesting pair). Four blocks with one fork, two pairs, one
  event touching both, one delivered twice; one reorg. One browser, on one pair, with one request at a time, as react-query has it: browsers do not
  affect the service or each other; its refetches are not bounded. `service_poison` needs one fault at most and no browser.
* `BlockSource`: pages of 2, a cache of 3, a chain of up to 5 blocks and 2 reorganisations of any depth: the
  reorg search fails, succeeds at each depth, and meets orphaned suffixes; `MaxFaults` 1. `source_replay` has a cache of 2, 4 blocks and 2 faults.
* `AnalyticsRuntime`: two processes, a grace of 2 probes, one save after the first state, 2 faults, of which every pair is allowed: a dropped or lost
  session, a statement that times out with the session alive, an outage, a signal, a crash. In an outage, or on a lost session, statements time out
  without counting.
* `MCPositions`: two queries of one owner, three heads of which two have one number, one permit, one place in the
  queue, two cached entries, two attempts; the exit with 2 tabs and 2 bins, a capacity of 1 (so two batches, by halving a
  candidate of 2), finality 2, one reorganisation or move by others, one fault. Deadlock is not
  checked here, because a completed exit ends.
* `TransactionJournal`: a record that was written `MaxRevision` times is not observed again, nor is any once the tab's records were
  written `MaxRevisions` times together. Submitted, confirming, canonical and orphaned take a record three; two are enough where
  a transaction can be canonical at its first sight. `journal_pairs` settles, with two tabs (2 and 3), at one
  confirmation, so that one block above the first is enough to settle, and two intents of one key compete for it. With one tab (3 and 4)
  two confirmations are required, and three blocks above the first also hold the monitoring depth (3 here, 12 in the code) or a reorganisation and a
  second inclusion. There the wallet does not cancel: a finalized cancellation that a reorganisation undoes is lost in a
  reload (first note of section 7), and with a record that is written four times TLC finds that a second removal is then not held back.
  Failing lookups, replacements and reorganisations are each in the runs whose
  properties they threaten, because all of them with
  two tabs and two intents exceed what TLC can finish. `HeadMoves = FALSE` in passing runs
  keeps blocks from being mined between an observation's head and its lookups; that case is finding 2.
  Reorganisations leave the height alone and put empty blocks in place; the orphaned transactions may be
  mined again later. Symmetry is over tabs, and over intents that nothing distinguishes.
* Deadlock is checked in every run but `positions`.

## 5. Fairness

No fairness is put on faults, reorganisations or what a user may but need not do. The journal promises safety, not
progress (an intent whose transaction nobody can find stays blocked, on purpose).

* **service.** Every mutation and every read starts with a flush, and requests keep
  arriving (the block source polls, the browsers refetch), so `RetryFlush` happens; the code has no timer for it.
  An awaited transaction settles, and its continuation
  runs (`StoreCommits`, `Publish`); a supervisor restarts the process, and a start goes on (`Restart`, `StartEnds`, `BackfillCompletes`,
  `BackfillIngest`). All of these are one weak fairness, `WF(GoesOn)`. A browser that has no stream asks (`WF` of `Load` in state
  `refetch`): a new generation does at once, and after a failure the window gets the focus again. Nothing is assumed of
  the requests of a browser that has one. `SF(Answered(k))`, `SF(Connect(k))`, `SF(Receive(k))`: failing answers, refusals
  and disconnections may intervene, but not for ever. Weak fairness would not do, since each
  disconnection disables `Receive`.
* **runtime.** `WF(Runs(p))`: a process takes its next step, what can time out does, a supervisor restarts it, and PostgreSQL notices dead clients.
  `WF(Probe(p))`: the health timer.
* **source.** `WF(SourceNext)`: the source and its loop go on, and a supervisor restarts the process. `WF(Mine)`: the chain
  grows again after a rollback (a start waits for its retained head's number).
* **positions.** For the exit: `WF(Presses)`, `WF(Confirmed)`: the user resumes the exit and confirms in the wallet; `WF(Continues)`: the
  handler goes on; `WF(MinesEmpty)`, `WF(Indexes)`: blocks come while a batch is not final, and the indexer follows. A press while another tab
  holds the lock is refused at once, and counts as a fault: two tabs pressed in turn for ever would starve each other.

## 6. Proofs

| Module | Theorem | States, for every value of the constants |
|---|---|---|
| `StreamHub_proofs` | `Invariance`, `TypeCorrect` | `IInv` is inductive; every cursor, mark, row and browser has its type |
| | `NoGap` | `NoSilentGap` |
| | `ExactReplay` | `ReplayExact` |
| | `Accounting` | `ReplayAccounting` |
| | `ResumesLog` | `RestartResumesLog` |
| `AnalyticsRuntime_proofs` | `Invariance`, `TypeCorrect` | `IInv` is inductive; stages, sessions, leases and saves have their types |
| | `Fenced` | `FencedHolderCurrent` |
| | `ReadyWrites` | `ReadyIsWriter` |
| | `ClosedReleased` | `CloseReleases` |
| `Positions_proofs` (exit) | `Invariance`, `TypeCorrect` | `IInv` is inductive; runs, records, pins and burns have their types |
| | `OneWithdrawal` | `OneAtATime` |
| | `PlanExact` | `PlanCovers` |
| | `Ordinals` | `OrdinalsExact` |
| | `OneBlock` | `EnumeratesOneBlock` |
| (queries) | `PositionsInvariance` | `PositionsInv` is inductive |
| | `Permits` | `PermitsExact` |
| | `Answers` | `AnswersMatchHead` |
| `CanonicalEngine_proofs` | `InitEngineInv`, `NextEngineInv`, `Invariance` | `EngineInv` is inductive |
| | `Linkage` | the chain is linked and has one block of each height |
| | `Consistency` | `ChainConsistent` |
| | `ViewsExact` | `ViewsMatchBlocks` |
| | `Redelivery` | `RedeliveryAccepted` |
| | `Faithfulness` | `RestoreFaithful` |
| `AnalyticsService_proofs` | `ServiceInvariance` | `ServiceInv` is inductive, if nothing throws |
| | `Restorability` | `AlwaysRestorable`, if nothing throws |
| | `DurableReads` | `ReadersSeeDurable`, if nothing throws |
| | `IdempotentRetry` | `RetryIdempotent`, if nothing throws |
| | `Consistent` | `ServiceConsistent`, if nothing throws |
| | `CurrentFollowers` | `FollowersCurrent`, if nothing throws and the log is durable |
| | `ImplementsFeed` | `FeedSpec`: the refinement of `DurableFeed`, if nothing throws and the log is durable |
| `BlockSource_proofs` | `Invariance` | `SourceInv` is inductive |
| | `NextPage` | `SourceConsistent` |
| | `Accepted` | `PagesAccepted`, without pools |
| `TransactionJournal_proofs` | `JournalInvariant` | `JournalInv` is inductive, if `Calm` (as below) |
| | `ReloadKeepsEverything` | `NothingLostOnReload` |
| | `CanonicalOnChain` | `JournalConsistent` |
| | `CanonicalForGood` | `CanonicalStays` |
| | `NoHashLost` | `ReturnedHashRecorded` |
| | `NoDuplicateIntent` | `NoDuplicate` |
| | `OneRemoval` | `RemovalsExclude` |
| `EngineViews_proofs` (candles) | `InitCandleInv`, `NextCandleInv` | `CandleInv` is inductive |
| | `Candles` | `CandlesFollowed` |
| (pools) | `PoolInvariance` | `PoolInv` is inductive |
| | `WindowIsExact` | `WindowExact` |
| | `FollowsTruly` | `BrowserFollows` |

### 6.1 StreamHub

For all `Topics`, `Clients` and sizes. Assumptions: `TopicAssumption` (the reset topic is not a pair's), `SizeAssumption` (the two
replay sizes are positive, as the constructor demands; the two limits are naturals),
`BoundAssumption` (the two bounds of the model are naturals). Nothing is assumed finite
except what the specification makes so, and no other fact is taken on trust.

**Why the properties are not inductive.** `ReplayExact` speaks of accepted cursors. To
keep it, one must know *why* an event is missing from a buffer, and after a restart that
reason is in the table. So `IInv` (module `StreamHubInv`) is:

* `Window`: the buffers hold only events they were fed, of their topic and above both
  marks, and hold *every* fed event above both marks. "Fed" is the whole log while serving,
  and the rows handled so far during a restore, so one formula covers both loops.
* `Table`: the table holds the newest event, and any event it lacks is older than all it
  holds, or older than all it holds of its topic, of which it holds some. This is what makes
  the marks that `restore` computes from the oldest rows sufficient. It is
  not obvious, as the table trims resets by their own topic and memory trims
  them with each pair's topic.
* `Browsers`: a browser holds what it is owed up to some event: the last published one while
  live, its Last-Event-ID when closed.
* `StateOK`: types, and which variables are at rest in which phase.

**The argument.** `#retain` is proved in its three stages: each maps a sound window to a
sound window (`Window` takes the six components as arguments for that reason). The one place
where the reasoning is about the code's *order* is the third stage, where a topic emptied by
the global trim loses its mark and a crowded map is collected: both are sound only
because the global mark has just been raised over every event below. `RestoreDone` follows from
`Table`: what the rows lack lies below one of the two marks. Set-cardinality facts
(the newest n of a set, the maximum of what was cut) are the lemmas at the head of
`StreamHub_proofs`, proved from `FiniteSetTheorems`. Each theorem then combines `Invariance`
with a lemma that `IInv` implies the property.

### 6.2 AnalyticsRuntime

For any set of processes and any bounds (`RuntimeAssumption`: `None` is no process and no version, the grace is at
least 2 as in the code). That two processes do not save over each other is not inductive: one must know
where every session, lease and open save can be. `IInv` says per process

* `LeaseInv`: whose session has the lock, that a lease with a session has it, and that each
  stage of a shutdown has given up what it should have: this is where an acquisition that
  completes after `close()` was called is ruled out (`Acquiring(q)` is incompatible with the later stages); and that from the unlock on,
  the lock is still the store's own only on a session that is not its own any more;
* `FenceInv`: at which points of a start the state is in memory; that an open save on a session belongs to the lock's
  holder, unless `overlapped`; and that the holder's memory is the saved version.

Each action is one lemma; the difficult ones are `Commit`, by which the version moves under every other process
(none of them can hold the lock), and which may come after its save has thrown; and `Unlock`, `SessionDrops`, `OrphanEnds`, by which the lock leaves a process
that goes on for a while.

### 6.3 FullExit

For any tabs, bins, holdings, capacity and finality (`ExitAssumption`).
`PlanCovers` needs what the planner does: `ChunksCover` and `HalvesCover` say that the first split and each further
one are intervals that follow each other without gap or overlap, by arithmetic on `\div`; `Covers` is preserved when one
interval is taken out and replaced by its halves. `OneAtATime` needs the protocol: `IInv` says for each step of the handler what
it knows of the journal, e.g. that from `begin` to the wallet's answer its own record is the only one that blocks the family,
although another tab or page may have begun one before; and that the web lock is held by one tab.

`OrdinalsExact` is about the batches that became final, in any tab. `OrdInv` adds to `IInv`: a batch that still
blocks has the ordinal that comes next (`Ledger`), and so has the press that runs, before anything else could write a batch
(`NextBatch`). Then each step either leaves the final ordinals alone (`Kept`), or makes the next one final. `EnumeratesOneBlock`
needs that the reads of one press agree though the chain moves between them. `BlockInv` says that fork numbers only grow, so
that number and fork name one block for ever (`Forks`); that the indexer is behind the chain (`Behind`); and that what a press
has read is of its pinned block, *if* that is canonical still (`Reading`), which is what it checks in the end.

### 6.4 WalletPositions

For any queries, owners, limits and heads, several of one number included (`PositionsAssumption`). `PositionsInv` joins three parts
that no action mixes: `PermitsOK`, `PermitsExact` with the finiteness of the running loads that it counts, kept by `Acquire` and
`Release` (the permit of a load that ends is the first waiter's, or free); `CacheOK`, each key once, with the snapshots the
key names (`WithoutOK`, `NewestOK` and `StoredOK` say what deletion, eviction and insertion do to it); and
`QueryOK`, by which a query that is about to answer has the snapshots of the head it read. That a load answers for its key is
where `KeyInjective`, the key of number, hash and owner, is used: with the number alone the proof has no such step.

### 6.5 CanonicalEngine

For any tree of blocks, any events and requirements (`BlockAssumption`, `ClockAssumption`, `ReorgBound`), events that throw included.
Linkage alone does not exclude that a height occurs twice; `Heights` adds that a block's number is the first one's plus its distance,
which every append, reorganisation, rewind and restore preserves without an induction over the chain. `IndexOf`, on which duplicates,
reorganisations and rewinds rely, therefore names one place.

The four properties speak of an engine all of whose blocks apply, and are not inductive: a torn engine breaks each, and becomes whole again
by a reorganisation or a rewind. `History` is what relates the two. Either the engine is `Sound` (every block is canonical at its place
and applies, views and index are those of the blocks), or it is `Stuck` at some block `k`: `k` is canonical but does not apply,
everything before it does, and the views have not got past it. An append above `k` stays stuck; a reorganisation or rewind
below `k` is rebuilt sound; one above it is rebuilt up to `k` again (`RebuiltWhole`, `RebuiltStuck`). A whole engine cannot be stuck
(`WholeIsSound`), so it is sound. That is why no tear survives unseen, and it needs no induction either: `Rebuilt` is defined by the first block that
throws, not by recursion. `Covered` says the same of the coverage.

### 6.6 AnalyticsService and the refinement of DurableFeed

For any blocks, pairs, browsers, number of faults and reorganisations (`ServiceAssumption`). Two hypotheses are stated in the theorems, not assumed
of the constants, because the code runs without them too:

* `NothingThrows`: of a chain that begins where a history may begin and whose blocks are canonical, every block applies. It is about what
  the chain holds (a withdrawal follows its deposit), holds of the instance of run `service`, and not of the one of
  `service_poison`, where `AlwaysRestorable` fails: finding 1. A duplicate, a fork or a rewind may still be offered at any time.
* `DurableLog`, for `FollowersCurrent` and `FeedSpec` only: the store is `PostgresAnalyticsStore`. The file store keeps no
  log, and after a restart its followers can only be reset.

`ServiceInv` adds to the engine's invariant where the durable state can stand. `Durable`: its rows restore (`Held`), to the chain its
candles were made of. `Flush`: while a mutation is pending, the durable state is either `Old`, that is what was published, or `New`, the
engine together with the pending events; which of the two is not known after an error, and the retry must work in both cases
(`IdempotentRetry` is this dichotomy). With nothing pending it is new without events; while a backfill loads it is old; once
the answer came it is new. An append writes one row, so `Old` must also say that the rows hold the chain below the new block.
`Holds` admits more events in a row than the chain keeps, because the append stores a block as submitted and a restore leaves out
again what was known (`Replayed`).

`Readers` is what makes browsers current. `Follow(L, C, c, p, x)`: who holds candle `x` of `p` at cursor `c` of the log `L` and reads on, arrives at `C`: with
nothing ahead it is `C`'s candle; up to the next reset only larger candles come, so that the revision guard
of the browser lets each of them pass. `LogTells` says this of every event of the log, as if a browser stood there, and so holds again
after a restart has read the log back. `Served` says it of each browser twice (`GoesOnFrom`): of what it shows at the
cursor of its stream, unless it is overtaken, and of the answer under way at that answer's own cursor.
An answer then either opens the stream at its own cursor, or finds the stream where it was when the request was read, or sets `overtaken`. `ImplementsFeed` is then a case of the same dichotomy: a transaction takes `Old` to `New`, of
which `Changes` tells every candle, or repeats `New`, which is a stutter.

### 6.7 BlockSource

For any heights, confirmations, page and cache sizes, forks and faults (`SourceAssumption`, `NoneAssumption`: `None` is no block, fetch or page).
`SourceInv` says

* of the cache, that its domain is an interval and each block is an ancestor of the next (`IsCache`); eviction at the low end and the reorg
  search at the high end keep both;
* of cache and engine, that between pages the engine has every cached block (`QuietHeld`), and while a page is applied it has each or will be
  given it by an operation still to come (`Delivered`). That a page is at most one rewind, then blocks in order, then
  the attested head is used here, and so is that none of these rewinds below the cache (`Fits`);
* of a fetch, that it continues the cache (`FetchInv`): the headers read are checked against the cached parent, and a fetch that goes on to
  read headers has nothing to rewind, since `rewindTo` is only set by a rollback below everything cached;
* of time, that fork numbers grow. A block read when `since` forks had happened is on the chain as long as `since = forks` (`Unreorged`).
  Only then are the operations `Linked`, each to the one before and the first to the engine, which is `PagesAccepted`.

`Accepted` has the hypothesis `Pools = FALSE`; with pools the property fails, and run `source_replay` shows how (finding 3).

### 6.8 TransactionJournal

For any tabs, intents, retry keys, confirmations and bounds, lookups that fail included (`JournalAssumption`, `NoneAssumption`: `None` is no number,
hash, receipt or verdict). The hypothesis of every theorem is `Calm`, which is stated and not assumed of the constants, because the
code runs without it. TLC shows that each of its three parts is needed for `NothingLostOnReload`:

* no block is mined between the head and the lookups of one observation. Otherwise: finding 2, run `journal_head_moves`;
* reorganisations are shallower than the confirmations. Otherwise a finalized receipt can disappear (first note of section 7). `RemovalsExclude`
  and `CanonicalOnEvidence` are checked with deep ones in run `journal_pairs`;
* a wallet replaces transactions in one way (it cancels, or speeds up, not both of one intent). Otherwise, with two tabs: second note of section 7. In
  run `journal_chain`, with one tab, it does both, and the two invariants hold.

**What has to be known.** `NoDuplicate` judges by the memory of one tab merged with the storage, whereas the other tab may have stored more, and an
observation may have been started for a record that has changed. `JournalInv` says

* of each memory, that each of its records is the stored one or an earlier version of it (`Behind`): a smaller revision, fewer hashes and links, and an active
  hash that, if it differs, is *directly* linked to the stored one. Hence a merge of a memory with the storage is the storage (`MemoryOK`), and
  everything else can be said of the storage. This is where one kind of replacement is used: with two, a link can be
  two steps long, and the merge is then neither version;
* of each record (`RecordsOK`), that a reload accepts it (`StatusFacts`, with `Valid`), that its hashes are of its intent and were broadcast, under
  the nonce it names (`HashFacts`, `ChainFacts`), and that a settled one has its transaction in the chain, as deep as it says (`Evidence`). A
  reorganisation, being shallower, leaves such a block alone;
* of each observation under way (`ProbesOK`), that it was started for the stored record or an earlier version of it; and while it is the stored one,
  that what it found is the chain's as long as the block of the receipt is, and does not contradict what is settled (`FoundOK`). After the
  lookup of that block (`BlockRead`), a receipt that it confirms as deep as required is on the chain and stays there until the
  write, since reorganisations are shallower: only so is it safe that the web lock is awaited in between. The guard
  on the revision (`SameRevision`) makes every other observation harmless;
* of tasks, wallet and nonces (`TasksOK`, `WalletOK`, `NonceOK`), at which point of a submission a transaction can exist that no record
  names, and that a nonce is given to one intent; of the chain (`ChainOK`), that nonces are used in turn;
* of two intents of one retry key (`KeysApart`), that while the record of one has no hash, the other has no transaction that could take its
  nonce. A scan knows a transaction by its call and nonce only, and would otherwise take one intent's transaction for the other's.

`TransactionJournal_proofs` first proves what links, merges, `Apply` and the scan do, then has one lemma per action and part of the invariant.

### 6.9 PoolStream

For any range of bins, radius, queue, number of events, reorganisations and restarts (`PoolAssumption`; what the reset frame looks like does not matter).

`WindowExact` is proved of every retained state (`States`), since a reorganisation goes back to one. `Selected` is the arithmetic of
the source's selection: the bins read contain what was traded, unless the window is read anew, and the new window is within what is read and
the old window, clamped ends included. `AfterFacts` concludes that a bin that is kept was not traded and one that is read is as on the chain.

`BrowserFollows` compares what a browser shows with what it will receive, and the log does not say which state a frame was of: after a
reorganisation that state is gone. `PoolInv` therefore says that *some* assignment `at` of a state to each place of the log explains it
(`StreamOK`): every frame leads from the state before it to the one after (`Leads`), and the last state is the engine's, except in a
backfill, where the engine may be ahead. A frame leads to a state if it has that state's bins, all that changed if it is sparse, and the active bin if that
moved. `BrowserOK` says that what is shown is a part of the state at its cursor, with the active bin (`ViewOf`), and that the updates
under way and pending are the frames that follow, with no reset among them.
Then one lemma (`ShowsView`) says that a frame takes a view of the state before to a view of the state after, whatever the browser
has pruned, and another (`FitsOrSame`) that it is not refused. `ChainView` extends the first to any number of updates, by the least number for
which it would fail (`LeastNat`, which follows from the well-foundedness of inclusion between finite sets).

### 6.10 CandleRollups

For any tree of blocks (`BlockAssumption`, `ClockAssumption`, `ReorgBound`), any events in any order (`OrderAssumption`: a block lists its
events in a sequence) and any intervals, as long as each is a multiple of the shorter one it is rolled up from and begins
where one of those does (`IntervalAssumption`). `candleIntervalSeconds` and `candleBoundary` satisfy this, the week on a Monday included.

`CandleInv` adds to the engine's invariant that, whenever every retained block applies, the candles are the reference's, and a follower has
exactly those, final or not. A torn engine has other candles; that it is whole again only by a reorganisation or rewind, which rebuild, or was
whole before an append, is what `WholeViews` and `WholeBefore` take from `History` (section 6.5). Then

* `ReferenceIs` splits the reference into its keys (`Keys`) and what the chain gives to each (`Given`), and `GivenAppended` and
  `KeysAppended` say what one more block adds;
* `BucketFilled` is the heart: what a chain gives to a bucket is what it gives to the slots of the bucket, put together in their order. A block falls
  into at most one slot (`SlotOf`, `SlotIn`, arithmetic of aligned boundaries), and into none before the last filled one, since times do
  not decrease: this is where `Clock` is needed, and it is why updates at the end of a slot are updates at the end of the bucket (`SlotFilled`);
* hence each way of keeping the candles makes the reference: an increment, because each bucket is rebuilt after its
  source (`BucketMixed`, `IncrementedIs`); a rebuild, interval by interval (`IntervalBelow`, `RolledUpIs`, `MinutesAre`); a restore, block by
  block (`IngestedIs`);
* followers: an append looks for newly final candles only at the time of the old head. `FinalKept` says that every other
  candle it does not name is as final after it as before: it had ended already, since a candle begins no later than the head.

What recursive functions and `FlattenSeq` compute is proved by the least number for which it would fail (`InTurn`, from `MinProperties`), since
the library's induction cannot be cited with an operator.

### Checked only by TLC

* All liveness (`BrowsersCatchUp`, `CatchesUp`, `EventuallyServes`, `OutageIsFatal`, `ResumedExitCompletes`) and what rests on fairness: out of the prover's reach.
* `CanonicalOnEvidence`, whose point is reorganisations as deep as the confirmations, which `Calm` excludes; and the other properties of the journal where
  `Calm` does not hold (`RemovalsExclude` in `journal_pairs`, without cancellations; both kinds of replacement in one tab in `journal_chain`).

## 7. Findings

1. **A block that throws is skipped in the store** (`engine.ts:273`, run
   `service_poison`). The block is retained before it is applied. When one of its events
   throws live, the request fails and nothing becomes pending, but the block stays; the next block is
   accepted on top and stored above a missing number. In a backfill the `finally`
   (`service.ts:694-700`) saves the torn engine at once. The next start fails either way.
   `docs/wave-5/candle-architecture.md:74` promises that "a restart therefore restores either
   the complete old state or the complete new state and replay log". It needs a block that passes verification and still throws.
2. **A mined transaction may be forgotten by a reload** (`transaction-journal.ts:412`, run
   `journal_head_moves`). `reconcile` and `recheck` read the head before the receipt. If the transaction is mined
   in between, the receipt is above the head, confirmations are 0 and the status is `confirming`;
   `isJournalRecord` (`transaction-journal.ts:862`) refuses a confirming record without
   confirmations, so a reload before the next observation discards it, and the retry of its intent
   is no longer blocked. `apps/web/scripts/test-transaction-journal.mjs:423`: "reload must preserve
   pending hashes, nonce, reviewed intent, and lifecycle". It needs a chain that is fast compared with two requests, and a reload
   within the three seconds to the next observation.
3. **A full replay after a resumed start is refused** (`canonical-block-source.mjs:143`, run `source_replay`). The first
   block read after a resumed start carries forced snapshots of every pool; when a later start must replay
   everything, the same block comes without them, the engine sees a changed payload (`engine.ts:250`), and this and every
   further start fails. The comment at `:100-101` says "A complete replay is the only safe recovery".
4. **A bin that left the window and came back is missing** (`engine.ts:1103`, run `pool_window`). When the active bin moves by one and
   back, the browser has pruned a bin at the edge; the source reads it again as a bin that comes into view, but the engine, which never forgot it,
   omits it as unchanged. The browser shows a window with a hole that the bootstrap query would
   fill, until the bin trades or the stream resets. What is shown stays true (`BrowserFollows`).
   `docs/wave-5/pool-state-streaming.md:35` lists "newly visible edge bins introduced when the active-centered window moves".

Notes met on the way, without a run of their own:

* `NothingLostOnReload` also needs reorganisations shallower than the confirmations (`ReorgDepth` 1 in
  `journal_chain`, `Calm` in the theorem). With a deeper one, the receipt of a finalized cancellation may disappear:
  `applyTransactionObservation` makes the record `orphaned` (`transaction-journal.ts:337`) and leaves
  `replacementFinalized` true, which `isJournalRecord` refuses (`:874`). What is lost does not hold back a
  second removal of the same pool either.
* A reorganisation as deep as the confirmations between the lookup of a receipt's block (`transaction-journal-react.tsx:349`) and the write
  (`:205-211`) makes a record canonical although its transaction is off the chain; the next observation corrects it.
* A candle refetch on focus that was read before an event and is answered after it takes the event back, and with the same `streamCursor` nothing sends it
  again (`pool-workspace-context.tsx:186`, `:233`, `:272`; section 3.3).
* A store whose unlock times out is closed while its lock stays on the session it gave up (`postgres-store.ts:342`, `:370`); starts are
  refused until PostgreSQL ends that session.
* The proof met a second way to that record, which needs two tabs, two replacements of one transaction and only a shallow reorganisation
  (TLC finds it with the constants of `journal_chain`, two tabs, no failing lookup and `MaxRevision` 5, when only the steps told here are allowed). A transaction is sped up and the speed-up mined,
  which one tab observes and stores; a reorganisation undoes it, the wallet cancels, and that tab stores the finalized
  cancellation, linked original to speed-up to cancellation. A second tab still holds the original. `mergedActiveHash` (`transaction-journal.ts:740-752`) looks
  for a direct link between the two active hashes and finds none, so that tab's memory has *no* active hash, under the revision of the stored record. Its next
  observation scans for the reviewed call, finds nothing, and is accepted by `updateObservedTransaction`
  (`:434`), which compares revisions only; the record becomes `orphaned` with `replacementFinalized` true. The reason given at `:584` says that
  "all hash evidence" is being reconciled.
* A backfill page that a reorganisation leads back to the cursor it had ends the process with "Backfill cursor did not
  advance", though the source was honest; the next start goes on.
* An update received while another awaits its read may be refused needlessly. A new window drops bins, which the engine counts
  from revision 1 again when they come back (`engine.ts:1092-1119`). `onPoolState` projects the pending updates on what is shown, without those under
  way (`pool-workspace-context.tsx:376`), so that such a bin seems to go back behind the one that the window under way has dropped; the browser
  reloads. TLC finds it with three blocks, two of which replace the window.
* `docs/wave-5/pool-state-streaming.md` calls lower or equal revisions no-ops for a consumer; `applyPoolStateUpdate` throws on them and the browser reloads, which is
  safe and is what `PoolStream` models.

## 8. What is not modelled

* Arithmetic of one event at a time: USD valuation (`pricing.ts`, `fixed.ts`), positions' cost basis, and
  the paginated query methods of the engine. No order of steps is involved; unit tests reach them.
* `StreamIpQuota` and `ClientTokenBuckets`: counters touched in one turn of the event loop.
* No state machine of interest: discovery metadata and token images (cached HTTP reads), custody
  of secrets (file permissions, environment), SDK (stateless builders of calls), web rendering and contract reads
  (`App.tsx` apart from the full exit, `data.ts`), operations scripts, deployment records. These are most of the repository's
  lines, which is why the share of lines that the modules stand for stays small.
* Wallet lifecycle, creation of pools in steps (`pool-creation-progress.ts`), the dev-market runner: small state kept in browser
  or local storage; next in the plan.
* External: the subgraph's handlers are run one by one by graph-node; the Liquidity
  Book contracts are vendored; the position snapshot provider and the RPC endpoint answer for what they are asked.

## 9. Plan

1. Pool creation in steps (`pool-creation-progress.ts`, `pool-creation-review-storage.ts`): resumed after a reload,
   against the journal. To state: no step is sent twice; progress never precedes its receipt.
2. The dev-market runner (`runner.ts`, `policy.ts`): budget and cool-down over failures and restarts.
3. Admission: token buckets with clients beyond the limit; stream quota with the ways a stream ends.
4. Proofs: the journal's invariant with two kinds of replacement and one tab, where links have two steps but no memory is behind.

## 10. How to run

```
tlc -workers 2 -config MCStreamHub.cfg MCStreamHub      # and the other cfg files of section 4
tlapm StreamHub_proofs.tla                              # and the other *_proofs.tla
```
The longest runs, `journal_pairs`, `positions`, `runtime`, `stream_hub`, `journal_chain` and `service`, take two to four minutes with two workers; the proofs of the journal
take the longest of all proofs.
`PROJECT.json` lists runs, mutants, the map from definitions to source lines, hazards, findings and theorems.
