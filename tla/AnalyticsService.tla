-------------------------- MODULE AnalyticsService --------------------------
(***************************************************************************)
(* AnalyticsApiService (packages/analytics/src/service.ts): the canonical  *)
(* engine behind a mutation mutex, the durable store it commits to, the    *)
(* backfill that each start of the process runs before it serves, the      *)
(* in-memory log of published events, and browsers that load a candle with *)
(* its stream cursor and then follow the log.                              *)
(*                                                                         *)
(* One mutation is a critical section of AsyncMutex: it applies a block,   *)
(* then flushes the pending commit, which is a store transaction (an await *)
(* during which the process may die, or its answer be lost) followed by    *)
(* the publication of its events.  Readers take the mutex too, and flush   *)
(* first.  The replay window is not modelled here but in StreamHub, whose  *)
(* promise is used: a cursor is answered with every later event or refused.*)
(***************************************************************************)
EXTENDS CanonicalEngine

CONSTANTS
  Pairs,        \* traded pairs
  PairsOf,      \* event identity -> pairs whose candle it changes
  Browsers,     \* followers of one pair each
  Reset,        \* topic of resets
  None,         \* no pending commit; no backfill; no block; no candle; no answer
  DurableLog,   \* TRUE: PostgresAnalyticsStore; FALSE: AnalyticsCheckpointStore
  MaxFaults     \* bound: failures of the store or the source, lost answers, crashes

(* A candle is the events that made it, each of its block, which orders    *)
(* them; its revision counts them.                                         *)
Candles == SUBSET (Blocks \X EventIds)

Event == [topic : Pairs \cup {Reset}, candle : Candles \cup {None}]
Pending == [block : Blocks, full : BOOLEAN, events : Seq(Event)]
Loading == [last : Blocks \cup {None}, latest : {-1} \cup Range(Time),
            reset : BOOLEAN, failed : BOOLEAN]
Answer == [candle : Candles, cursor : Nat]

ASSUME ServiceAssumption ==
  /\ IsFiniteSet(Blocks) /\ IsFiniteSet(EventIds) /\ IsFiniteSet(Pairs)
  /\ \A e \in EventIds : PairsOf[e] \subseteq Pairs
  /\ Reset \notin Pairs
  /\ None \notin Blocks /\ None \notin Pending /\ None \notin Loading
  /\ None \notin Answer
  /\ DurableLog \in BOOLEAN
  /\ MaxFaults \in Nat

VARIABLES
  phase,     \* the process: down, in the backfill of its start, serving
  loading,   \* local variables of runBackfill
  flushing,  \* what the mutation holding the mutex does: idle, storing, stored
  pending,   \* #pendingCanonicalCommit
  snapshot,  \* #candleSnapshot
  log,       \* events published by the hub; its #sequence is Len(log)
  db,        \* the durable state
  browser,   \* what each browser shows, of which answer (base), followed up to
             \* which cursor, and the answer that is on its way to it
  faults     \* faults so far

serviceVars == <<phase, loading, flushing, pending, snapshot, log, db, browser, faults>>
allVars == <<engineVars, serviceVars>>

-----------------------------------------------------------------------------
Candle(chain, p) ==
  UNION {{<<chain[i].id, e>> : e \in {f \in chain[i].kept : p \in PairsOf[f]}} :
           i \in DOMAIN chain}
CandlesOf(chain) == [p \in Pairs |-> Candle(chain, p)]
PairsIn(env) == UNION {PairsOf[e] : e \in env.kept}

(* #candleChangeInputs: one reset for a reorg, otherwise the candles that  *)
(* are not the published ones.                                             *)
ResetEvent == [topic |-> Reset, candle |-> None]
ChangeEvents(pairs, chain) ==
  SetToSeq({[topic |-> p, candle |-> Candle(chain, p)] :
              p \in {q \in pairs : Candle(chain, q) # snapshot[q]}})

(* The store: rows of canonical_blocks by number, the checkpoint's         *)
(* metadata, the candles, the event log.  load() orders the rows by number.*)
ByNumber(chain) ==
  [n \in {Number[chain[i].id] : i \in DOMAIN chain} |->
     chain[CHOOSE i \in DOMAIN chain : Number[chain[i].id] = n]]
Nth(numbers, i) == CHOOSE n \in numbers : Cardinality({m \in numbers : m <= n}) = i
Loaded(rows) == [i \in 1..Cardinality(DOMAIN rows) |-> rows[Nth(DOMAIN rows, i)]]

EmptyDb == [rows |-> <<>>, reorgs |-> 0, status |-> "unavailable", coverage |-> -1,
            candles |-> [p \in Pairs |-> {}], log |-> <<>>]

(* Mutant: the events are not part of the transaction.                     *)
AppendedState_WithoutEvents(b, events) ==
  [rows     |-> [n \in DOMAIN db.rows \cup {Number[b]} |->
                   IF n = Number[b] THEN [id |-> b, kept |-> Range(Events[b])] ELSE db.rows[n]],
   reorgs   |-> reorgCount,
   status   |-> backfillStatus,
   coverage |-> coverageThrough,
   candles  |-> [p \in Pairs |->
                   IF \E i \in DOMAIN events : events[i].topic = p
                   THEN Candle(views, p) ELSE db.candles[p]],
   log      |-> db.log]

(* appendCanonicalStateAndCandleEvents upserts the block as submitted, with*)
(* the events canonicalisation left out, and the changed candles.          *)
AppendedState(b, events) ==
  [rows     |-> [n \in DOMAIN db.rows \cup {Number[b]} |->
                   IF n = Number[b] THEN [id |-> b, kept |-> Range(Events[b])] ELSE db.rows[n]],
   reorgs   |-> reorgCount,
   status   |-> backfillStatus,
   coverage |-> coverageThrough,
   candles  |-> [p \in Pairs |->
                   IF \E i \in DOMAIN events : events[i].topic = p
                   THEN Candle(views, p) ELSE db.candles[p]],
   log      |-> log \o events]

(* Mutant: rows above the new head are not deleted.                        *)
SavedState_KeepsRows(eventLog) ==
  [rows     |-> ByNumber(blocks) @@ db.rows,
   reorgs   |-> reorgCount,
   status   |-> backfillStatus,
   coverage |-> coverageThrough,
   candles  |-> CandlesOf(views),
   log      |-> eventLog]

(* saveCanonicalStateAndCandleEvents and save replace all but the log.     *)
SavedState(eventLog) ==
  [rows     |-> ByNumber(blocks),
   reorgs   |-> reorgCount,
   status   |-> backfillStatus,
   coverage |-> coverageThrough,
   candles  |-> CandlesOf(views),
   log      |-> eventLog]

(* Mutant: a reorg replaces the state without its reset.                   *)
Written_NoReset(p) ==
  IF ~DurableLog THEN SavedState(<<>>)
  ELSE IF p.full THEN SavedState(SelectSeq(log \o p.events, LAMBDA e : e.topic # Reset))
  ELSE AppendedState(p.block, p.events)

Written(p) ==
  IF ~DurableLog THEN SavedState(<<>>)
  ELSE IF p.full THEN SavedState(log \o p.events)
  ELSE AppendedState(p.block, p.events)

-----------------------------------------------------------------------------
(* A browser opens the pair, or onReset: a generation, whose query has a   *)
(* key of its own.  The candle of the last one is but its placeholder.     *)
Generation(p) == [pair |-> p, candle |-> None, base |-> 0, cursor |-> 0,
                  state |-> "refetch", answer |-> None, overtaken |-> FALSE]

ServiceInit ==
  /\ Init /\ backfillStatus = "unavailable"
  /\ phase = "down"
  /\ loading = None
  /\ flushing = "idle"
  /\ pending = None
  /\ snapshot = [p \in Pairs |-> {}]
  /\ log = <<>>
  /\ db = EmptyDb
  /\ browser \in [Browsers -> {Generation(p) : p \in Pairs}]
  /\ faults = 0

(* Mutant: a mutation does not flush what is pending.                      *)
Settled_IgnoresPending == phase = "serving" /\ flushing = "idle"

(* The mutex is free and nothing is left to flush.                         *)
Settled == phase = "serving" /\ flushing = "idle" /\ pending = None

(* ingestBlock: the engine first; an append or a reorg becomes the pending *)
(* commit and its flush starts.  An engine error leaves nothing pending.   *)
Ingest(b) ==
  /\ Settled
  /\ \/ Appended(b) \/ Reorged(b)
  /\ LET reset == reorgCount' > reorgCount
         whole == IF reset THEN views' = blocks' ELSE Last(views') = Last(blocks')
     IN
       IF whole
       THEN /\ pending' = [block  |-> b,
                           full   |-> reset,
                           events |-> IF reset THEN <<ResetEvent>>
                                      ELSE ChangeEvents(PairsIn(Last(blocks')), views')]
            /\ flushing' = "storing"
       ELSE UNCHANGED <<pending, flushing>>
  /\ UNCHANGED <<phase, loading, snapshot, log, db, browser, faults>>

IngestDuplicate(b) ==
  /\ Settled
  /\ Duplicated(b)
  /\ UNCHANGED serviceVars

(* reconcileCanonicalHead: the source's head moved back to a retained one. *)
Reconcile(b) ==
  /\ Settled
  /\ Rewound(b)
  /\ IF views' = blocks'
     THEN /\ pending' = [block |-> b, full |-> TRUE, events |-> <<ResetEvent>>]
          /\ flushing' = "storing"
     ELSE UNCHANGED <<pending, flushing>>
  /\ UNCHANGED <<phase, loading, snapshot, log, db, browser, faults>>

(* #flushPendingCanonicalCommit of the next mutation or reader, after a    *)
(* flush that failed.                                                      *)
RetryFlush ==
  /\ phase = "serving"
  /\ flushing = "idle"
  /\ pending # None
  /\ flushing' = "storing"
  /\ UNCHANGED <<engineVars, phase, loading, pending, snapshot, log, db, browser, faults>>

(* What the flush under way writes: #pendingCanonicalCommit, or at the end *)
(* of a backfill #persistFullStateAndPublish.                              *)
Commit ==
  IF phase = "serving" THEN pending
  ELSE [block  |-> None,
        full   |-> TRUE,
        events |-> IF loading.reset THEN <<ResetEvent>> ELSE ChangeEvents(Pairs, views)]

(* Mutant: a row that is already there refuses a retried batch.            *)
Conflicts_AnyRow(events) ==
  \E i \in DOMAIN events : Len(log) + i <= Len(db.log)

(* A row already at a cursor must be the same event: a retried batch is.   *)
Conflicts(events) ==
  \E i \in DOMAIN events :
    Len(log) + i <= Len(db.log) /\ db.log[Len(log) + i] # events[i]

(* Mutant: the commit is forgotten before its events are published.        *)
StoreCommits_ClearsPending ==
  /\ flushing = "storing"
  /\ ~Conflicts(Commit.events)
  /\ db' = Written(Commit)
  /\ flushing' = "stored"
  /\ pending' = None
  /\ UNCHANGED <<engineVars, phase, loading, snapshot, log, browser, faults>>

StoreCommits ==
  /\ flushing = "storing"
  /\ ~Conflicts(Commit.events)
  /\ db' = Written(Commit)
  /\ flushing' = "stored"
  /\ UNCHANGED <<engineVars, phase, loading, pending, snapshot, log, browser, faults>>

(* publishBatch after persist() resolved, #applyCandleSnapshot, and the    *)
(* end of the critical section.                                            *)
Published ==
  /\ log' = log \o Commit.events
  /\ snapshot' = IF Commit.full THEN CandlesOf(views)
                 ELSE [p \in Pairs |->
                         IF \E i \in DOMAIN pending.events : pending.events[i].topic = p
                         THEN Candle(views, p) ELSE snapshot[p]]
  /\ pending' = None
  /\ flushing' = "idle"
  /\ UNCHANGED <<engineVars, db, browser, faults>>
Publish ==
  /\ flushing = "stored"
  /\ phase = "serving"
  /\ Published
  /\ UNCHANGED <<phase, loading>>

(* The process ends: its memory is gone and connections break.             *)
Ended ==
  /\ phase' = "down"
  /\ loading' = None
  /\ flushing' = "idle"
  /\ pending' = None
  /\ blocks' = <<>> /\ eventIndex' = {} /\ views' = <<>>
  /\ reorgCount' = 0 /\ backfillStatus' = "unavailable" /\ coverageThrough' = -1
  /\ snapshot' = [p \in Pairs |-> {}]
  /\ log' = <<>>
  /\ browser' = [k \in Browsers |->
                   IF browser[k].state = "live"
                   THEN [browser[k] EXCEPT !.state = "closed"] ELSE browser[k]]

(* Mutant: a failed commit is dropped.                                     *)
StoreFails_Forgets ==
  /\ flushing = "storing"
  /\ faults < MaxFaults
  /\ phase = "serving"
  /\ flushing' = "idle"
  /\ pending' = None
  /\ faults' = faults + 1
  /\ UNCHANGED <<engineVars, phase, loading, snapshot, log, db, browser>>

(* The transaction fails, by a fault or a conflict, and rolls back.  A     *)
(* commit stays pending; a start fails.                                    *)
StoreFails ==
  /\ flushing = "storing"
  /\ ~Conflicts(Commit.events) => faults < MaxFaults
  /\ IF phase = "serving"
     THEN /\ flushing' = "idle"
          /\ UNCHANGED <<engineVars, phase, loading, pending, snapshot, log, browser>>
     ELSE Ended
  /\ faults' = IF Conflicts(Commit.events) THEN faults ELSE faults + 1
  /\ UNCHANGED db

(* The transaction commits and its answer is lost: the same for the code.  *)
AnswerLost ==
  /\ DurableLog
  /\ flushing = "storing"
  /\ ~Conflicts(Commit.events)
  /\ faults < MaxFaults
  /\ IF phase = "serving"
     THEN /\ flushing' = "idle"
          /\ UNCHANGED <<engineVars, phase, loading, pending, snapshot, log, browser>>
     ELSE Ended
  /\ db' = Written(Commit)
  /\ faults' = faults + 1

(* The process dies, in its start, between or within mutations.            *)
Crash ==
  /\ phase # "down"
  /\ faults < MaxFaults
  /\ Ended
  /\ faults' = faults + 1
  /\ UNCHANGED db

(* AnalyticsApiService.create; a checkpoint that does not restore ends the *)
(* process again.  Then backfill() takes the mutex and starts to run.      *)
Restart ==
  /\ phase = "down"
  /\ Restorable(Loaded(db.rows))
  /\ RestoreCheckpoint(Loaded(db.rows), db.reorgs, "running", db.coverage)
  /\ phase' = "backfill"
  /\ loading' = [last |-> None, latest |-> -1, reset |-> FALSE, failed |-> FALSE]
  /\ log' = db.log
  /\ snapshot' = CandlesOf(views')
  /\ UNCHANGED <<flushing, pending, db, browser, faults>>

-----------------------------------------------------------------------------
(* Backfill (backfill.ts).  A page is loaded block by block; nobody else   *)
(* runs meanwhile.                                                         *)

InLoop == phase = "backfill" /\ flushing = "idle" /\ ~loading.failed

(* Pages are contiguous.  The first begins with the history, or where      *)
(* startupCursor resumes, right after the retained head; only a reorg      *)
(* leads back.                                                             *)
Follows(b) ==
  IF loading.last = None
  THEN b \in Start \cup {c \in Blocks : Extends(blocks, c)}
  ELSE b \in {c \in Blocks : IF RetainedIn(blocks, c) THEN Number[c] = Number[loading.last] + 1
                                                       ELSE Number[c] <= Number[loading.last] + 1}

(* A block of a page.  One that throws ends the backfill.                  *)
BackfillIngest(b) ==
  /\ InLoop
  /\ Follows(b)
  /\ Appended(b) \/ Reorged(b) \/ Duplicated(b)
  /\ LET reset == reorgCount' > reorgCount
         torn  == (blocks' # blocks) /\ IF reset THEN views' # blocks'
                                        ELSE Last(views') # Last(blocks')
     IN
       loading' = [last   |-> b,
                   latest |-> IF torn THEN loading.latest ELSE Max({loading.latest, Time[b]}),
                   reset  |-> loading.reset \/ reset,
                   failed |-> torn]
  /\ UNCHANGED <<phase, flushing, pending, snapshot, log, db, browser, faults>>

(* A page's rewindTo, or the last page's canonicalHead.                    *)
BackfillRewind(b) ==
  /\ InLoop
  /\ loading.last # None
  /\ Number[b] <= Number[loading.last]
  /\ Rewound(b)
  /\ loading' = [loading EXCEPT !.last = b, !.reset = TRUE, !.failed = views' # blocks']
  /\ UNCHANGED <<phase, flushing, pending, snapshot, log, db, browser, faults>>

(* Mutant: coverage runs to the newest block that was ever loaded.         *)
CoverageLoaded_Latest ==
  IF loading.latest # -1 THEN loading.latest ELSE coverageThrough

(* coverageThrough(): what was loaded, no further than the head.           *)
CoverageLoaded ==
  LET loaded == IF loading.latest # -1 THEN loading.latest ELSE coverageThrough IN
  IF blocks = <<>> THEN loaded ELSE Min({loaded, Time[Last(blocks).id]})

EndBackfill(status) ==
  /\ backfillStatus' = status
  /\ coverageThrough' = CoverageLoaded
  /\ flushing' = "storing"
  /\ UNCHANGED <<blocks, eventIndex, views, reorgCount, phase, loading, pending, snapshot,
                 log, db, browser>>

(* The page without a successor: its last block is the head.               *)
BackfillCompletes ==
  /\ InLoop
  /\ loading.last # None => loading.last = Last(blocks).id
  /\ EndBackfill("complete")
  /\ UNCHANGED faults

(* A page cannot be fetched or applied, or there are more than maxPages.   *)
StopStatuses ==
  IF loading.failed THEN {"partial"}
  ELSE {status \in {"partial", "capped"} : faults < MaxFaults}
BackfillStops ==
  /\ phase = "backfill" /\ flushing = "idle"
  /\ \E status \in StopStatuses : EndBackfill(status)
  /\ faults' = IF loading.failed THEN faults ELSE faults + 1

(* Mutant: the process serves, however its backfill ended.                 *)
StartEnds_Anyway ==
  /\ phase = "backfill"
  /\ flushing = "stored"
  /\ Published
  /\ phase' = "serving"
  /\ loading' = None

(* Only a complete backfill lets the process serve.                        *)
StartEnds ==
  /\ phase = "backfill"
  /\ flushing = "stored"
  /\ IF backfillStatus = "complete"
     THEN Published /\ phase' = "serving" /\ loading' = None
     ELSE Ended /\ UNCHANGED <<db, faults>>

-----------------------------------------------------------------------------
(* Browsers.                                                               *)

Unseen(k) ==
  {c \in DOMAIN log : c > browser[k].cursor /\ log[c].topic \in {browser[k].pair, Reset}}

(* candlesQuery's function, in a new generation, or because the window has  *)
(* the focus again, whatever the stream does (refetchOnWindowFocus); not   *)
(* while the last one is in flight.  pairCandles reads the candle and the  *)
(* stream cursor.                                                          *)
Request(k) ==
  /\ browser[k].answer = None
  /\ browser' = [browser EXCEPT ![k].answer = [candle |-> Candle(views, browser[k].pair),
                                              cursor |-> Len(log)]]
  /\ UNCHANGED <<engineVars, phase, loading, flushing, pending, snapshot, log, db, faults>>

(* Mutant: the candle is read outside the mutex.                           *)
Load_Unlocked(k) == phase = "serving" /\ Request(k)

(* ... in one critical section.                                            *)
Load(k) == Settled /\ Request(k)

(* Mutant: the stream is not opened again at the answer's cursor.          *)
Answered_KeepsStream(k) ==
  /\ browser[k].answer # None
  /\ LET answer == browser[k].answer IN
       browser' =
         [browser EXCEPT ![k] =
            IF browser[k].state = "refetch"
            THEN [@ EXCEPT !.candle = answer.candle, !.base = answer.cursor, !.cursor = answer.cursor,
                           !.state = "closed", !.answer = None, !.overtaken = FALSE]
            ELSE [@ EXCEPT !.candle = answer.candle, !.answer = None,
                           !.overtaken = /\ answer.cursor = browser[k].base
                                          /\ browser[k].cursor # browser[k].base]]
  /\ UNCHANGED <<engineVars, phase, loading, flushing, pending, snapshot, log, db, faults>>

(* The answer arrives and replaces what is shown.  The first of a          *)
(* generation, or one of another streamCursor, opens the stream there.  One*)
(* of the same streamCursor leaves the stream alone, which does not repeat *)
(* the events that it has overtaken.                                       *)
Answered(k) ==
  /\ browser[k].answer # None
  /\ LET answer == browser[k].answer IN
       browser' =
         [browser EXCEPT ![k] =
            IF browser[k].state = "refetch" \/ answer.cursor # browser[k].base
            THEN [@ EXCEPT !.candle = answer.candle, !.base = answer.cursor, !.cursor = answer.cursor,
                           !.state = "closed", !.answer = None, !.overtaken = FALSE]
            ELSE [@ EXCEPT !.candle = answer.candle, !.answer = None,
                           !.overtaken = browser[k].cursor # browser[k].base]]
  /\ UNCHANGED <<engineVars, phase, loading, flushing, pending, snapshot, log, db, faults>>

(* A page that fails is an answer without a streamCursor, which replaces   *)
(* what is shown and ends the stream; only the next focus asks again.  So  *)
(* does a page of another head than the first (paginate).                  *)
AnswerFails(k) ==
  /\ browser[k].answer # None
  /\ browser' = [browser EXCEPT ![k] = Generation(@.pair)]
  /\ UNCHANGED <<engineVars, phase, loading, flushing, pending, snapshot, log, db, faults>>

(* openFilteredStream: a future cursor is answered with a reset.           *)
Connect(k) ==
  /\ phase = "serving"
  /\ browser[k].state = "closed"
  /\ browser' = [browser EXCEPT ![k] =
                   IF browser[k].cursor > Len(log) THEN Generation(@.pair)
                   ELSE [@ EXCEPT !.state = "live"]]
  /\ UNCHANGED <<engineVars, phase, loading, flushing, pending, snapshot, log, db, faults>>

(* ... and so is one the replay window dropped, or a subscriber too many.  *)
Refuse(k) ==
  /\ phase = "serving"
  /\ browser[k].state = "closed"
  /\ browser' = [browser EXCEPT ![k] = Generation(@.pair)]
  /\ UNCHANGED <<engineVars, phase, loading, flushing, pending, snapshot, log, db, faults>>

Disconnect(k) ==
  /\ browser[k].state = "live"
  /\ browser' = [browser EXCEPT ![k].state = "closed"]
  /\ UNCHANGED <<engineVars, phase, loading, flushing, pending, snapshot, log, db, faults>>

(* A frame arrives.  A candle replaces the shown one unless its revision   *)
(* is lower; a reset starts a new generation.                              *)
Shown(k, event) ==
  IF Cardinality(event.candle) >= Cardinality(browser[k].candle) THEN event.candle ELSE browser[k].candle

(* Mutant: a reset is not acted upon.                                      *)
Receive_IgnoresReset(k) ==
  /\ browser[k].state = "live"
  /\ Unseen(k) # {}
  /\ LET c == Min(Unseen(k)) IN
       browser' =
         [browser EXCEPT ![k].cursor = c,
                         ![k].candle = IF log[c].topic = Reset THEN @ ELSE Shown(k, log[c])]
  /\ UNCHANGED <<engineVars, phase, loading, flushing, pending, snapshot, log, db, faults>>

Receive(k) ==
  /\ browser[k].state = "live"
  /\ Unseen(k) # {}
  /\ LET c == Min(Unseen(k)) IN
       browser' =
         [browser EXCEPT ![k] =
            IF log[c].topic = Reset THEN Generation(@.pair)
            ELSE [@ EXCEPT !.cursor = c, !.candle = Shown(k, log[c])]]
  /\ UNCHANGED <<engineVars, phase, loading, flushing, pending, snapshot, log, db, faults>>

BrowserNext ==
  \E k \in Browsers :
    \/ Load(k) \/ Answered(k) \/ AnswerFails(k)
    \/ Connect(k) \/ Refuse(k) \/ Disconnect(k) \/ Receive(k)

ServiceNext ==
  \/ \E b \in Offered : Ingest(b) \/ IngestDuplicate(b) \/ Reconcile(b)
  \/ RetryFlush \/ StoreCommits \/ Publish \/ StoreFails \/ AnswerLost
  \/ Crash \/ Restart
  \/ \E b \in Offered : BackfillIngest(b) \/ BackfillRewind(b)
  \/ BackfillCompletes \/ BackfillStops \/ StartEnds
  \/ BrowserNext

ServiceSpec == ServiceInit /\ [][ServiceNext]_allVars

(* Fairness.  The process goes on: every reader and mutation flushes first,*)
(* so a failed flush is retried as long as requests arrive, and a          *)
(* supervisor restarts it.  A browser that has no streamCursor asks (a new *)
(* generation does at once, and the window has the focus again after a     *)
(* failure), not every answer fails, and its turn comes among those who    *)
(* also connect.                                                           *)
GoesOn ==
  \/ RetryFlush \/ StoreCommits \/ Publish \/ Restart \/ StartEnds \/ BackfillCompletes
  \/ \E b \in Offered : BackfillIngest(b)
Fairness ==
  /\ WF_allVars(GoesOn)
  /\ \A k \in Browsers :
       /\ WF_allVars(browser[k].state = "refetch" /\ Load(k)) /\ SF_allVars(Answered(k))
       /\ SF_allVars(Connect(k)) /\ SF_allVars(Receive(k))
FairSpec == ServiceSpec /\ Fairness

-----------------------------------------------------------------------------
ServiceTypeOK ==
  /\ TypeOK
  /\ phase \in {"down", "backfill", "serving"}
  /\ phase = "backfill" <=> loading # None
  /\ flushing \in {"idle", "storing", "stored"}
  /\ pending \in Pending \cup {None}
  /\ flushing # "idle" => phase = "backfill" \/ pending # None
  /\ snapshot \in [Pairs -> Candles]
  /\ faults \in 0..MaxFaults

(* Readers see only durable state: whenever a reader's turn comes, the     *)
(* engine it reads, its cursor included, is what a restart would restore.  *)
ReadersSeeDurable ==
  Settled => /\ Replayed(Loaded(db.rows)) = blocks
             /\ db.reorgs = reorgCount
             /\ db.status = backfillStatus /\ db.coverage = coverageThrough
             /\ DurableLog => db.log = log

(* Whatever failed before, the durable blocks can be restored, and they    *)
(* are those the durable candles were made from.                           *)
AlwaysRestorable ==
  /\ Restorable(Loaded(db.rows))
  /\ db.candles = CandlesOf(Replayed(Loaded(db.rows)))

(* No event is observable before it is durable.                            *)
PublishedIsDurable == DurableLog => IsPrefix(log, db.log)

(* A retried transaction writes the events of the first try at the cursors *)
(* of the first try, so the immutability check of the log never fails it.  *)
RetryIdempotent == flushing = "storing" => ~Conflicts(Commit.events)

(* What is served claims no coverage beyond its head, whichever pages,     *)
(* failures and resumed backfills it was loaded by, and whatever was       *)
(* rewound since.                                                          *)
CoverageWithinHead ==
  Settled /\ Whole /\ blocks # <<>> => coverageThrough <= Time[Last(blocks).id]

(* At any moment: nothing is seen before it is durable, and nothing served *)
(* claims more than was loaded.                                            *)
ServiceConsistent == ServiceTypeOK /\ PublishedIsDurable /\ CoverageWithinHead

(* A connected browser that has received all there is shows the candle     *)
(* last published, whatever reconnects, restarts and reorgs it went through*)
(* and whichever answers arrived among the events, unless the last one was *)
(* of the streamCursor it had and took back events already shown.          *)
FollowersCurrent ==
  \A k \in Browsers :
    browser[k].state = "live" /\ Unseen(k) = {} /\ ~browser[k].overtaken
      => browser[k].candle = snapshot[browser[k].pair]

(* The durable state is a DurableFeed: no new candle behind an old cursor. *)
Feed == INSTANCE DurableFeed WITH
          Candles <- Candles,
          candles <- db.candles,
          log     <- db.log
FeedSpec == Feed!Spec

(* A browser does not stay behind for ever; one whose shown events an      *)
(* answer took back does if it never asks again, and only then: the next   *)
(* answer is of a later streamCursor.                                      *)
BrowsersCatchUp ==
  \A k \in Browsers :
    \/ []<>(browser[k].candle = snapshot[browser[k].pair])
    \/ <>[](browser[k].overtaken /\ browser[k].answer = None)

=============================================================================
