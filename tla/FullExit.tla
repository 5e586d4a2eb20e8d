------------------------------ MODULE FullExit ------------------------------
(***************************************************************************)
(* The full exit of a liquidity position in the web application            *)
(* (App.tsx handleFullExitBatch, full-exit-batching.ts): tabs that press   *)
(* the button, one at a time under a web lock; the journal they share; the *)
(* wallet; the indexer and the chain.                                      *)
(*                                                                         *)
(* A press reads the journal, pins the indexer's block, enumerates the     *)
(* owner's bins there and plans batches that fit a transaction.  It shows  *)
(* the first; the next press checks that it still holds and sends it.      *)
(* Everything else waits until that batch is final, and starts again from  *)
(* the chain.  A balance is all or nothing here, and the journal's states  *)
(* are those classifyFullExitJournalRecord tells apart.                    *)
(***************************************************************************)
EXTENDS Integers, Sequences, FiniteSets

CONSTANTS
  Tabs, Bins,
  Holdings,      \* the sets of bins an owner may hold at first
  None,
  Capacity,      \* bins that fit a transaction's gas and calldata
  MaxCandidate,  \* maxCandidateBins
  Finality,      \* TRANSACTION_JOURNAL_MONITOR_CONFIRMATIONS
  MaxLag,        \* blocks the indexer may be behind and still be fresh
  MaxMoves,      \* bound: reorganisations and moves by others
  MaxFaults      \* bound: failures, refusals, presses on another tab, closed tabs

ASSUME ExitAssumption ==
  /\ Bins \subseteq Nat /\ IsFiniteSet(Bins) /\ Holdings \subseteq SUBSET Bins
  /\ Capacity \in Nat \ {0} /\ MaxCandidate \in Nat \ {0}
  /\ Finality \in Nat \ {0, 1} /\ MaxLag \in Nat
  /\ MaxMoves \in Nat /\ MaxFaults \in Nat

VARIABLES
  chain,    \* canonical blocks: [fork, held, tx, ok]
  indexed,  \* the blocks the indexer has, maybe of an older branch
  records,  \* the owner's remove-liquidity records of the journal
  tabs,     \* [Tabs -> the local state of a tab]
  moves, faults

vars == <<chain, indexed, records, tabs, moves, faults>>

-----------------------------------------------------------------------------
(* The journal: which records block a batch, and which count as one.       *)
Blocks_Failed(r) == r.status \in {"awaiting", "sent", "failure"}

Blocks(r) == r.status \in {"awaiting", "sent"}
Counts(r) == r.status = "success" /\ r.ordinal > 0
FamilyBlocked == \E r \in DOMAIN records : Blocks(records[r])

CompletedOrdinals == {records[r].ordinal : r \in {q \in DOMAIN records : Counts(records[q])}}

(* Mutant: every record is a batch.                                        *)
BatchOrdinal_All == Len(records) + 1

BatchOrdinal == Cardinality(CompletedOrdinals) + 1

WithStatus(r, s) == [records EXCEPT ![r].status = s]

-----------------------------------------------------------------------------
(* planFullExitBatches: ranges of the sorted bins, probed left to right.   *)
Fits(range) == range.hi - range.lo + 1 <= Capacity

Chunks(n) ==
  [i \in 1..((n + MaxCandidate - 1) \div MaxCandidate) |->
     [lo |-> (i - 1) * MaxCandidate + 1,
      hi |-> IF i * MaxCandidate < n THEN i * MaxCandidate ELSE n]]

(* Mutant: the bin after the midpoint is in neither half.                  *)
Halves_Skip(range) ==
  LET last == range.lo + (range.hi - range.lo) \div 2
  IN <<[lo |-> range.lo, hi |-> last], [lo |-> last + 2, hi |-> range.hi]>>

(* The first half has the odd bin.                                         *)
Halves(range) ==
  LET last == range.lo + (range.hi - range.lo) \div 2
  IN <<[lo |-> range.lo, hi |-> last], [lo |-> last + 1, hi |-> range.hi]>>

(* The bins of a range, counted in ascending order.                        *)
Rank(bins, b) == Cardinality({c \in bins : c <= b})
BinsOf(bins, range) == {b \in bins : Rank(bins, b) \in range.lo..range.hi}

-----------------------------------------------------------------------------
NoPin == [number |-> 0, fork |-> 0]
NoRun == [pc |-> "idle", pin |-> NoPin, bins |-> {}, work |-> <<>>, batches |-> <<>>,
          ordinal |-> 0, record |-> 0]

(* A tab: its run of the handler, the batch it shows, and whether it shows *)
(* that the exit is complete.                                              *)
Opened == [run |-> NoRun, review |-> None, complete |-> FALSE]

Run(t) == tabs[t].run
Review(t) == tabs[t].review
At(t, pc) == Run(t).pc = pc

Becomes(t, run, review) == tabs' = [tabs EXCEPT ![t].run = run, ![t].review = review]
Runs(t, run) == Becomes(t, run, Review(t))
Goes(t, pc) == Runs(t, [Run(t) EXCEPT !.pc = pc])
Ended(t, review) == Becomes(t, NoRun, review)
Blocked(t) == Ended(t, None)

(* The web lock is held while the handler runs.                            *)
Locked == \E t \in Tabs : Run(t).pc # "idle"

HeadHeld == chain[Len(chain)].held

(* Mutant: a block that was canonical is not looked up again.              *)
Canonical_Assumed(pin) == TRUE

(* readRpcBlockHash(pin.number) = the pinned hash                          *)
Canonical(pin) == pin.number <= Len(chain) /\ chain[pin.number].fork = pin.fork

Init ==
  /\ \E bins \in Holdings :
       chain = <<[fork |-> 0, held |-> bins, tx |-> 0, ok |-> FALSE]>>
  /\ indexed = chain
  /\ records = <<>>
  /\ tabs = [t \in Tabs |-> Opened]
  /\ moves = 0 /\ faults = 0

-----------------------------------------------------------------------------
(* The button, under the lock: the journal is read first.                  *)
Pressable(t) == At(t, "idle") /\ ~tabs[t].complete

AwaitsFinality(t) ==
  /\ Pressable(t) /\ ~Locked /\ FamilyBlocked
  /\ Blocked(t)
  /\ UNCHANGED <<chain, indexed, records, moves, faults>>

Resumable(review) == review # None /\ review.ordinal = BatchOrdinal

Press(t) ==
  /\ Pressable(t) /\ ~Locked /\ ~FamilyBlocked
  /\ LET pc == IF Resumable(Review(t)) THEN "review" ELSE "snapshot"
     IN Runs(t, [NoRun EXCEPT !.pc = pc, !.ordinal = BatchOrdinal])
  /\ UNCHANGED <<chain, indexed, records, moves, faults>>

(* The indexer's block is pinned if it is fresh and canonical.             *)
IndexedPin == [number |-> Len(indexed), fork |-> indexed[Len(indexed)].fork]
Fresh == Len(indexed) <= Len(chain) /\ Len(chain) - Len(indexed) <= MaxLag

Pins(t) ==
  /\ At(t, "snapshot")
  /\ IF Fresh /\ Canonical(IndexedPin)
     THEN Runs(t, [Run(t) EXCEPT !.pc = "positions", !.pin = IndexedPin])
     ELSE Blocked(t)
  /\ UNCHANGED <<chain, indexed, records, moves, faults>>

(* The indexer's positions at the pinned number, then their balances there.*)
ReadsPositions(t) ==
  /\ At(t, "positions")
  /\ LET n == Run(t).pin.number
     IN IF n <= Len(indexed)
        THEN Runs(t, [Run(t) EXCEPT !.pc = "balances", !.bins = indexed[n].held])
        ELSE Blocked(t)
  /\ UNCHANGED <<chain, indexed, records, moves, faults>>

ReadsBalances(t) ==
  /\ At(t, "balances")
  /\ LET n == Run(t).pin.number
         positive == Run(t).bins \cap chain[n].held
     IN IF n <= Len(chain)
        THEN Runs(t, [Run(t) EXCEPT !.pc = "probe", !.bins = positive,
                                    !.work = Chunks(Cardinality(positive))])
        ELSE Blocked(t)
  /\ UNCHANGED <<chain, indexed, records, moves, faults>>

(* A candidate is simulated at the pinned number: it fits, it is split, or *)
(* the simulation fails.                                                   *)
Probes(t) ==
  /\ At(t, "probe") /\ Run(t).work # <<>>
  /\ LET n == Run(t).pin.number
         range == Head(Run(t).work)
         rest == Tail(Run(t).work)
     IN \/ /\ n <= Len(chain) /\ BinsOf(Run(t).bins, range) \subseteq chain[n].held
           /\ IF Fits(range)
              THEN Runs(t, [Run(t) EXCEPT !.work = rest, !.batches = Append(@, range)])
              ELSE Runs(t, [Run(t) EXCEPT !.work = Halves(range) \o rest])
        \/ /\ ~(n <= Len(chain) /\ BinsOf(Run(t).bins, range) \subseteq chain[n].held)
           /\ Blocked(t)
  /\ UNCHANGED <<chain, indexed, records, moves, faults>>

Planned(t) == At(t, "probe") /\ Run(t).work = <<>>

(* The first batch is shown.  Its gas was not reviewed yet, so the press   *)
(* ends here.                                                              *)
FirstBatch(t) ==
  [ordinal |-> Run(t).ordinal, pin |-> Run(t).pin,
   bins |-> BinsOf(Run(t).bins, Run(t).batches[1])]

Shows(t) ==
  /\ Planned(t) /\ Run(t).bins # {} /\ Canonical(Run(t).pin)
  /\ Ended(t, FirstBatch(t))
  /\ UNCHANGED <<chain, indexed, records, moves, faults>>

(* No bins are left: complete, if a batch was ever final.                  *)
Completes(t) ==
  /\ Planned(t) /\ Run(t).bins = {} /\ Canonical(Run(t).pin)
  /\ \E r \in DOMAIN records : Counts(records[r])
  /\ tabs' = [tabs EXCEPT ![t].run = NoRun, ![t].complete = TRUE]
  /\ UNCHANGED <<chain, indexed, records, moves, faults>>

Stops(t) ==
  /\ Planned(t)
  /\ \/ ~Canonical(Run(t).pin)
     \/ Run(t).bins = {} /\ \A r \in DOMAIN records : ~Counts(records[r])
  /\ Blocked(t)
  /\ UNCHANGED <<chain, indexed, records, moves, faults>>

-----------------------------------------------------------------------------
(* The batch that is shown is sent: submitPreparedBatch.                   *)

(* assertPreparedLiveState: the block it was planned at is canonical, and  *)
(* the latest balances are those it shows.                                 *)
LiveStateHolds(t) == Canonical(Review(t).pin) /\ Review(t).bins \subseteq HeadHeld

(* If only the balances changed the press enumerates anew, and what it     *)
(* finds is shown again.                                                   *)
LiveStateFails(t) ==
  IF Canonical(Review(t).pin)
  THEN Becomes(t, [NoRun EXCEPT !.pc = "snapshot", !.ordinal = Run(t).ordinal], None)
  ELSE Blocked(t)

Reviews(t) ==
  /\ At(t, "review")
  /\ \/ LiveStateHolds(t) /\ Goes(t, "begin")
     \/ ~LiveStateHolds(t) /\ LiveStateFails(t)
  /\ UNCHANGED <<chain, indexed, records, moves, faults>>

(* Mutant: the journal does not look at the other removals.                *)
BeginRefused_Never == FALSE

(* transactionFamilyRetryBlocked, at the write of the journal.             *)
BeginRefused == FamilyBlocked

Begins(t) ==
  /\ At(t, "begin")
  /\ \/ /\ BeginRefused
        /\ Blocked(t)
        /\ UNCHANGED records
     \/ /\ ~BeginRefused
        /\ records' = Append(records, [ordinal |-> Review(t).ordinal, bins |-> Review(t).bins,
                                       status |-> "awaiting", wallet |-> "unasked"])
        /\ Runs(t, [Run(t) EXCEPT !.pc = "guard", !.record = Len(records')])
  /\ UNCHANGED <<chain, indexed, moves, faults>>

(* preWalletGuard repeats the check; the record is aborted if it fails.    *)
Asks(t) ==
  /\ At(t, "guard") /\ LiveStateHolds(t)
  /\ records' = [records EXCEPT ![Run(t).record].wallet = "asked"]
  /\ Goes(t, "wallet")
  /\ UNCHANGED <<chain, indexed, moves, faults>>

Aborts(t) ==
  /\ At(t, "guard") /\ ~LiveStateHolds(t)
  /\ records' = WithStatus(Run(t).record, "aborted")
  /\ LiveStateFails(t)
  /\ UNCHANGED <<chain, indexed, moves, faults>>

InWallet(t, state) == At(t, "wallet") /\ records[Run(t).record].wallet = state

HashReturned(t) ==
  /\ InWallet(t, "broadcast")
  /\ records' = WithStatus(Run(t).record, "sent")
  /\ Ended(t, None)
  /\ UNCHANGED <<chain, indexed, moves, faults>>

(* The user's refusal leaves the batch on the screen.                      *)
RefusalReturned(t) ==
  /\ InWallet(t, "refused")
  /\ records' = WithStatus(Run(t).record, "aborted")
  /\ Ended(t, Review(t))
  /\ UNCHANGED <<chain, indexed, moves, faults>>

-----------------------------------------------------------------------------
(* What may go wrong.                                                      *)
Fault == faults < MaxFaults /\ faults' = faults + 1 /\ UNCHANGED moves
Move == moves < MaxMoves /\ moves' = moves + 1 /\ UNCHANGED faults

(* A request fails: before the wallet is asked the record is aborted, and  *)
(* after it the outcome is unknown.                                        *)
Fails(t) ==
  /\ Fault
  /\ Run(t).pc \notin {"idle", "review"}
  /\ records' = CASE At(t, "guard") -> WithStatus(Run(t).record, "aborted")
                  [] At(t, "wallet") -> WithStatus(Run(t).record, "sent")
                  [] OTHER -> records
  /\ Blocked(t)
  /\ UNCHANGED <<chain, indexed>>

(* A press while a tab holds the lock throws, and what it showed is gone.  *)
Refused(t) ==
  /\ Fault
  /\ Pressable(t) /\ Locked
  /\ Blocked(t)
  /\ UNCHANGED <<chain, indexed, records>>

(* The gas went up, or cannot be estimated: the batch is shown again.      *)
GasRises(t) ==
  /\ Fault
  /\ At(t, "review")
  /\ Ended(t, Review(t))
  /\ UNCHANGED <<chain, indexed, records>>

(* The tab is closed and opened again: the lock is free, nothing is shown. *)
Closes(t) ==
  /\ Fault
  /\ tabs[t] # Opened
  /\ tabs' = [tabs EXCEPT ![t] = Opened]
  /\ UNCHANGED <<chain, indexed, records>>

(* The journal takes over a record whose tab is gone.                      *)
Recovers(r) ==
  /\ records[r].status = "awaiting"
  /\ \A t \in Tabs : Run(t).record # r
  /\ records' = WithStatus(r, "sent")
  /\ UNCHANGED <<chain, indexed, tabs, moves, faults>>

-----------------------------------------------------------------------------
(* The wallet and the chain.                                               *)
Confirms(r) ==
  /\ records[r].wallet = "asked"
  /\ records' = [records EXCEPT ![r].wallet = "broadcast"]
  /\ UNCHANGED <<chain, indexed, tabs, moves, faults>>

Declines(r) ==
  /\ Fault
  /\ records[r].wallet = "asked"
  /\ records' = [records EXCEPT ![r].wallet = "refused"]
  /\ UNCHANGED <<chain, indexed, tabs>>

Block(fork, held, tx, ok) == [fork |-> fork, held |-> held, tx |-> tx, ok |-> ok]
MinedAt(r) == {n \in DOMAIN chain : chain[n].tx = r}
Final(n) == Len(chain) - n + 1 >= Finality

(* A batch burns the amounts it names, or nothing.                         *)
Mines(r) ==
  /\ records[r].wallet = "broadcast" /\ MinedAt(r) = {}
  /\ LET ok == records[r].bins \subseteq HeadHeld
     IN chain' = Append(chain, Block(chain[Len(chain)].fork,
                                     IF ok THEN HeadHeld \ records[r].bins ELSE HeadHeld, r, ok))
  /\ UNCHANGED <<indexed, records, tabs, moves, faults>>

(* Bound: empty blocks are mined only on a batch that is not final.        *)
MinesEmpty ==
  /\ \E n \in DOMAIN chain : chain[n].tx # 0 /\ ~Final(n)
  /\ chain' = Append(chain, Block(chain[Len(chain)].fork, HeadHeld, 0, FALSE))
  /\ UNCHANGED <<indexed, records, tabs, moves, faults>>

(* The owner's balance of a bin is moved by something else.                *)
Moves ==
  /\ Move
  /\ \E b \in Bins :
       LET held == IF b \in HeadHeld THEN HeadHeld \ {b} ELSE HeadHeld \cup {b}
       IN chain' = Append(chain, Block(chain[Len(chain)].fork, held, 0, FALSE))
  /\ UNCHANGED <<indexed, records, tabs>>

(* The last block is replaced.                                             *)
Reorganises ==
  /\ Move
  /\ Len(chain) > 1
  /\ chain' = [chain EXCEPT ![Len(chain)] =
                 Block(moves', chain[Len(chain) - 1].held, 0, FALSE)]
  /\ UNCHANGED <<indexed, records, tabs>>

Indexes ==
  /\ indexed # chain /\ indexed' = chain
  /\ UNCHANGED <<chain, records, tabs, moves, faults>>

(* The journal's observation of a batch that is final.                     *)
Reconciles(r) ==
  /\ records[r].status = "sent"
  /\ \E n \in MinedAt(r) :
       /\ Final(n)
       /\ records' = WithStatus(r, IF chain[n].ok THEN "success" ELSE "failure")
  /\ UNCHANGED <<chain, indexed, tabs, moves, faults>>

(* A withdrawal of one bin from another page, which takes no lock.         *)
RemovesPartly ==
  /\ Move
  /\ ~FamilyBlocked
  /\ \E b \in HeadHeld :
       records' = Append(records, [ordinal |-> 0, bins |-> {b}, status |-> "sent",
                                   wallet |-> "broadcast"])
  /\ UNCHANGED <<chain, indexed, tabs>>

-----------------------------------------------------------------------------
Plans(t) == Pins(t) \/ ReadsPositions(t) \/ ReadsBalances(t) \/ Probes(t) \/ Shows(t)
            \/ Completes(t) \/ Stops(t)
Sends(t) == Reviews(t) \/ Begins(t) \/ Asks(t) \/ Aborts(t) \/ HashReturned(t) \/ RefusalReturned(t)
Presses == \E t \in Tabs : Press(t)
Settles(r) == Confirms(r) \/ Mines(r) \/ Reconciles(r) \/ Recovers(r)
Continues == \E t \in Tabs : Plans(t) \/ Sends(t)
Confirmed == \E r \in DOMAIN records : Settles(r)

Next ==
  \/ Presses \/ Continues \/ Confirmed
  \/ \E t \in Tabs : AwaitsFinality(t) \/ Refused(t) \/ Fails(t) \/ GasRises(t) \/ Closes(t)
  \/ \E r \in DOMAIN records : Declines(r)
  \/ MinesEmpty \/ Moves \/ Reorganises \/ Indexes \/ RemovesPartly

Spec == Init /\ [][Next]_vars

(* The user resumes and confirms, and the handler, chain and indexer go on.*)

Fairness ==
  /\ WF_vars(Presses) /\ WF_vars(Continues) /\ WF_vars(Confirmed)
  /\ WF_vars(MinesEmpty) /\ WF_vars(Indexes)

FairSpec == Spec /\ Fairness

-----------------------------------------------------------------------------
Pcs == {"idle", "snapshot", "positions", "balances", "probe", "review", "begin", "guard", "wallet"}
BlockState == [fork : Nat, held : SUBSET Bins, tx : Nat, ok : BOOLEAN]
Record == [ordinal : Nat, bins : SUBSET Bins,
           status : {"awaiting", "sent", "success", "failure", "aborted"},
           wallet : {"unasked", "asked", "broadcast", "refused"}]
Pin == [number : Nat, fork : Nat]
Candidate == [lo : Nat, hi : Nat]
RunState == [pc : Pcs, pin : Pin, bins : SUBSET Bins, work : Seq(Candidate),
             batches : Seq(Candidate), ordinal : Nat, record : Nat]
ReviewState == [ordinal : Nat, pin : Pin, bins : SUBSET Bins]
TabState == [run : RunState, review : ReviewState \cup {None}, complete : BOOLEAN]

TypeOK ==
  /\ chain \in Seq(BlockState) /\ chain # <<>>
  /\ indexed \in Seq(BlockState) /\ indexed # <<>>
  /\ records \in Seq(Record)
  /\ tabs \in [Tabs -> TabState]
  /\ \A t \in Tabs :
       /\ Run(t).pc \in {"review", "begin", "guard", "wallet"} => Review(t) # None
       /\ Run(t).pc \in {"guard", "wallet"} => Run(t).record \in DOMAIN records
  /\ moves \in 0..MaxMoves /\ faults \in 0..MaxFaults

(* The handler runs in one tab, and of the withdrawals one at most is not  *)
(* final, whatever tabs, reorganisations and other pages do.               *)
OneAtATime ==
  /\ \A t, u \in Tabs : Run(t).pc # "idle" /\ Run(u).pc # "idle" => t = u
  /\ \A r, q \in DOMAIN records : Blocks(records[r]) /\ Blocks(records[q]) => r = q

(* The batches planned and the candidates left are the enumerated bins, in *)
(* order, none twice, and every batch fits a transaction.                  *)
PlanCovers ==
  \A t \in Tabs : At(t, "probe") =>
    LET all == Run(t).batches \o Run(t).work
    IN /\ all = <<>> <=> Run(t).bins = {}
       /\ all # <<>> => all[1].lo = 1 /\ all[Len(all)].hi = Cardinality(Run(t).bins)
       /\ \A i \in DOMAIN all : all[i].lo <= all[i].hi
       /\ \A i \in 1..(Len(all) - 1) : all[i + 1].lo = all[i].hi + 1
       /\ \A i \in DOMAIN Run(t).batches : Fits(Run(t).batches[i])

(* The batches of an exit are completed in order, each once.               *)
OrdinalsExact ==
  /\ CompletedOrdinals = 1..Cardinality(CompletedOrdinals)
  /\ \A r, q \in DOMAIN records :
       Counts(records[r]) /\ Counts(records[q]) /\ records[r].ordinal = records[q].ordinal => r = q

(* What a press concludes, the batch to review or that no bins are left,   *)
(* is so at one block that is canonical when it is concluded, though its   *)
(* reads are many and the chain moves between them.                        *)
EnumeratesOneBlock ==
  [][\A t \in Tabs : Shows(t) \/ Completes(t) => Run(t).bins = chain[Run(t).pin.number].held]_vars

(* An exit that is resumed ends with every bin withdrawn, unless a wallet  *)
(* request was lost and its outcome is never known, or something else      *)
(* took the bins before a batch was final.                                 *)
Lost(r) == records[r].status = "sent" /\ records[r].wallet \in {"unasked", "refused"}
ExitCompletes ==
  \/ <>(\/ \E t \in Tabs : tabs[t].complete
        \/ \E r \in DOMAIN records : Lost(r))
  \/ <>[](HeadHeld = {} /\ CompletedOrdinals = {})
=============================================================================
