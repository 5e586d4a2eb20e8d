------------------------- MODULE TransactionJournal -------------------------
(***************************************************************************)
(* The transaction journal of the web application                          *)
(* (apps/web/src/transaction-journal.ts and transaction-journal-react.tsx):*)
(* browser tabs that share one journal in localStorage, the wallet that    *)
(* broadcasts for them, and the chain they observe.                        *)
(*                                                                         *)
(* Every write takes an exclusive web lock, merges the tab's memory with   *)
(* the storage, updates the merged journal and stores it, so a write is    *)
(* one action.  An observation of the chain is several reads outside the   *)
(* lock and then a write, which applies only to the revision it was made   *)
(* for.                                                                    *)
(*                                                                         *)
(* Clock times are left out: a lease or a timeout may be found expired     *)
(* whenever one is running.                                                *)
(***************************************************************************)
EXTENDS Integers, Sequences, FiniteSetsExt

CONSTANTS
  Tabs,                  \* browser tabs
  Intents,               \* reviewed intents, each begun once
  Key,                   \* retry key of an intent
  Removals,              \* intents that remove liquidity from one pool
  Replacements,          \* environment: how a wallet replaces a transaction
  None,
  Confirmations,         \* TRANSACTION_JOURNAL_CONFIRMATIONS
  MonitorConfirmations,  \* TRANSACTION_JOURNAL_MONITOR_CONFIRMATIONS
  ReorgDepth,            \* environment: blocks a reorganisation replaces
  HeadMoves,             \* environment: blocks are mined between an observation's
                         \* read of the head and its lookups
  LookupsFail,           \* environment: a lookup may be unavailable
  MaxBlocks, MaxReorgs,  \* bounds of the chain
  MaxRevision,           \* bound: revision of a record that is observed
  MaxRevisions           \* bound: revisions of all records of a tab that observes

ASSUME JournalAssumption ==
  /\ Confirmations \in Nat \ {0} /\ MonitorConfirmations \in Nat
  /\ Confirmations <= MonitorConfirmations
  /\ IsFiniteSet(Intents) /\ Removals \subseteq Intents
  /\ Replacements \subseteq {"speedup", "cancel"} /\ ReorgDepth \in Nat
  /\ HeadMoves \in BOOLEAN /\ LookupsFail \in BOOLEAN

VARIABLES
  storage,   \* localStorage: intent -> record
  memory,    \* stateRef of each tab, or None while the tab is closed
  task,      \* submitJournaledTransaction of each tab
  probe,     \* the observation each tab is making
  wallet,    \* the wallet request of each intent
  sent,      \* hashes of transactions broadcast
  nonce,     \* nonce the wallet gave an intent
  chain,     \* canonical blocks: [fork, tx, ok]
  reorgs     \* reorganisations so far

journalVars == <<storage, memory>>
chainVars == <<sent, nonce, chain, reorgs>>
vars == <<storage, memory, task, probe, wallet, sent, nonce, chain, reorgs>>

(* A transaction of an intent: as reviewed, sped up with the same call, or *)
(* cancelled by a different one.  All have the nonce of the intent.        *)
Hashes == [of : Intents, kind : {"original"} \cup Replacements]
Original(i) == [of |-> i, kind |-> "original"]

(* What a record keeps of a receipt, and what a lookup returns of one.     *)
Receipts == [hash : Hashes, ok : BOOLEAN]
MinedReceipts == [hash : Hashes, ok : BOOLEAN, block : Nat, fork : Nat]

ASSUME NoneAssumption ==
  None \notin Nat \cup Hashes \cup Receipts \cup MinedReceipts \cup {"matching", "incompatible"}

(* transactionMatchesReviewedIntent: intents of one key make the same call.*)
MatchesReviewed(i, h) == h.kind # "cancel" /\ Key[h.of] = Key[i]

(* The journal statuses.                                                   *)
Statuses == {"awaiting-wallet", "aborted", "reconciling", "unknown-submission",
             "rejected", "submitted", "confirming", "canonical", "reverted",
             "replaced", "orphaned", "timed-out"}

Update(records, i, r) == [records EXCEPT ![i] = r]

-----------------------------------------------------------------------------
(* The chain.                                                              *)

MinedAt(ch, h) == {n \in 1..Len(ch) : ch[n].tx = h}
Mined(ch, h) == MinedAt(ch, h) # {}
Used(ch) == Cardinality({n \in 1..Len(ch) : ch[n].tx # None})
NonceTaken(ch, i) == \E h \in Hashes : h.of = i /\ Mined(ch, h)

(* Transactions that a block on top of ch may include.                     *)
Minable(ch) == {h \in sent : nonce[h.of] = Used(ch)}

(* Nonces given out, which is the account's pending nonce.                 *)
Pending == Cardinality({i \in Intents : nonce[i] # None})

(* The nonce of i was used by a transaction now depth blocks deep.         *)
Settled(i, depth) ==
  \E n \in 1..Len(chain) :
    chain[n].tx # None /\ chain[n].tx.of = i /\ Len(chain) - n + 1 >= depth

-----------------------------------------------------------------------------
(* Records.                                                                *)

NewRecord(expected, block) ==
  [status |-> "awaiting-wallet", revision |-> 0, activeHash |-> None,
   expectedNonce |-> expected, actualNonce |-> None, receipt |-> None,
   confirmations |-> 0, replacedBy |-> [h \in {} |-> None],
   compatible |-> None, finalized |-> FALSE, timed |-> FALSE,
   scanCursor |-> block - 1, submissionBlock |-> block]


(* The hashes of a record, each with the hash that replaced it.            *)
HashesOf(r) == DOMAIN r.replacedBy

(* isJournalRecord: what a reload keeps.                                   *)
Valid(r) ==
  /\ r.activeHash # None => r.activeHash \in HashesOf(r)
  /\ r.status \in {"confirming", "canonical"} =>
       /\ r.actualNonce # None /\ r.activeHash # None /\ r.receipt # None
       /\ r.receipt.ok /\ r.receipt.hash = r.activeHash
  /\ r.status = "canonical" => r.confirmations >= Confirmations
  /\ r.status = "confirming" => r.confirmations \in 1..(Confirmations - 1)
  /\ r.status = "reverted" =>
       /\ r.activeHash # None /\ r.receipt # None
       /\ ~r.receipt.ok /\ r.receipt.hash = r.activeHash
  /\ r.status = "submitted" => r.activeHash # None
  /\ r.status = "unknown-submission" => r.activeHash = None
  /\ r.status \in {"awaiting-wallet", "rejected", "aborted"} =>
       /\ r.activeHash = None /\ r.actualNonce = None
       /\ HashesOf(r) = {} /\ r.receipt = None
  /\ r.finalized => /\ r.status = "replaced" /\ r.compatible = "incompatible"
                    /\ r.receipt # None /\ r.confirmations >= Confirmations

(* loadTransactionJournal                                                  *)
Load == [i \in {j \in DOMAIN storage : Valid(storage[j])} |-> storage[i]]

(* Mutant: a timeout ends the wait.                                        *)
Resolved_TimedOut(r) ==
  \/ r.status \in {"canonical", "rejected", "aborted", "timed-out"}
  \/ r.status = "reverted" /\ r.confirmations >= MonitorConfirmations
  \/ r.status = "replaced" /\ r.compatible = "incompatible" /\ r.finalized

(* transactionRetryBlocked, for one record of the same key.                *)
Resolved(r) ==
  \/ r.status \in {"canonical", "rejected", "aborted"}
  \/ r.status = "reverted" /\ r.confirmations >= MonitorConfirmations
  \/ r.status = "replaced" /\ r.compatible = "incompatible" /\ r.finalized

(* Mutant: a canonical transaction is no longer watched.                   *)
NeedsMonitoring_NotCanonical(r) ==
  /\ r.status \notin {"rejected", "aborted", "canonical"}
  /\ r.status = "reverted" => r.confirmations < MonitorConfirmations
  /\ r.status = "replaced" /\ r.compatible = "incompatible" =>
       ~r.finalized \/ r.confirmations < MonitorConfirmations

(* transactionNeedsMonitoring; also transactionRecordBlocksIntentFamily.   *)
NeedsMonitoring(r) ==
  /\ r.status \notin {"rejected", "aborted"}
  /\ r.status \in {"reverted", "canonical"} => r.confirmations < MonitorConfirmations
  /\ r.status = "replaced" /\ r.compatible = "incompatible" =>
       ~r.finalized \/ r.confirmations < MonitorConfirmations

(* transactionRetryBlocked or transactionFamilyRetryBlocked                *)
RetryBlocked(records, i) ==
  \/ \E j \in DOMAIN records : Key[j] = Key[i] /\ ~Resolved(records[j])
  \/ i \in Removals /\ \E j \in DOMAIN records \cap Removals : NeedsMonitoring(records[j])

-----------------------------------------------------------------------------
(* mergeTransactionJournals                                                *)

Coalesce(x, y) == IF x # None THEN x ELSE y

MergedLinks(l, r) ==
  [h \in HashesOf(l) \cup HashesOf(r) |->
     Coalesce(IF h \in HashesOf(l) THEN l.replacedBy[h] ELSE None,
              IF h \in HashesOf(r) THEN r.replacedBy[h] ELSE None)]

(* mergedActiveHash: of two hashes the one that replaced the other; none   *)
(* when neither is known to.                                               *)
MergedActive(l, r) ==
  LET links == MergedLinks(l, r) IN
  IF l.activeHash = None THEN r.activeHash
  ELSE IF r.activeHash \in {None, l.activeHash} THEN l.activeHash
  ELSE IF links[l.activeHash] = r.activeHash THEN r.activeHash
  ELSE IF links[r.activeHash] = l.activeHash THEN l.activeHash
  ELSE None

MergedRecord(l, r) ==
  LET preferred == IF r.revision > l.revision THEN r ELSE l
      other == IF r.revision > l.revision THEN l ELSE r
      active == MergedActive(l, r)
      ambiguous == l.activeHash # None /\ r.activeHash # None /\ active = None
  IN [preferred EXCEPT
        !.actualNonce = Coalesce(@, other.actualNonce),
        !.activeHash = active,
        !.receipt = Coalesce(@, other.receipt),
        !.replacedBy = MergedLinks(l, r),
        !.compatible = Coalesce(@, other.compatible),
        !.timed = l.timed \/ r.timed,
        !.status =
           IF ambiguous THEN "reconciling"
           ELSE IF /\ active # None
                   /\ @ \in {"awaiting-wallet", "unknown-submission", "rejected", "aborted"}
                THEN "submitted" ELSE @]

Merge(left, right) ==
  [i \in DOMAIN left \cup DOMAIN right |->
     IF i \notin DOMAIN left THEN right[i]
     ELSE IF i \notin DOMAIN right THEN left[i]
     ELSE MergedRecord(left[i], right[i])]

-----------------------------------------------------------------------------
(* What a finished observation o found, in the order it was read: head,    *)
(* tx and receipt (or "unavailable" lookups), scanned, the block of the    *)
(* receipt, the nonces and the clock.                                      *)

HasReceipt(r) == r.receipt # None \/ r.status \in {"confirming", "canonical", "reverted"}

(* Mutant: rewound by one block too many.                                  *)
Rewound_TwoBack(r) == [r EXCEPT !.scanCursor = r.submissionBlock - 2]

(* rewindScanCursor                                                        *)
Rewound(r) == [r EXCEPT !.scanCursor = r.submissionBlock - 1]
Orphaned(r) == [r EXCEPT !.status = "orphaned", !.confirmations = 0]

KeptReceipt(o) == [hash |-> o.receipt.hash, ok |-> o.receipt.ok]

(* Mutant: the block above the head counts as well.                        *)
Depth_OffByOne(o) == IF o.head < o.receipt.block THEN 0 ELSE o.head - o.receipt.block + 2

(* Confirmations; the receipt may be newer than the head read before it.   *)
Depth(o) == IF o.head < o.receipt.block THEN 0 ELSE o.head - o.receipt.block + 1

(* Mutant: the block of the receipt is not looked up again.                *)
BlockIsCanonical_Trusted(o) == TRUE

BlockIsCanonical(o) == o.blockLookup = "found" /\ o.blockFork = o.receipt.fork

(* applyReceiptObservation                                                 *)
ApplyReceipt(r, o) ==
  IF o.receipt = None \/ o.receipt.hash # r.activeHash
  THEN IF HasReceipt(r) THEN Orphaned(r) ELSE r
  ELSE IF o.blockLookup # "found" THEN r
  ELSE IF ~BlockIsCanonical(o)
  THEN Rewound(Orphaned([r EXCEPT !.receipt = KeptReceipt(o)]))
  ELSE [r EXCEPT !.receipt = KeptReceipt(o), !.confirmations = Depth(o),
          !.status = IF ~o.receipt.ok THEN "reverted"
                     ELSE IF Depth(o) >= Confirmations THEN "canonical" ELSE "confirming"]

(* applyIncompatibleReplacementReceipt                                     *)
ApplyIncompatible(r, o) ==
  LET inCanonical == /\ o.receipt # None /\ o.receipt.hash = r.activeHash
                     /\ BlockIsCanonical(o)
      depth == IF inCanonical THEN Depth(o) ELSE 0
      receipt == IF o.receipt = None THEN None ELSE KeptReceipt(o)
  IN [r EXCEPT !.receipt = IF inCanonical THEN receipt ELSE Coalesce(@, receipt),
               !.confirmations = depth, !.finalized = depth >= Confirmations,
               !.status = "replaced"]

(* transactionMatchesIdentity                                              *)
MatchesIdentity(r, h) ==
  h = r.activeHash \/ nonce[h.of] = Coalesce(r.actualNonce, r.expectedNonce)

(* Mutant: the hash is not appended.                                       *)
Seen_NotAppended(i, r, h) == [r EXCEPT !.activeHash = h, !.actualNonce = nonce[h.of]]

(* The record once it has seen the transaction h, with appendHash or       *)
(* appendReplacementHash.                                                  *)
Seen(i, r, h) ==
  LET replaces == r.activeHash \notin {None, h} IN
  [r EXCEPT
     !.activeHash = h, !.actualNonce = nonce[h.of],
     !.replacedBy = [k \in HashesOf(r) \cup {h} |->
                       IF replaces /\ k = r.activeHash THEN h
                       ELSE IF k \in HashesOf(r) THEN r.replacedBy[k] ELSE None],
     !.compatible = IF ~MatchesReviewed(i, h) THEN "incompatible"
                    ELSE IF replaces THEN "matching" ELSE @,
     !.status = IF replaces THEN "replaced" ELSE @]

(* No transaction and no receipt were found.                               *)
Waiting(r, o) ==
  [r EXCEPT !.status =
     IF o.expired THEN "timed-out"
     ELSE IF r.activeHash = None
     THEN IF o.nonceAbove THEN "reconciling" ELSE "unknown-submission"
     ELSE IF r.status \in {"orphaned", "replaced", "timed-out"} THEN "reconciling"
     ELSE "submitted"]

(* applyTransactionObservation                                             *)
Apply(i, r, o) ==
  LET base == [r EXCEPT !.revision = @ + 1, !.scanCursor = Coalesce(o.scanned, @)] IN
  IF /\ "unavailable" \in {o.receiptLookup, o.blockLookup}
     /\ r.status \in {"confirming", "canonical", "reverted", "replaced", "orphaned"}
  THEN base
  ELSE IF o.tx # None /\ MatchesIdentity(r, o.tx)
  THEN IF r.activeHash = None /\ r.actualNonce = None /\ ~MatchesReviewed(i, o.tx)
       THEN [base EXCEPT !.status = "reconciling"]
       ELSE IF MatchesReviewed(i, o.tx) THEN ApplyReceipt(Seen(i, base, o.tx), o)
       ELSE ApplyIncompatible(Seen(i, base, o.tx), o)
  ELSE IF /\ o.receipt # None /\ r.actualNonce # None
          /\ o.receipt.hash = r.activeHash
  THEN IF r.compatible = "incompatible" THEN ApplyIncompatible(base, o)
       ELSE ApplyReceipt(base, o)
  ELSE IF "unavailable" \in {o.receiptLookup, o.txLookup} THEN base
  ELSE IF o.receiptLookup = "missing" /\ HasReceipt(r) THEN Rewound(Orphaned(base))
  ELSE Waiting(base, o)

-----------------------------------------------------------------------------
(* Writes.                                                                 *)

Opened(t) == memory[t] # None

(* Mutant: what other tabs stored is not read.                             *)
Current_MemoryOnly(t) == memory[t]

(* What a write starts from.                                               *)
Current(t) == Merge(memory[t], Load)

(* persistTransactionJournal                                               *)
Persist(t, next) ==
  /\ storage' = Merge(Load, next)
  /\ memory' = [memory EXCEPT ![t] = Merge(Load, next)]

(* commit: an update that changes nothing is not stored.                   *)
Commit(t, next) ==
  IF next = Current(t)
  THEN memory' = [memory EXCEPT ![t] = next] /\ UNCHANGED storage
  ELSE Persist(t, next)

(* recoverAwaitingWalletIntents, when the leases of expired have run out.  *)
Recovered(records, expired) ==
  [i \in DOMAIN records |->
     IF i \in expired
     THEN [records[i] EXCEPT !.revision = @ + 1, !.status = "unknown-submission", !.timed = TRUE]
     ELSE records[i]]

Awaiting(records) == {i \in DOMAIN records : records[i].status = "awaiting-wallet"}

(* Mutant: a wallet result is taken only by the revision it was asked for. *)
WalletResultAllowed_SameRevision(r) ==
  r.revision = 0 /\ r.status = "awaiting-wallet" /\ r.activeHash = None

(* authoritativeWalletResultAllowed, for a handle of revision 0.           *)
WalletResultAllowed(r) ==
  /\ r.activeHash = None /\ r.actualNonce = None /\ NeedsMonitoring(r)
  /\ IF r.revision = 0 THEN r.status = "awaiting-wallet"
     ELSE r.status \in {"unknown-submission", "reconciling", "timed-out"}

-----------------------------------------------------------------------------
(* A tab opens, closes and hears of the writes of others.                  *)

Open(t) ==
  /\ ~Opened(t)
  /\ \E expired \in SUBSET Awaiting(Load) : Persist(t, Recovered(Load, expired))
  /\ UNCHANGED <<task, probe, wallet, chainVars>>

Close(t) ==
  /\ Opened(t)
  /\ memory' = [memory EXCEPT ![t] = None]
  /\ task' = [task EXCEPT ![t] = None]
  /\ probe' = [probe EXCEPT ![t] = None]
  /\ UNCHANGED <<storage, wallet, chainVars>>

(* mergeFromStorage                                                        *)
StorageEvent(t) ==
  /\ Opened(t)
  /\ memory' = [memory EXCEPT ![t] = Current(t)]
  /\ UNCHANGED <<storage, task, probe, wallet, chainVars>>

(* The first step of reconcile.                                            *)
Recover(t) ==
  /\ Opened(t)
  /\ \E expired \in SUBSET Awaiting(Current(t)) \ {{}} :
       Commit(t, Recovered(Current(t), expired))
  /\ UNCHANGED <<task, probe, wallet, chainVars>>

-----------------------------------------------------------------------------
(* submitJournaledTransaction.                                             *)

(* begin                                                                   *)
Begin(t, i) ==
  /\ Opened(t) /\ task[t] = None /\ wallet[i] = "none"
  /\ ~RetryBlocked(Current(t), i)
  /\ Persist(t, [j \in DOMAIN Current(t) \cup {i} |->
                   IF j = i THEN NewRecord(Pending, Len(chain)) ELSE Current(t)[j]])
  /\ task' = [task EXCEPT ![t] = [intent |-> i, phase |-> "begun"]]
  /\ wallet' = [wallet EXCEPT ![i] = "begun"]
  /\ UNCHANGED <<probe, chainVars>>

(* The intent of t, if it is recorded and its record allows the result.    *)
WalletResult(t, allowed(_), update(_)) ==
  LET current == Current(t)
      i == task[t].intent
  IN IF i \in DOMAIN current /\ allowed(current[i])
     THEN Update(current, i, [update(current[i]) EXCEPT !.revision = @ + 1])
     ELSE current

InPhase(t, phase) == task[t] # None /\ task[t].phase = phase

(* abort: the context changed before the wallet was asked.                 *)
Abort(t) ==
  LET allowed(r) == r.revision = 0 /\ r.status = "awaiting-wallet"
      update(r) == [r EXCEPT !.status = "aborted"]
  IN /\ InPhase(t, "begun")
     /\ Commit(t, WalletResult(t, allowed, update))
     /\ task' = [task EXCEPT ![t] = None]
     /\ UNCHANGED <<probe, wallet, chainVars>>

(* input.send()                                                            *)
Send(t) ==
  /\ InPhase(t, "begun")
  /\ task' = [task EXCEPT ![t].phase = "sending"]
  /\ wallet' = [wallet EXCEPT ![task[t].intent] = "open"]
  /\ UNCHANGED <<journalVars, probe, chainVars>>

(* submitted                                                               *)
Submitted(t) ==
  LET h == Original(task[t].intent)
      update(r) == [r EXCEPT !.activeHash = h, !.status = "submitted", !.timed = TRUE,
                     !.replacedBy = [k \in HashesOf(r) \cup {h} |->
                                       IF k \in HashesOf(r) THEN @[k] ELSE None]]
  IN /\ InPhase(t, "sending") /\ wallet[task[t].intent] = "approved"
     /\ Persist(t, WalletResult(t, WalletResultAllowed, update))
     /\ task' = [task EXCEPT ![t] = None]
     /\ UNCHANGED <<probe, wallet, chainVars>>

(* fail, when the wallet reports that the user rejected the request.       *)
FailRejected(t) ==
  LET update(r) == [r EXCEPT !.status = "rejected"]
  IN /\ InPhase(t, "sending") /\ wallet[task[t].intent] = "rejected"
     /\ Commit(t, WalletResult(t, WalletResultAllowed, update))
     /\ task' = [task EXCEPT ![t] = None]
     /\ UNCHANGED <<probe, wallet, chainVars>>

(* fail, when the transport ends without an answer of the wallet.          *)
FailUnknown(t) ==
  LET update(r) == [r EXCEPT !.status = "unknown-submission", !.timed = TRUE]
  IN /\ InPhase(t, "sending")
     /\ Commit(t, WalletResult(t, WalletResultAllowed, update))
     /\ task' = [task EXCEPT ![t] = None]
     /\ UNCHANGED <<probe, wallet, chainVars>>

(* The result cannot be stored.                                            *)
ResultLost(t) ==
  /\ InPhase(t, "sending")
  /\ task' = [task EXCEPT ![t] = None]
  /\ UNCHANGED <<journalVars, probe, wallet, chainVars>>

-----------------------------------------------------------------------------
(* The wallet and the chain.                                               *)

Approve(i) ==
  /\ wallet[i] = "open"
  /\ wallet' = [wallet EXCEPT ![i] = "approved"]
  /\ sent' = sent \cup {Original(i)}
  /\ nonce' = [nonce EXCEPT ![i] = Pending]
  /\ UNCHANGED <<journalVars, task, probe, chain, reorgs>>

Reject(i) ==
  /\ wallet[i] = "open"
  /\ wallet' = [wallet EXCEPT ![i] = "rejected"]
  /\ UNCHANGED <<journalVars, task, probe, chainVars>>

(* The user replaces a pending transaction in the wallet.                  *)
Replace(i, kind) ==
  /\ Original(i) \in sent
  /\ LET h == [of |-> i, kind |-> kind] IN h \notin sent /\ sent' = sent \cup {h}
  /\ ~NonceTaken(chain, i)
  /\ UNCHANGED <<journalVars, task, probe, wallet, nonce, chain, reorgs>>

(* Blocks before the first broadcast are all alike: none is mined.         *)
Mine ==
  /\ Len(chain) < MaxBlocks /\ sent # {}
  /\ HeadMoves \/ \A t \in Tabs : probe[t] # None => probe[t].found # None
  /\ \E h \in {None} \cup Minable(chain) :
     \E ok \in (IF h = None THEN {TRUE} ELSE BOOLEAN) :
       chain' = Append(chain, [fork |-> reorgs, tx |-> h, ok |-> ok])
  /\ UNCHANGED <<journalVars, task, probe, wallet, sent, nonce, reorgs>>

(* The last blocks are replaced by as many empty ones.                     *)
Reorg ==
  /\ reorgs < MaxReorgs
  /\ \E depth \in 1..ReorgDepth :
       /\ depth < Len(chain)
       /\ chain' = [n \in 1..Len(chain) |->
                      IF n <= Len(chain) - depth THEN chain[n]
                      ELSE [fork |-> reorgs + 1, tx |-> None, ok |-> TRUE]]
  /\ reorgs' = reorgs + 1
  /\ UNCHANGED <<journalVars, task, probe, wallet, sent, nonce>>

-----------------------------------------------------------------------------
(* An observation, in four steps: the head; the transaction and its        *)
(* receipt, with the scan; the block of the receipt, the nonces and the    *)
(* clock, with which observeRecord ends; and, once the web lock is         *)
(* granted, the write.  Others may act between any two of them.  Each read *)
(* may fail.                                                               *)

Failure == IF LookupsFail THEN {"unavailable"} ELSE {}

TxLookups(h) ==
  Failure
  \cup (IF Mined(chain, h) THEN {"found"}
        ELSE IF NonceTaken(chain, h.of) THEN {"missing"} ELSE {"found", "missing"})

ReceiptLookups(h) == Failure \cup {IF Mined(chain, h) THEN "found" ELSE "missing"}

ReceiptOf(h, lookup) ==
  IF lookup # "found" THEN None
  ELSE LET n == CHOOSE m \in MinedAt(chain, h) : TRUE
       IN [hash |-> h, ok |-> chain[n].ok, block |-> n, fork |-> chain[n].fork]

(* Bound: a record that was written so often is observed no more.          *)
Revisions(records) == MapThenSumSet(LAMBDA i : records[i].revision, DOMAIN records)
Bounded(records, i) ==
  records[i].revision < MaxRevision /\ Revisions(records) < MaxRevisions

(* A record of the tab is picked, by reconcile or by recheck, and the head *)
(* is read.                                                                *)
StartProbe(t, i) ==
  /\ Opened(t) /\ probe[t] = None
  /\ i \in DOMAIN memory[t]
  /\ memory[t][i].status \notin {"rejected", "aborted"}
  /\ Bounded(memory[t], i)
  /\ probe' = [probe EXCEPT ![t] =
       [intent |-> i, record |-> memory[t][i], head |-> Len(chain),
        found |-> None, observed |-> None]]
  /\ UNCHANGED <<journalVars, task, wallet, chainVars>>

Found(tx, txLookup, receipt, receiptLookup, scanned) ==
  [tx |-> tx, txLookup |-> txLookup, receipt |-> receipt,
   receiptLookup |-> receiptLookup, scanned |-> scanned]

(* scanCanonicalTransaction over the blocks up to the last one it could    *)
(* read: where the nonce of r was used, by the reviewed call if semantic.  *)
Matches(i, r, upto, semantic) ==
  {n \in (r.scanCursor + 1)..upto :
     /\ chain[n].tx # None
     /\ nonce[chain[n].tx.of] = Coalesce(r.actualNonce, r.expectedNonce)
     /\ semantic => MatchesReviewed(i, chain[n].tx)}

(* What a scan up to a block makes of the lookups before it: the first     *)
(* match replaces the transaction, and the receipt when it is another one. *)
ScannedTo(p, before, upto) ==
  LET r == p.record
      matches == Matches(p.intent, r, upto, r.activeHash = None)
      first == CHOOSE n \in matches : \A m \in matches : n <= m
      h == chain[first].tx
  IN IF matches = {} THEN {[before EXCEPT !.scanned = upto]}
     ELSE IF h = r.activeHash
     THEN {[before EXCEPT !.tx = h, !.txLookup = "found", !.scanned = first]}
     ELSE {Found(h, "found", ReceiptOf(h, rl), rl, first) : rl \in ReceiptLookups(h)}

(* The last block a scan may reach.                                        *)
ScanEnds(p) ==
  IF p.head <= p.record.scanCursor THEN {p.record.scanCursor}
  ELSE IF LookupsFail THEN p.record.scanCursor..p.head ELSE {p.head}

Scanned(p, before) == UNION {ScannedTo(p, before, upto) : upto \in ScanEnds(p)}

(* What observeRecord may find: by the active hash, and by a scan when the *)
(* receipt is missing; by a scan alone without an active hash.             *)
Looked(h, tl, rl) == Found(IF tl = "found" THEN h ELSE None, tl, ReceiptOf(h, rl), rl, None)

FoundBy(p, tl, rl) ==
  LET looked == Looked(p.record.activeHash, tl, rl) IN
  IF rl = "missing" /\ p.record.actualNonce # None THEN Scanned(p, looked) ELSE {looked}

Findings(p) ==
  LET h == p.record.activeHash IN
  IF h = None THEN Scanned(p, Found(None, "missing", None, "missing", None))
  ELSE UNION {FoundBy(p, tl, rl) : tl \in TxLookups(h), rl \in ReceiptLookups(h)}

ReadChain(t) ==
  /\ probe[t] # None /\ probe[t].found = None
  /\ \E found \in Findings(probe[t]) : probe' = [probe EXCEPT ![t].found = found]
  /\ UNCHANGED <<journalVars, task, wallet, chainVars>>

(* What observeRecord may return: it reads the canonical block at the      *)
(* height of the receipt, the account's nonces and the clock last.  The    *)
(* nonces matter only to a record without a transaction, and then there is *)
(* no block to read.                                                       *)
Observation(f, head, lookup, above, expired) ==
  [tx |-> f.tx, txLookup |-> f.txLookup,
   receipt |-> f.receipt, receiptLookup |-> f.receiptLookup,
   scanned |-> f.scanned, head |-> head, blockLookup |-> lookup,
   blockFork |-> IF lookup = "found" THEN chain[f.receipt.block].fork ELSE None,
   nonceAbove |-> above, expired |-> expired]

BlockLookups(f) == IF f.receipt = None THEN {"missing"} ELSE {"found"} \cup Failure

NoncesAbove(r) ==
  IF r.activeHash # None THEN {FALSE}
  ELSE {Pending > Coalesce(r.actualNonce, r.expectedNonce)}
       \cup (IF LookupsFail THEN {FALSE} ELSE {})

(* The clock may have passed timeoutAt, once that is set, which matters    *)
(* only where it is known that there is no transaction.                    *)
Expirations(p) ==
  {FALSE, p.record.timed /\ p.found.txLookup = "missing" /\ p.found.receiptLookup # "unavailable"}

Observations(p) ==
  {Observation(p.found, p.head, lookup, above, expired) :
     lookup \in BlockLookups(p.found), above \in NoncesAbove(p.record),
     expired \in Expirations(p)}

ReadBlock(t) ==
  /\ probe[t] # None /\ probe[t].found # None /\ probe[t].observed = None
  /\ \E o \in Observations(probe[t]) : probe' = [probe EXCEPT ![t].observed = o]
  /\ UNCHANGED <<journalVars, task, wallet, chainVars>>

(* Mutant: an observation applies to whatever the record has become.       *)
SameRevision_Any(r, seen) == TRUE

(* The record has not been written since it was picked.                    *)
SameRevision(r, seen) == r.revision = seen.revision

(* The write at the end of reconcile and recheck.                          *)
CommitProbe(t) ==
  LET current == Current(t)
      i == probe[t].intent
  IN
  /\ probe[t] # None /\ probe[t].observed # None
  /\ Commit(t, IF i \in DOMAIN current /\ SameRevision(current[i], probe[t].record)
               THEN Update(current, i, Apply(i, current[i], probe[t].observed))
               ELSE current)
  /\ probe' = [probe EXCEPT ![t] = None]
  /\ UNCHANGED <<task, wallet, chainVars>>

(* deferTransactionMonitoring, when the head could not be read.            *)
Defer(t, i) ==
  LET current == Current(t) IN
  /\ LookupsFail /\ Opened(t) /\ probe[t] = None
  /\ i \in DOMAIN current
  /\ current[i].status # "awaiting-wallet" /\ NeedsMonitoring(current[i])
  /\ Bounded(current, i)
  /\ Commit(t, Update(current, i, [current[i] EXCEPT !.revision = @ + 1]))
  /\ UNCHANGED <<task, probe, wallet, chainVars>>

-----------------------------------------------------------------------------
Init ==
  /\ storage = [i \in {} |-> None]
  /\ memory = [t \in Tabs |-> None]
  /\ task = [t \in Tabs |-> None]
  /\ probe = [t \in Tabs |-> None]
  /\ wallet = [i \in Intents |-> "none"]
  /\ sent = {}
  /\ nonce = [i \in Intents |-> None]
  /\ chain = <<[fork |-> 0, tx |-> None, ok |-> TRUE]>>
  /\ reorgs = 0

TabNext(t) ==
  \/ Open(t)
  \/ Close(t)
  \/ StorageEvent(t)
  \/ Recover(t)
  \/ \E i \in Intents : Begin(t, i)
  \/ Abort(t)
  \/ Send(t)
  \/ Submitted(t)
  \/ FailRejected(t)
  \/ FailUnknown(t)
  \/ ResultLost(t)
  \/ \E i \in Intents : StartProbe(t, i)
  \/ ReadChain(t)
  \/ ReadBlock(t)
  \/ CommitProbe(t)
  \/ \E i \in Intents : Defer(t, i)

Environment ==
  \/ \E i \in Intents : Approve(i) \/ Reject(i)
  \/ \E i \in Intents, kind \in Replacements : Replace(i, kind)
  \/ Mine
  \/ Reorg

Next == (\E t \in Tabs : TabNext(t)) \/ Environment

Spec == Init /\ [][Next]_vars

-----------------------------------------------------------------------------
(* Properties.                                                             *)

RecordType(r) ==
  /\ r.status \in Statuses
  /\ r.revision \in Nat /\ r.confirmations \in Nat
  /\ r.activeHash \in Hashes \cup {None}
  /\ HashesOf(r) \subseteq Hashes
  /\ \A h \in HashesOf(r) : r.replacedBy[h] \in Hashes \cup {None}
  /\ r.compatible \in {None, "matching", "incompatible"}
  /\ r.scanCursor \in Nat

(* The state has the shape the code gives it.                              *)
TypeOK ==
  /\ DOMAIN storage \subseteq Intents
  /\ \A i \in DOMAIN storage : RecordType(storage[i])
  /\ \A t \in Tabs : Opened(t) => \A i \in DOMAIN memory[t] : RecordType(memory[t][i])
  /\ sent \subseteq Hashes
  /\ \A n \in 1..Len(chain) : chain[n].tx \in sent \cup {None}

(* The wallet will never broadcast i, or the nonce of i is settled.        *)
OutOfTheWay(i, depth) ==
  \/ wallet[i] \in {"none", "rejected"}
  \/ wallet[i] = "begun" /\ \A t \in Tabs : task[t] # None => task[t].intent # i
  \/ Settled(i, depth)

(* An intent is begun only when no earlier intent of the same retry key    *)
(* can still be broadcast or take effect: each was refused, or its nonce   *)
(* was used by a transaction with the required confirmations - whatever    *)
(* tabs crashed, callbacks were lost and lookups failed meanwhile.         *)
DuplicateExcluded ==
  \A i, j \in Intents :
    /\ wallet[i] = "none" /\ wallet'[i] = "begun"
    /\ j # i /\ Key[j] = Key[i]
    => OutOfTheWay(j, Confirmations)
NoDuplicate == [][DuplicateExcluded]_vars

(* A removal of liquidity is begun only when every earlier one of the same *)
(* pool is out of the way to the depth to which it is monitored.           *)
RemovalExcluded ==
  \A i, j \in Removals :
    wallet[i] = "none" /\ wallet'[i] = "begun" /\ j # i
    => OutOfTheWay(j, MonitorConfirmations)
RemovalsExclude == [][RemovalExcluded]_vars

(* A hash that the wallet returns is recorded, or another of the same      *)
(* intent already is, even when another tab took the intent for abandoned  *)
(* or observed it meanwhile.                                               *)
HashRecorded ==
  \A t \in Tabs :
    task[t] # None /\ task'[t] = None /\ Submitted(t)
    => storage'[task[t].intent].activeHash # None
ReturnedHashRecorded == [][HashRecorded]_vars

(* A record that is canonical, and whose transaction is on the chain as    *)
(* deep as that needs, stays canonical: no stale tab, late wallet answer   *)
(* or late observation demotes it.                                         *)
CanonicalKept ==
  \A i \in DOMAIN storage :
    storage[i].status = "canonical" /\ Settled(i, Confirmations)
    => i \in DOMAIN storage' /\ storage'[i].status = "canonical"
CanonicalStays == [][CanonicalKept]_vars

(* Reloading loses no record: everything stored passes the test that a     *)
(* reload puts it to.                                                      *)
NothingLostOnReload == \A i \in DOMAIN storage : Valid(storage[i])

(* The transaction of a canonical record is on the chain.                  *)
OnChain(i, r) ==
  /\ MatchesReviewed(i, r.activeHash)
  /\ \E n \in MinedAt(chain, r.activeHash) :
       chain[n].ok /\ Len(chain) - n + 1 >= Confirmations

(* What the journal calls canonical is on the chain, with the call that    *)
(* was reviewed and with the confirmations required, whatever happened     *)
(* between the reads of the observation and its write - as long as         *)
(* reorganisations are shallower than the confirmations.                   *)
CanonicalIsMined ==
  \A i \in DOMAIN storage : storage[i].status = "canonical" => OnChain(i, storage[i])

(* The state has its shape, and what it calls canonical is.                *)
JournalConsistent == TypeOK /\ CanonicalIsMined

(* The block o found at the height of its receipt has not been replaced.   *)
BlockStands(o) == o.blockLookup = "found" /\ chain[o.receipt.block].fork = o.blockFork

(* However deep the reorganisations, a record becomes canonical, or is     *)
(* found canonical again, only by an observation, and the reviewed         *)
(* transaction is then on the chain as deep as that needs unless the very  *)
(* block looked up last was replaced between the lookup and the write: a   *)
(* receipt read before a reorganisation is not enough.                     *)
EvidenceHolds ==
  \A i \in DOMAIN storage \cap DOMAIN storage' :
    storage'[i].status = "canonical" /\ storage'[i].revision # storage[i].revision
    => \E t \in Tabs :
         /\ probe[t] # None /\ probe'[t] = None
         /\ probe[t].intent = i /\ probe[t].observed # None
         /\ BlockStands(probe[t].observed) => OnChain(i, storage'[i])
CanonicalOnEvidence == [][EvidenceHolds]_vars
=============================================================================
