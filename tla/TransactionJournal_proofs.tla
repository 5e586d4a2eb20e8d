---------------------- MODULE TransactionJournal_proofs ----------------------
(***************************************************************************)
(* JournalInv is an inductive invariant of the transaction journal, and    *)
(* what follows from it: for any tabs, intents and chain, nothing stored   *)
(* is lost on reload, what is canonical is on the chain, and no intent is  *)
(* begun while an earlier one of its key can still take effect.            *)
(***************************************************************************)
EXTENDS TransactionJournal, FiniteSetTheorems, TLAPS

-----------------------------------------------------------------------------
(* The setting of the theorems: no block is mined between the head and the *)
(* lookups of an observation, reorganisations are shallower than the       *)
(* confirmations, and a wallet replaces transactions in one way.           *)
Calm ==
  /\ ~HeadMoves
  /\ ReorgDepth < Confirmations
  /\ \A k, l \in Replacements : k = l

(* Records and journals.                                                   *)
Links == UNION {[S -> Hashes \cup {None}] : S \in SUBSET Hashes}

JournalRecords ==
  [status : Statuses, revision : Nat, activeHash : Hashes \cup {None},
   expectedNonce : Nat, actualNonce : Nat \cup {None}, receipt : Receipts \cup {None},
   confirmations : Nat, replacedBy : Links,
   compatible : {None, "matching", "incompatible"}, finalized : BOOLEAN,
   timed : BOOLEAN, scanCursor : Nat, submissionBlock : Nat \ {0}]

Journals == UNION {[S -> JournalRecords] : S \in SUBSET Intents}

(* The statuses a merge turns into submitted when there is a hash.         *)
Hashless == {"awaiting-wallet", "unknown-submission", "rejected", "aborted"}

(* What a merge with an earlier version makes of a record.                 *)
Norm(r) ==
  [r EXCEPT !.status = IF r.activeHash # None /\ r.status \in Hashless THEN "submitted" ELSE @]

(* l is r or an earlier version of it.                                     *)
Later(l, r) ==
  /\ l.revision < r.revision
  /\ l.actualNonce # None => r.actualNonce # None
  /\ l.receipt # None => r.receipt # None
  /\ l.compatible # None => r.compatible # None
  /\ l.timed => r.timed
  /\ HashesOf(l) \subseteq HashesOf(r)
  /\ \A h \in HashesOf(l) : l.replacedBy[h] # None => r.replacedBy[h] = l.replacedBy[h]
  /\ l.activeHash # None => r.activeHash # None
  /\ l.activeHash \notin {None, r.activeHash} =>
       l.activeHash \in HashesOf(r) /\ r.replacedBy[l.activeHash] = r.activeHash
Behind(l, r) == l = r \/ Later(l, r)

(* The hashes of a record are of its intent, and one knows what it is.     *)
HashFacts(i, r) ==
  /\ \A h \in HashesOf(r) : h.of = i
  /\ \A h \in HashesOf(r) :
       r.replacedBy[h] # h /\ (r.replacedBy[h] # None => r.replacedBy[h].of = i)
  /\ r.activeHash # None =>
       /\ r.activeHash \in HashesOf(r)
       /\ (r.compatible = "incompatible") <=> ~MatchesReviewed(i, r.activeHash)

StatusFacts(r) ==
  /\ r.revision = 0 <=> r.status = "awaiting-wallet"
  /\ r.activeHash = None =>
       /\ r.actualNonce = None /\ HashesOf(r) = {}
       /\ r.receipt = None /\ r.compatible = None
       /\ r.status \in Hashless \cup {"reconciling", "timed-out"}
  /\ r.activeHash # None => r.status \notin Hashless
  /\ r.receipt # None => r.actualNonce # None
  /\ r.status = "canonical" => r.compatible # "incompatible"
  /\ Valid(r)

(* What a record says of the chain holds as deep as it says.               *)
Evidence(r) ==
  \E n \in MinedAt(chain, r.activeHash) :
    chain[n].ok = r.receipt.ok /\ Len(chain) - n + 1 >= r.confirmations

ChainFacts(i, r) ==
  /\ HashesOf(r) \subseteq sent
  /\ r.actualNonce # None => r.actualNonce = nonce[i]
  /\ r.confirmations >= Confirmations =>
       /\ r.status \in {"canonical", "reverted", "replaced"}
       /\ r.receipt # None /\ r.receipt.hash = r.activeHash
       /\ Evidence(r)

RecordOK(i, r) ==
  r \in JournalRecords /\ HashFacts(i, r) /\ StatusFacts(r) /\ ChainFacts(i, r)

(* A receipt c read under a head is the chain's while its block is.        *)
ReceiptTrue(head, c) ==
  /\ c.hash \in Hashes /\ c.ok \in BOOLEAN
  /\ c.block \in 1..head /\ c.fork \in 0..reorgs
  /\ chain[c.block].fork = c.fork => chain[c.block].tx = c.hash /\ chain[c.block].ok = c.ok

(* What the lookups for r of i, made under a head, found.                  *)
FoundOK(i, r, head, f) ==
  /\ f.tx \in sent \cup {None}
  /\ f.scanned \in Nat \cup {None}
  /\ f.tx # None => f.tx = r.activeHash \/ f.tx.of = i
  /\ f.tx # None /\ r.activeHash = None =>
       MatchesReviewed(i, f.tx) /\ nonce[f.tx.of] = r.expectedNonce
  /\ f.tx = None /\ r.activeHash = None =>
       f.txLookup = "missing" /\ f.receiptLookup = "missing"
  /\ f.tx \notin {None, r.activeHash} /\ r.activeHash # None => r.actualNonce # None
  /\ f.receiptLookup \in {"found", "missing", "unavailable"}
  /\ f.receipt # None <=> f.receiptLookup = "found"
  /\ f.receipt # None => ReceiptTrue(head, f.receipt)
  /\ f.receipt # None /\ f.tx = None => f.receipt.hash = r.activeHash
  /\ r.confirmations >= Confirmations =>
       /\ f.tx \in {None, r.activeHash}
       /\ f.receiptLookup # "missing"
       /\ f.receipt # None =>
            /\ f.receipt.hash = r.activeHash /\ f.receipt.ok = r.receipt.ok
            /\ head - f.receipt.block + 1 >= r.confirmations
            /\ chain[f.receipt.block].fork = f.receipt.fork

(* The last lookup of an observation of r, of the block of the receipt:    *)
(* where it confirms a receipt as deep as required, the block is still the *)
(* chain's, whatever happened since.                                       *)
BlockRead(r, o) ==
  /\ o.receipt = None => o.blockLookup = "missing"
  /\ o.receipt # None => o.blockLookup \in {"found", "unavailable"}
  /\ o.blockLookup = "found" /\ r.confirmations >= Confirmations =>
       o.blockFork = o.receipt.fork
  /\ BlockIsCanonical(o) /\ o.head - o.receipt.block + 1 >= Confirmations =>
       chain[o.receipt.block].fork = o.receipt.fork

(* The observation o is of the lookups of p.                               *)
ReportsFound(p, o) ==
  /\ o.tx = p.found.tx /\ o.txLookup = p.found.txLookup
  /\ o.receipt = p.found.receipt /\ o.receiptLookup = p.found.receiptLookup
  /\ o.scanned = p.found.scanned /\ o.head = p.head

-----------------------------------------------------------------------------
(* Links and merges.                                                       *)

LEMMA LinksFacts ==
  ASSUME NEW f \in Links
  PROVE  /\ DOMAIN f \subseteq Hashes
         /\ f \in [DOMAIN f -> Hashes \cup {None}]
BY DEF Links

LEMMA LinksIntro ==
  ASSUME NEW S \in SUBSET Hashes, NEW f \in [S -> Hashes \cup {None}]
  PROVE  f \in Links
BY DEF Links

LEMMA JournalFacts ==
  ASSUME NEW s \in Journals
  PROVE  /\ DOMAIN s \subseteq Intents
         /\ s \in [DOMAIN s -> JournalRecords]
BY DEF Journals

LEMMA JournalIntro ==
  ASSUME NEW S \in SUBSET Intents, NEW s \in [S -> JournalRecords]
  PROVE  s \in Journals
BY DEF Journals

(* The links of a merge with an earlier version are the later ones.        *)
LEMMA MergedLinksBehind ==
  ASSUME NEW l \in JournalRecords, NEW r \in JournalRecords, Behind(l, r)
  PROVE  MergedLinks(l, r) = r.replacedBy
<1> DEFINE L == l.replacedBy
           R == r.replacedBy
<1>1. L \in Links /\ R \in Links BY DEF JournalRecords
<1>2. DOMAIN L \subseteq DOMAIN R BY DEF Behind, Later, HashesOf
<1>3. \A h \in DOMAIN L : L[h] # None => R[h] = L[h] BY DEF Behind, Later, HashesOf
<1>4. R = [h \in DOMAIN R |-> R[h]] BY <1>1, LinksFacts
<1>5. MergedLinks(l, r) =
        [h \in DOMAIN R |-> Coalesce(IF h \in DOMAIN L THEN L[h] ELSE None, R[h])]
  <2>1. DOMAIN L \cup DOMAIN R = DOMAIN R BY <1>2
  <2> QED BY <2>1 DEF MergedLinks, HashesOf
<1>6. \A h \in DOMAIN R :
        Coalesce(IF h \in DOMAIN L THEN L[h] ELSE None, R[h]) = R[h]
  BY <1>3 DEF Coalesce
<1> QED BY <1>4, <1>5, <1>6

(* Merged with an earlier version of itself, a record stays, normalised.   *)
LEMMA MergeBehind ==
  ASSUME NEW l \in JournalRecords, NEW r \in JournalRecords, Behind(l, r)
  PROVE  MergedRecord(l, r) = Norm(r)
<1>1. MergedLinks(l, r) = r.replacedBy BY MergedLinksBehind
<1>2. MergedActive(l, r) = r.activeHash
  BY <1>1 DEF MergedActive, Behind, Later
<1>3. ~(l.activeHash # None /\ r.activeHash # None /\ r.activeHash = None) OBVIOUS
<1>4. CASE l = r
  <2>1. ~(r.revision > l.revision) BY <1>4 DEF JournalRecords
  <2> QED BY <1>1, <1>2, <1>4, <2>1 DEF MergedRecord, Norm, Coalesce, JournalRecords, Hashless
<1>5. CASE Later(l, r)
  <2>1. r.revision > l.revision BY <1>5 DEF Later, JournalRecords
  <2>2. /\ Coalesce(r.actualNonce, l.actualNonce) = r.actualNonce
        /\ Coalesce(r.receipt, l.receipt) = r.receipt
        /\ Coalesce(r.compatible, l.compatible) = r.compatible
        /\ (l.timed \/ r.timed) = r.timed
    BY <1>5 DEF Later, Coalesce, JournalRecords
  <2> QED BY <1>1, <1>2, <2>1, <2>2 DEF MergedRecord, Norm, JournalRecords, Hashless
<1> QED BY <1>4, <1>5 DEF Behind

(* A record that is in order is normal.                                    *)
LEMMA NormalRecord ==
  ASSUME NEW r \in JournalRecords, StatusFacts(r)
  PROVE  Norm(r) = r
BY DEF Norm, StatusFacts, JournalRecords

LEMMA NormFacts ==
  ASSUME NEW r \in JournalRecords
  PROVE  /\ Norm(r) \in JournalRecords
         /\ \A l : Later(l, r) => Later(l, Norm(r))
BY DEF Norm, JournalRecords, Later, Statuses, HashesOf

(* With two hashes an intent, versions of versions are versions.           *)
LEMMA BehindTransitive ==
  ASSUME Calm, NEW i, NEW l \in JournalRecords, NEW m \in JournalRecords,
         NEW r \in JournalRecords, HashFacts(i, r),
         Behind(l, m), Behind(m, r)
  PROVE  Behind(l, r)
<1> SUFFICES ASSUME Later(l, m), Later(m, r) PROVE Later(l, r) BY DEF Behind
<1>1. l.revision < r.revision BY DEF Later, JournalRecords
<1>2. HashesOf(l) \subseteq HashesOf(r) BY DEF Later
<1>3. \A h \in HashesOf(l) : l.replacedBy[h] # None => r.replacedBy[h] = l.replacedBy[h]
  BY DEF Later
<1>4. ASSUME l.activeHash \notin {None, r.activeHash}
      PROVE  l.activeHash \in HashesOf(r) /\ r.replacedBy[l.activeHash] = r.activeHash
  <2>1. CASE l.activeHash = m.activeHash BY <1>4, <2>1 DEF Later
  <2>2. CASE l.activeHash # m.activeHash
    <3> DEFINE A == l.activeHash
               B == m.activeHash
               C == r.activeHash
    <3>1. B # None /\ C # None BY <1>4, <2>2 DEF Later
    <3>2. A \in HashesOf(m) /\ m.replacedBy[A] = B BY <1>4, <2>2 DEF Later
    <3>3. A \in HashesOf(r) /\ r.replacedBy[A] = B BY <3>1, <3>2 DEF Later
    <3>4. A \in Hashes /\ B \in Hashes /\ C \in Hashes
      BY <1>4, <3>1 DEF JournalRecords
    <3>5. A.of = i /\ B.of = i /\ C.of = i BY <3>1, <3>3 DEF HashFacts
    <3>6. A.kind # B.kind /\ A.kind # C.kind
      BY <3>4, <3>5, <1>4, <2>2 DEF Hashes
    <3>7. B.kind = C.kind BY <3>4, <3>6 DEF Hashes, Calm
    <3>8. B = C BY <3>4, <3>5, <3>7 DEF Hashes
    <3> QED BY <3>3, <3>8
  <2> QED BY <2>1, <2>2
<1> QED BY <1>1, <1>2, <1>3, <1>4 DEF Later

-----------------------------------------------------------------------------
(* Observations.                                                           *)

(* The record s from which an observation of r decides its status: r with  *)
(* its revision counted, and the transaction it has seen.                  *)
Observed(i, r, s) ==
  /\ s \in JournalRecords
  /\ s.revision = r.revision + 1
  /\ s.activeHash # None /\ HashFacts(i, s)
  /\ s.actualNonce = nonce[i] /\ s.actualNonce # None
  /\ HashesOf(s) \subseteq sent
  /\ Later(r, s)
  /\ s.receipt = r.receipt /\ s.confirmations = r.confirmations /\ s.finalized = r.finalized
  /\ s.expectedNonce = r.expectedNonce
  /\ s.status \in {r.status, "replaced"}
  /\ r.confirmations >= Confirmations => s.activeHash = r.activeHash /\ s.status = r.status

(* What an observation makes of r.                                         *)
Outcome(i, r, x) ==
  /\ x \in JournalRecords
  /\ Later(r, x)
  /\ RecordOK(i, Norm(x))
  /\ x.expectedNonce = r.expectedNonce
  /\ x.status \notin {"rejected", "aborted"}
  /\ r.status = "canonical" => x.status = "canonical"

(* A receipt that is kept.                                                 *)
LEMMA KeptReceiptFacts ==
  ASSUME NEW head, NEW o, ReceiptTrue(head, o.receipt)
  PROVE  /\ KeptReceipt(o) \in Receipts
         /\ KeptReceipt(o) # None
         /\ KeptReceipt(o).hash = o.receipt.hash
         /\ KeptReceipt(o).ok = o.receipt.ok
BY NoneAssumption DEF ReceiptTrue, KeptReceipt, Receipts

(* A record that lost its receipt.                                         *)
LEMMA OrphanedOK ==
  ASSUME NEW i, NEW r, NEW s, RecordOK(i, r), Observed(i, r, s),
         r.confirmations < Confirmations, r.status \notin {"rejected", "aborted"},
         NEW c \in Receipts \cup {None}, s.receipt # None => c # None,
         NEW cursor \in Nat, NEW x,
         x = [s EXCEPT !.status = "orphaned", !.confirmations = 0,
                       !.receipt = c, !.scanCursor = cursor]
  PROVE  Outcome(i, r, x)
<1>1. x \in JournalRecords BY DEF Observed, JournalRecords, Statuses
<1>2. Later(r, x) BY DEF Observed, Later, JournalRecords, HashesOf
<1>3. ~r.finalized BY JournalAssumption DEF RecordOK, StatusFacts, Valid, JournalRecords
<1>4. HashFacts(i, x) BY DEF Observed, HashFacts, JournalRecords, HashesOf
<1>f. /\ x.status = "orphaned" /\ x.confirmations = 0 /\ x.receipt = c
      /\ x.revision # 0 /\ x.activeHash # None /\ x.activeHash \in HashesOf(x)
      /\ x.actualNonce = nonce[i] /\ x.actualNonce # None /\ ~x.finalized
      /\ HashesOf(x) \subseteq sent
  BY <1>3 DEF RecordOK, Observed, HashFacts, JournalRecords, HashesOf
<1>5. StatusFacts(x) BY <1>f DEF StatusFacts, Valid, Hashless
<1>6. ChainFacts(i, x) BY <1>f, JournalAssumption DEF ChainFacts
<1>7. Norm(x) = x BY <1>1, <1>5, NormalRecord
<1>8. r.status # "canonical" BY JournalAssumption DEF RecordOK, StatusFacts, Valid, JournalRecords
<1> QED BY <1>1, <1>2, <1>4, <1>5, <1>6, <1>7, <1>8 DEF Outcome, RecordOK, Observed, JournalRecords

(* The statuses an observation that cannot be completed leaves alone.      *)
Evidenced == {"confirming", "canonical", "reverted", "replaced", "orphaned"}

Unread(r, o) ==
  "unavailable" \in {o.receiptLookup, o.blockLookup} /\ r.status \in Evidenced

(* A record that has seen its transaction, and nothing new of its receipt. *)
LEMMA KeptOK ==
  ASSUME NEW i, NEW r, NEW s, RecordOK(i, r), Observed(i, r, s),
         r.confirmations < Confirmations, r.status \notin {"rejected", "aborted"},
         s.status \notin {"confirming", "canonical", "reverted"}
  PROVE  Outcome(i, r, s)
<1> DEFINE x == Norm(s)
<1>1. s \in JournalRecords /\ x \in JournalRecords BY NormFacts DEF Observed
<1>2. /\ x.revision # 0 /\ x.activeHash # None /\ x.activeHash = s.activeHash
      /\ x.replacedBy = s.replacedBy /\ x.compatible = s.compatible
      /\ x.actualNonce = nonce[i] /\ x.actualNonce # None
      /\ x.receipt = s.receipt /\ x.confirmations = s.confirmations
      /\ ~x.finalized
  <2>1. ~r.finalized BY JournalAssumption DEF RecordOK, StatusFacts, Valid, JournalRecords
  <2> QED BY <1>1, <2>1 DEF RecordOK, Observed, JournalRecords, Norm
<1>3. x.status \notin {"confirming", "canonical", "reverted"} \cup Hashless
  BY <1>1 DEF Observed, Norm, JournalRecords, Hashless
<1> HIDE DEF x
<1>4. HashFacts(i, x) /\ x.activeHash \in HashesOf(x)
  BY <1>2 DEF Observed, HashFacts, HashesOf
<1>5. StatusFacts(x) BY <1>2, <1>3, <1>4 DEF StatusFacts, Valid, Hashless
<1>6. ChainFacts(i, x)
  BY <1>1, <1>2, JournalAssumption DEF RecordOK, Observed, ChainFacts, JournalRecords, HashesOf
<1>7. s.status \notin {"rejected", "aborted"} /\ r.status # "canonical"
  BY JournalAssumption DEF Observed, RecordOK, StatusFacts, Valid, JournalRecords
<1> QED BY <1>1, <1>4, <1>5, <1>6, <1>7 DEF Outcome, RecordOK, Observed, x

(* A receipt in a canonical block is evidence at its depth, once that is   *)
(* what is required.                                                       *)
LEMMA ReceiptDepth ==
  ASSUME NEW r, NEW o, Len(chain) \in Nat, o.head \in 1..Len(chain),
         ReceiptTrue(o.head, o.receipt), BlockIsCanonical(o), BlockRead(r, o)
  PROVE  /\ Depth(o) \in 1..o.head
         /\ Depth(o) = o.head - o.receipt.block + 1
         /\ Depth(o) >= Confirmations =>
              /\ o.receipt.block \in MinedAt(chain, o.receipt.hash)
              /\ chain[o.receipt.block].ok = o.receipt.ok
              /\ Len(chain) - o.receipt.block + 1 >= Depth(o)
<1>1. o.receipt.block \in 1..o.head BY DEF ReceiptTrue
<1>2. Depth(o) = o.head - o.receipt.block + 1 BY <1>1 DEF Depth
<1>3. ASSUME Depth(o) >= Confirmations
      PROVE  /\ o.receipt.block \in MinedAt(chain, o.receipt.hash)
             /\ chain[o.receipt.block].ok = o.receipt.ok
             /\ Len(chain) - o.receipt.block + 1 >= Depth(o)
  <2>1. chain[o.receipt.block].tx = o.receipt.hash /\ chain[o.receipt.block].ok = o.receipt.ok
    BY <1>2, <1>3 DEF ReceiptTrue, BlockRead
  <2> QED BY <1>1, <1>2, <2>1 DEF MinedAt
<1> QED BY <1>1, <1>2, <1>3

(* applyReceiptObservation keeps a record in order.                        *)
LEMMA ApplyReceiptOK ==
  ASSUME NEW i, NEW r, NEW s, NEW o, RecordOK(i, r), Observed(i, r, s),
         r.status \notin {"rejected", "aborted"}, MatchesReviewed(i, s.activeHash),
         Len(chain) \in Nat, o.head \in 1..Len(chain),
         FoundOK(i, r, o.head, o), BlockRead(r, o), ~Unread(r, o)
  PROVE  Outcome(i, r, ApplyReceipt(s, o))
<1>r. r \in JournalRecords /\ s \in JournalRecords BY DEF RecordOK, Observed
<1>d. r.confirmations < Confirmations \/ r.confirmations >= Confirmations
  BY <1>r, JournalAssumption DEF JournalRecords
<1>e. r.confirmations >= Confirmations => r.status \in Evidenced
  BY DEF RecordOK, ChainFacts, Evidenced
<1>1. CASE o.receipt = None \/ o.receipt.hash # s.activeHash
  <2>1. r.confirmations < Confirmations
    <3> SUFFICES ASSUME r.confirmations >= Confirmations PROVE FALSE BY <1>d
    <3>1. o.receiptLookup # "unavailable" BY <1>e DEF Unread
    <3>2. o.receipt # None BY <3>1 DEF FoundOK
    <3>3. o.receipt.hash = r.activeHash /\ s.activeHash = r.activeHash
      BY <3>2 DEF FoundOK, Observed
    <3> QED BY <1>1, <3>2, <3>3
  <2>2. CASE HasReceipt(s)
    <3> DEFINE x == [s EXCEPT !.status = "orphaned", !.confirmations = 0,
                              !.receipt = s.receipt, !.scanCursor = s.scanCursor]
    <3>1. ApplyReceipt(s, o) = x
      BY <1>r, <1>1, <2>2 DEF ApplyReceipt, Orphaned, JournalRecords
    <3>2. s.receipt \in Receipts \cup {None} /\ s.scanCursor \in Nat
      BY <1>r DEF JournalRecords
    <3>3. Outcome(i, r, x) BY <2>1, <3>2, OrphanedOK
    <3> QED BY <3>1, <3>3
  <2>3. CASE ~HasReceipt(s)
    <3>1. ApplyReceipt(s, o) = s BY <1>1, <2>3 DEF ApplyReceipt
    <3>2. Outcome(i, r, s) BY <2>1, <2>3, KeptOK DEF HasReceipt
    <3> QED BY <3>1, <3>2
  <2> QED BY <2>2, <2>3
<1>2. CASE ~(o.receipt = None \/ o.receipt.hash # s.activeHash) /\ o.blockLookup # "found"
  <2>1. o.blockLookup = "unavailable" BY <1>2 DEF BlockRead
  <2>2. r.status \notin Evidenced BY <2>1 DEF Unread
  <2>3. r.confirmations < Confirmations BY <1>d, <1>e, <2>2
  <2>4. s.status \notin {"confirming", "canonical", "reverted"}
    BY <2>2 DEF Observed, Evidenced
  <2>5. Outcome(i, r, s) BY <2>3, <2>4, KeptOK
  <2>6. ApplyReceipt(s, o) = s BY <1>2 DEF ApplyReceipt
  <2> QED BY <2>5, <2>6
<1>3. CASE /\ o.receipt # None /\ o.receipt.hash = s.activeHash
           /\ o.blockLookup = "found" /\ ~BlockIsCanonical(o)
  <2>1. r.confirmations < Confirmations
    <3> SUFFICES ASSUME r.confirmations >= Confirmations PROVE FALSE BY <1>d
    <3> QED BY <1>3 DEF FoundOK, BlockIsCanonical, BlockRead
  <2> DEFINE x == [s EXCEPT !.status = "orphaned", !.confirmations = 0,
                            !.receipt = KeptReceipt(o), !.scanCursor = s.submissionBlock - 1]
  <2>2. KeptReceipt(o) \in Receipts /\ KeptReceipt(o) # None
    BY <1>3, KeptReceiptFacts DEF FoundOK
  <2>3. s.submissionBlock - 1 \in Nat BY <1>r DEF JournalRecords
  <2>4. ApplyReceipt(s, o) = x
    BY <1>r, <1>3 DEF ApplyReceipt, Orphaned, Rewound, JournalRecords
  <2>5. Outcome(i, r, x) BY <2>1, <2>2, <2>3, OrphanedOK
  <2> QED BY <2>4, <2>5
<1>4. CASE /\ o.receipt # None /\ o.receipt.hash = s.activeHash
           /\ o.blockLookup = "found" /\ BlockIsCanonical(o)
  <2> DEFINE d == Depth(o)
             k == KeptReceipt(o)
             st == IF ~o.receipt.ok THEN "reverted"
                   ELSE IF d >= Confirmations THEN "canonical" ELSE "confirming"
             x == [s EXCEPT !.receipt = k, !.confirmations = d, !.status = st]
  <2>1. ReceiptTrue(o.head, o.receipt) BY <1>4 DEF FoundOK
  <2>2. /\ k \in Receipts /\ k # None /\ k.hash = s.activeHash /\ k.ok = o.receipt.ok
    BY <1>4, <2>1, KeptReceiptFacts
  <2>3. /\ d \in Nat \ {0} /\ d = o.head - o.receipt.block + 1
        /\ d >= Confirmations =>
             /\ o.receipt.block \in MinedAt(chain, s.activeHash)
             /\ chain[o.receipt.block].ok = o.receipt.ok
             /\ Len(chain) - o.receipt.block + 1 >= d
    BY <1>4, <2>1, ReceiptDepth
  <2>4. ApplyReceipt(s, o) = x BY <1>4 DEF ApplyReceipt
  <2>5. ~r.finalized
    <3> SUFFICES ASSUME r.finalized PROVE FALSE OBVIOUS
    <3>1. r.confirmations >= Confirmations /\ r.compatible = "incompatible" /\ r.receipt # None
      BY DEF RecordOK, StatusFacts, Valid
    <3>2. r.activeHash # None BY <3>1 DEF RecordOK, StatusFacts
    <3>3. s.activeHash = r.activeHash BY <3>1 DEF Observed
    <3> QED BY <3>1, <3>2, <3>3 DEF RecordOK, HashFacts
  <2> HIDE DEF d, k
  <2>s. st \in Statuses BY DEF Statuses
  <2>6. x \in JournalRecords
    <3> HIDE DEF st
    <3> QED BY <1>r, <2>2, <2>3, <2>s DEF JournalRecords
  <2>7. /\ x.receipt = k /\ x.confirmations = d /\ x.status = st
        /\ x.revision # 0 /\ x.activeHash = s.activeHash /\ x.activeHash # None
        /\ x.replacedBy = s.replacedBy /\ x.compatible = s.compatible
        /\ x.actualNonce = nonce[i] /\ x.actualNonce # None /\ ~x.finalized
        /\ x.expectedNonce = r.expectedNonce
    BY <1>r, <2>5 DEF Observed, JournalRecords
  <2>8. Later(r, x)
    <3>1. x.revision = s.revision /\ x.timed = s.timed BY <1>r DEF JournalRecords
    <3> QED BY <2>2, <2>7, <3>1 DEF Observed, Later, HashesOf
  <2> HIDE DEF x
  <2>9. HashFacts(i, x) /\ x.activeHash \in HashesOf(x)
    BY <2>7 DEF Observed, HashFacts, HashesOf
  <2>10. x.compatible # "incompatible" BY <2>7 DEF Observed, HashFacts
  <2>11. StatusFacts(x)
    BY <2>2, <2>3, <2>7, <2>9, <2>10, JournalAssumption DEF StatusFacts, Valid, Hashless
  <2>12. d >= Confirmations => Evidence(x)
    BY <2>2, <2>3, <2>7 DEF Evidence
  <2>13. ChainFacts(i, x)
    BY <2>2, <2>3, <2>7, <2>12, JournalAssumption DEF ChainFacts, Observed, HashesOf
  <2>14. Norm(x) = x BY <2>6, <2>11, NormalRecord
  <2>15. ASSUME r.status = "canonical" PROVE x.status = "canonical"
    <3>1. r.confirmations >= Confirmations /\ r.receipt.ok
      BY <2>15 DEF RecordOK, StatusFacts, Valid
    <3>2. o.receipt.ok = r.receipt.ok /\ o.head - o.receipt.block + 1 >= r.confirmations
      BY <1>4, <3>1 DEF FoundOK
    <3>3. d >= Confirmations
      BY <1>r, <2>3, <3>1, <3>2, JournalAssumption DEF JournalRecords
    <3> QED BY <2>7, <3>1, <3>2, <3>3
  <2>16. x.status \notin {"rejected", "aborted"} BY <2>7
  <2> QED BY <2>4, <2>6, <2>7, <2>8, <2>9, <2>11, <2>13, <2>14, <2>15, <2>16 DEF Outcome, RecordOK
<1> QED BY <1>1, <1>2, <1>3, <1>4

(* applyIncompatibleReplacementReceipt keeps a record in order.            *)
LEMMA ApplyIncompatibleOK ==
  ASSUME NEW i, NEW r, NEW s, NEW o, RecordOK(i, r), Observed(i, r, s),
         r.status \notin {"rejected", "aborted"}, ~MatchesReviewed(i, s.activeHash),
         Len(chain) \in Nat, o.head \in 1..Len(chain),
         FoundOK(i, r, o.head, o), BlockRead(r, o)
  PROVE  Outcome(i, r, ApplyIncompatible(s, o))
<1> DEFINE inCanonical == /\ o.receipt # None /\ o.receipt.hash = s.activeHash
                          /\ BlockIsCanonical(o)
           d == IF inCanonical THEN Depth(o) ELSE 0
           k == IF o.receipt = None THEN None ELSE KeptReceipt(o)
           c == IF inCanonical THEN k ELSE Coalesce(s.receipt, k)
           final == d >= Confirmations
           x == [s EXCEPT !.receipt = c, !.confirmations = d,
                          !.finalized = final, !.status = "replaced"]
<1>r. r \in JournalRecords /\ s \in JournalRecords BY DEF RecordOK, Observed
<1>1. ApplyIncompatible(s, o) = x BY DEF ApplyIncompatible
<1>2. k \in Receipts \cup {None} /\ (o.receipt # None => k # None)
  BY KeptReceiptFacts DEF FoundOK
<1>3. c \in Receipts \cup {None} /\ (s.receipt # None => c # None)
  <2> HIDE DEF k
  <2> QED BY <1>r, <1>2 DEF JournalRecords, Coalesce
<1>4. d \in Nat
  <2>1. CASE inCanonical BY <2>1, ReceiptDepth DEF FoundOK
  <2>2. CASE ~inCanonical BY <2>2
  <2> QED BY <2>1, <2>2
<1>5. ASSUME d >= Confirmations
      PROVE  /\ c # None /\ c.hash = s.activeHash
             /\ o.receipt.block \in MinedAt(chain, s.activeHash)
             /\ chain[o.receipt.block].ok = c.ok
             /\ Len(chain) - o.receipt.block + 1 >= d
  <2>1. CASE inCanonical
    <3>1. ReceiptTrue(o.head, o.receipt) BY <2>1 DEF FoundOK
    <3>2. c = KeptReceipt(o) BY <2>1
    <3>3. Depth(o) >= Confirmations BY <1>5, <2>1
    <3>4. /\ o.receipt.block \in MinedAt(chain, o.receipt.hash)
          /\ chain[o.receipt.block].ok = o.receipt.ok
          /\ Len(chain) - o.receipt.block + 1 >= Depth(o)
      BY <2>1, <3>1, <3>3, ReceiptDepth
    <3> QED BY <2>1, <3>1, <3>2, <3>4, KeptReceiptFacts
  <2>2. CASE ~inCanonical BY <1>5, <2>2, JournalAssumption
  <2> QED BY <2>1, <2>2
<1>b. final \in BOOLEAN BY <1>4, JournalAssumption
<1> HIDE DEF c, d, final
<1>6. x \in JournalRecords BY <1>r, <1>3, <1>4, <1>b DEF JournalRecords, Statuses
<1>7. /\ x.receipt = c /\ x.confirmations = d /\ x.status = "replaced"
      /\ x.finalized = final
      /\ x.revision # 0 /\ x.activeHash = s.activeHash /\ x.activeHash # None
      /\ x.replacedBy = s.replacedBy /\ x.compatible = s.compatible
      /\ x.actualNonce = nonce[i] /\ x.actualNonce # None
      /\ x.expectedNonce = r.expectedNonce
      /\ x.revision = s.revision /\ x.timed = s.timed
  BY <1>r DEF Observed, JournalRecords
<1> HIDE DEF x
<1>8. Later(r, x) BY <1>3, <1>7 DEF Observed, Later, HashesOf
<1>9. HashFacts(i, x) /\ x.activeHash \in HashesOf(x) /\ x.compatible = "incompatible"
  BY <1>7 DEF Observed, HashFacts, HashesOf
<1>10. StatusFacts(x)
  BY <1>5, <1>7, <1>9 DEF StatusFacts, Valid, Hashless, final
<1>11. x.confirmations >= Confirmations => Evidence(x)
  BY <1>5, <1>7 DEF Evidence
<1>12. ChainFacts(i, x) BY <1>5, <1>7, <1>11 DEF ChainFacts, Observed, HashesOf
<1>13. Norm(x) = x BY <1>6, <1>10, NormalRecord
<1>14. r.status # "canonical"
  <2> SUFFICES ASSUME r.status = "canonical" PROVE FALSE OBVIOUS
  <2>1. r.confirmations >= Confirmations /\ r.activeHash # None /\ r.compatible # "incompatible"
    BY DEF RecordOK, StatusFacts, Valid
  <2>2. s.activeHash = r.activeHash BY <2>1 DEF Observed
  <2> QED BY <2>1, <2>2 DEF RecordOK, HashFacts
<1> QED BY <1>1, <1>6, <1>7, <1>8, <1>9, <1>10, <1>12, <1>13, <1>14 DEF Outcome, RecordOK

(* A record whose observation is counted, and no more.                     *)
Base(r, o) == [r EXCEPT !.revision = @ + 1, !.scanCursor = Coalesce(o.scanned, @)]

LEMMA BaseFacts ==
  ASSUME NEW i, NEW r, NEW o, RecordOK(i, r), o.scanned \in Nat \cup {None}
  PROVE  /\ Base(r, o) \in JournalRecords
         /\ Later(r, Base(r, o))
         /\ Base(r, o).revision = r.revision + 1 /\ r.revision \in Nat
         /\ Base(r, o).status = r.status
         /\ Base(r, o).activeHash = r.activeHash /\ Base(r, o).replacedBy = r.replacedBy
         /\ Base(r, o).actualNonce = r.actualNonce /\ Base(r, o).receipt = r.receipt
         /\ Base(r, o).confirmations = r.confirmations /\ Base(r, o).compatible = r.compatible
         /\ Base(r, o).finalized = r.finalized /\ Base(r, o).timed = r.timed
         /\ Base(r, o).expectedNonce = r.expectedNonce
         /\ Base(r, o).submissionBlock = r.submissionBlock
<1>1. r \in JournalRecords BY DEF RecordOK
<1> DEFINE c == Coalesce(o.scanned, r.scanCursor)
           b == [r EXCEPT !.revision = r.revision + 1, !.scanCursor = c]
<1>2. c \in Nat BY <1>1 DEF Coalesce, JournalRecords
<1>3. Base(r, o) = b BY DEF Base
<1> HIDE DEF c
<1>4. b \in JournalRecords /\ r.revision \in Nat
  <2>1. r.revision \in Nat /\ r.revision + 1 \in Nat BY <1>1 DEF JournalRecords
  <2> DEFINE n == r.revision + 1
  <2>2. n \in Nat BY <2>1
  <2> HIDE DEF n
  <2>3. [r EXCEPT !.revision = n, !.scanCursor = c] \in JournalRecords
    BY <1>1, <1>2, <2>2 DEF JournalRecords
  <2> QED BY <2>1, <2>3 DEF n
<1>5. /\ b.revision = r.revision + 1 /\ b.status = r.status
      /\ b.activeHash = r.activeHash /\ b.replacedBy = r.replacedBy
      /\ b.actualNonce = r.actualNonce /\ b.receipt = r.receipt
      /\ b.confirmations = r.confirmations /\ b.compatible = r.compatible
      /\ b.finalized = r.finalized /\ b.timed = r.timed
      /\ b.expectedNonce = r.expectedNonce /\ b.submissionBlock = r.submissionBlock
  BY <1>1 DEF JournalRecords
<1> HIDE DEF b
<1>6. Later(r, b) BY <1>4, <1>5 DEF Later, HashesOf
<1> QED BY <1>3, <1>4, <1>5, <1>6

LEMMA BaseOK ==
  ASSUME NEW i, NEW r, NEW o, RecordOK(i, r), o.scanned \in Nat \cup {None},
         r.status \notin {"awaiting-wallet", "rejected", "aborted"}
  PROVE  Outcome(i, r, Base(r, o))
<1> DEFINE x == Base(r, o)
<1>1. x.revision # 0 /\ r.revision \in Nat BY BaseFacts
<1>2. HashFacts(i, x) BY BaseFacts DEF RecordOK, HashFacts, HashesOf
<1>3. StatusFacts(x) BY <1>1, BaseFacts DEF RecordOK, StatusFacts, Valid, HashesOf
<1>4. ChainFacts(i, x) BY BaseFacts DEF RecordOK, ChainFacts, Evidence, HashesOf
<1>5. Norm(x) = x BY <1>3, BaseFacts, NormalRecord
<1> QED BY <1>2, <1>3, <1>4, <1>5, BaseFacts DEF Outcome, RecordOK

LEMMA BaseObserved ==
  ASSUME NEW i, NEW r, NEW o, RecordOK(i, r), o.scanned \in Nat \cup {None},
         r.actualNonce # None
  PROVE  Observed(i, r, Base(r, o))
<1>1. r.activeHash # None BY DEF RecordOK, StatusFacts
<1> DEFINE b == Base(r, o)
<1>2. /\ b \in JournalRecords /\ Later(r, b) /\ b.revision = r.revision + 1
      /\ b.status = r.status /\ b.activeHash = r.activeHash /\ b.replacedBy = r.replacedBy
      /\ b.actualNonce = r.actualNonce /\ b.receipt = r.receipt
      /\ b.confirmations = r.confirmations /\ b.compatible = r.compatible
      /\ b.finalized = r.finalized /\ b.expectedNonce = r.expectedNonce
  BY BaseFacts
<1> HIDE DEF b
<1>3. HashFacts(i, b) BY <1>2 DEF RecordOK, HashFacts, HashesOf
<1>4. b.actualNonce = nonce[i] /\ HashesOf(b) \subseteq sent
  BY <1>2 DEF RecordOK, ChainFacts, HashesOf
<1>5. Observed(i, r, b) BY <1>1, <1>2, <1>3, <1>4 DEF Observed
<1> QED BY <1>5 DEF b

(* A record that has seen a transaction of its intent.                     *)
LEMMA SeenObserved ==
  ASSUME Calm, NEW i, NEW r, NEW o, RecordOK(i, r), FoundOK(i, r, o.head, o),
         o.tx # None, sent \subseteq Hashes, \A h \in sent : nonce[h.of] \in Nat
  PROVE  Observed(i, r, Seen(i, Base(r, o), o.tx))
<1> DEFINE b == Base(r, o)
           h == o.tx
           replaces == r.activeHash \notin {None, h}
           links == [k \in HashesOf(r) \cup {h} |->
                       IF replaces /\ k = r.activeHash THEN h
                       ELSE IF k \in HashesOf(r) THEN r.replacedBy[k] ELSE None]
           compatible == IF ~MatchesReviewed(i, h) THEN "incompatible"
                         ELSE IF replaces THEN "matching" ELSE r.compatible
           st == IF replaces THEN "replaced" ELSE r.status
           s == [b EXCEPT !.activeHash = h, !.actualNonce = nonce[h.of],
                          !.replacedBy = links, !.compatible = compatible,
                          !.status = st]
<1>r. r \in JournalRecords BY DEF RecordOK
<1>b. b \in JournalRecords /\ o.scanned \in Nat \cup {None} BY BaseFacts DEF FoundOK
<1>c. /\ HashesOf(b) = HashesOf(r) /\ b.replacedBy = r.replacedBy
      /\ b.activeHash = r.activeHash /\ b.compatible = r.compatible /\ b.status = r.status
  BY <1>b, BaseFacts DEF HashesOf
<1>1. Seen(i, b, h) = s
  <2> HIDE DEF b
  <2>1. links = [k \in HashesOf(b) \cup {h} |->
                   IF b.activeHash \notin {None, h} /\ k = b.activeHash THEN h
                   ELSE IF k \in HashesOf(b) THEN b.replacedBy[k] ELSE None]
    BY <1>c
  <2> HIDE DEF links
  <2> QED BY <1>c, <2>1 DEF Seen
<1>2. h \in sent /\ h \in Hashes BY DEF FoundOK
<1>3. h.of = i
  <2>1. CASE h = r.activeHash BY <2>1 DEF RecordOK, HashFacts
  <2>2. CASE h # r.activeHash BY <2>2 DEF FoundOK
  <2> QED BY <2>1, <2>2
<1>4. nonce[h.of] \in Nat /\ nonce[h.of] # None BY <1>2, NoneAssumption
<1>5. HashesOf(r) \in SUBSET Hashes /\ r.replacedBy \in [HashesOf(r) -> Hashes \cup {None}]
  BY <1>r, LinksFacts DEF JournalRecords, HashesOf
<1>6. links \in [HashesOf(r) \cup {h} -> Hashes \cup {None}] BY <1>2, <1>5
<1>7. links \in Links BY <1>2, <1>5, <1>6, LinksIntro
<1>8. compatible \in {None, "matching", "incompatible"} BY <1>r DEF JournalRecords
<1>9. ASSUME replaces, r.replacedBy[r.activeHash] # None
      PROVE  r.replacedBy[r.activeHash] = h
  <2> DEFINE A == r.activeHash
             B == r.replacedBy[A]
  <2>1. A \in HashesOf(r) /\ A \in Hashes BY <1>5, <1>9 DEF RecordOK, HashFacts
  <2>2. B \in Hashes /\ B # A /\ B.of = i /\ A.of = i
    BY <1>5, <1>9, <2>1 DEF RecordOK, HashFacts
  <2>3. B.kind # A.kind /\ h.kind # A.kind
    BY <1>2, <1>3, <1>9, <2>1, <2>2 DEF Hashes
  <2>4. B.kind = h.kind BY <1>2, <2>1, <2>2, <2>3 DEF Hashes, Calm
  <2> QED BY <1>2, <1>3, <2>2, <2>4 DEF Hashes
<1> HIDE DEF compatible
<1>10. s \in JournalRecords
  <2>1. st \in Statuses BY <1>r DEF JournalRecords, Statuses
  <2> HIDE DEF links, b, st
  <2> QED BY <1>b, <1>2, <1>4, <1>7, <1>8, <2>1 DEF JournalRecords
<1>11. /\ s.activeHash = h /\ s.actualNonce = nonce[i] /\ s.replacedBy = links
       /\ s.compatible = compatible /\ s.status = st
       /\ s.revision = r.revision + 1 /\ s.receipt = r.receipt
       /\ s.confirmations = r.confirmations /\ s.finalized = r.finalized
       /\ s.expectedNonce = r.expectedNonce /\ s.timed = r.timed
  <2> HIDE DEF links
  <2> QED BY <1>b, <1>3, BaseFacts DEF JournalRecords
<1> HIDE DEF s, b
<1>12. HashesOf(s) = HashesOf(r) \cup {h} BY <1>11 DEF HashesOf
<1>13. /\ \A k \in HashesOf(s) : k.of = i
       /\ \A k \in HashesOf(s) : s.replacedBy[k] # k /\ (s.replacedBy[k] # None => s.replacedBy[k].of = i)
  <2>1. \A k \in HashesOf(r) :
          k.of = i /\ r.replacedBy[k] # k /\ (r.replacedBy[k] # None => r.replacedBy[k].of = i)
    BY DEF RecordOK, HashFacts
  <2>2. h # None OBVIOUS
  <2> QED BY <1>3, <1>11, <1>12, <2>1, <2>2
<1>14. (s.compatible = "incompatible") <=> ~MatchesReviewed(i, h)
  <2>1. CASE r.activeHash = None
    BY <1>11, <2>1, NoneAssumption DEF RecordOK, StatusFacts, compatible
  <2>2. CASE r.activeHash # None
    BY <1>11, <2>2 DEF RecordOK, HashFacts, compatible
  <2> QED BY <2>1, <2>2
<1>15. HashFacts(i, s) BY <1>11, <1>12, <1>13, <1>14 DEF HashFacts
<1>16. Later(r, s)
  <2>1. \A k \in HashesOf(r) : r.replacedBy[k] # None => s.replacedBy[k] = r.replacedBy[k]
    BY <1>9, <1>11, <1>12
  <2>2. r.activeHash \notin {None, h} =>
          r.activeHash \in HashesOf(s) /\ s.replacedBy[r.activeHash] = h
    <3>1. r.activeHash # None => r.activeHash \in HashesOf(r) BY DEF RecordOK, HashFacts
    <3> QED BY <1>11, <1>12, <3>1
  <2>3. r.compatible # None => s.compatible # None
    BY <1>11, NoneAssumption DEF compatible
  <2>4. r.revision < s.revision BY <1>r, <1>11 DEF JournalRecords
  <2> QED BY <1>3, <1>4, <1>11, <1>12, <2>1, <2>2, <2>3, <2>4 DEF Later
<1>17. HashesOf(s) \subseteq sent BY <1>2, <1>12 DEF RecordOK, ChainFacts
<1>18. r.confirmations >= Confirmations => h = r.activeHash BY DEF FoundOK
<1> QED BY <1>1, <1>3, <1>4, <1>10, <1>11, <1>15, <1>16, <1>17, <1>18 DEF Observed, b

(* The receipt of a record is missing.                                     *)
LEMMA RewoundOK ==
  ASSUME NEW i, NEW r, NEW o, RecordOK(i, r), FoundOK(i, r, o.head, o),
         r.status \notin {"rejected", "aborted"}, HasReceipt(r), o.receiptLookup = "missing"
  PROVE  Outcome(i, r, Rewound(Orphaned(Base(r, o))))
<1> DEFINE b == Base(r, o)
           x == [b EXCEPT !.status = "orphaned", !.confirmations = 0,
                          !.receipt = r.receipt, !.scanCursor = r.submissionBlock - 1]
<1>1. r \in JournalRecords /\ o.scanned \in Nat \cup {None} BY DEF RecordOK, FoundOK
<1>2. r.actualNonce # None BY DEF HasReceipt, RecordOK, StatusFacts, Valid
<1>3. Observed(i, r, b) BY <1>1, <1>2, BaseObserved
<1>4. r.confirmations < Confirmations
  BY <1>1, JournalAssumption DEF FoundOK, JournalRecords
<1>5. r.receipt \in Receipts \cup {None} /\ r.submissionBlock - 1 \in Nat
  BY <1>1 DEF JournalRecords
<1>6. b \in JournalRecords /\ b.receipt = r.receipt /\ b.submissionBlock = r.submissionBlock
  BY <1>1, BaseFacts
<1> HIDE DEF b
<1>7. Rewound(Orphaned(b)) = x
  BY <1>6 DEF Rewound, Orphaned, JournalRecords
<1>8. Outcome(i, r, x) BY <1>3, <1>4, <1>5, <1>6, OrphanedOK
<1> QED BY <1>7, <1>8 DEF b

(* Neither the transaction nor a receipt was found.                        *)
LEMMA WaitingOK ==
  ASSUME NEW i, NEW r, NEW o, RecordOK(i, r), FoundOK(i, r, o.head, o),
         r.status \notin {"rejected", "aborted"}, ~HasReceipt(r)
  PROVE  Outcome(i, r, Waiting(Base(r, o), o))
<1> DEFINE b == Base(r, o)
           st == IF o.expired THEN "timed-out"
                 ELSE IF r.activeHash = None
                 THEN IF o.nonceAbove THEN "reconciling" ELSE "unknown-submission"
                 ELSE IF r.status \in {"orphaned", "replaced", "timed-out"} THEN "reconciling"
                 ELSE "submitted"
           x == [b EXCEPT !.status = st]
<1>1. r \in JournalRecords /\ o.scanned \in Nat \cup {None} BY DEF RecordOK, FoundOK
<1>2. /\ b \in JournalRecords /\ Later(r, b) /\ b.revision # 0
      /\ b.status = r.status /\ b.activeHash = r.activeHash /\ b.replacedBy = r.replacedBy
      /\ b.actualNonce = r.actualNonce /\ b.receipt = r.receipt
      /\ b.confirmations = r.confirmations /\ b.compatible = r.compatible
      /\ b.finalized = r.finalized /\ b.expectedNonce = r.expectedNonce
  BY <1>1, BaseFacts
<1> HIDE DEF b
<1>3. Waiting(b, o) = x BY <1>2 DEF Waiting
<1>4. /\ st \in Statuses
      /\ st \in {"timed-out", "reconciling", "unknown-submission", "submitted"}
      /\ st = "submitted" => r.activeHash # None
      /\ st = "unknown-submission" => r.activeHash = None
  BY DEF Statuses
<1> HIDE DEF st
<1>5. /\ x \in JournalRecords /\ x.status = st
      /\ x.activeHash = r.activeHash /\ x.replacedBy = r.replacedBy
      /\ x.actualNonce = r.actualNonce /\ x.receipt = None
      /\ x.confirmations = r.confirmations /\ x.compatible = r.compatible
      /\ x.finalized = r.finalized /\ x.expectedNonce = r.expectedNonce
      /\ x.revision = b.revision /\ x.timed = b.timed
  BY <1>2, <1>4 DEF JournalRecords, HasReceipt
<1> HIDE DEF x
<1>6. Later(r, x) BY <1>2, <1>5 DEF Later, HashesOf, HasReceipt
<1>7. HashFacts(i, x) BY <1>5 DEF RecordOK, HashFacts, HashesOf
<1>8. ~r.finalized /\ ~(r.confirmations >= Confirmations)
  BY DEF HasReceipt, RecordOK, StatusFacts, Valid, ChainFacts
<1>9. StatusFacts(x)
  BY <1>2, <1>4, <1>5, <1>7, <1>8 DEF RecordOK, StatusFacts, HashFacts, Valid, HashesOf, Hashless
<1>10. ChainFacts(i, x) BY <1>5, <1>8 DEF RecordOK, ChainFacts, HashesOf
<1>11. Norm(x) = x BY <1>5, <1>9, NormalRecord
<1> QED BY <1>3, <1>4, <1>5, <1>6, <1>7, <1>9, <1>10, <1>11 DEF Outcome, RecordOK, HasReceipt, b

(* applyTransactionObservation keeps a record in order.                    *)
LEMMA ApplyOK ==
  ASSUME Calm, NEW i, NEW r, NEW o, RecordOK(i, r), FoundOK(i, r, o.head, o), BlockRead(r, o),
         r.status \notin {"rejected", "aborted"},
         Len(chain) \in Nat, o.head \in 1..Len(chain),
         sent \subseteq Hashes, \A h \in sent : nonce[h.of] \in Nat
  PROVE  Outcome(i, r, Apply(i, r, o))
<1> DEFINE b == Base(r, o)
           seen == o.tx # None /\ MatchesIdentity(r, o.tx)
           receipted == /\ o.receipt # None /\ r.actualNonce # None
                        /\ o.receipt.hash = r.activeHash
           unknown == "unavailable" \in {o.receiptLookup, o.txLookup}
           missing == o.receiptLookup = "missing" /\ HasReceipt(r)
<1>1. r \in JournalRecords /\ o.scanned \in Nat \cup {None} BY DEF RecordOK, FoundOK
<1>2. Apply(i, r, o) =
        IF Unread(r, o) THEN b
        ELSE IF seen
        THEN IF r.activeHash = None /\ r.actualNonce = None /\ ~MatchesReviewed(i, o.tx)
             THEN [b EXCEPT !.status = "reconciling"]
             ELSE IF MatchesReviewed(i, o.tx) THEN ApplyReceipt(Seen(i, b, o.tx), o)
             ELSE ApplyIncompatible(Seen(i, b, o.tx), o)
        ELSE IF receipted
        THEN IF r.compatible = "incompatible" THEN ApplyIncompatible(b, o) ELSE ApplyReceipt(b, o)
        ELSE IF unknown THEN b
        ELSE IF missing THEN Rewound(Orphaned(b)) ELSE Waiting(b, o)
  BY DEF Apply, Base, Unread, Evidenced
<1>3. o.tx # None => seen
  <2> SUFFICES ASSUME o.tx # None PROVE MatchesIdentity(r, o.tx) OBVIOUS
  <2>1. o.tx \in sent /\ nonce[o.tx.of] \in Nat BY DEF FoundOK
  <2>2. CASE r.activeHash = None
    BY <2>2 DEF MatchesIdentity, FoundOK, Coalesce, RecordOK, StatusFacts
  <2>3. CASE r.activeHash # None /\ o.tx # r.activeHash
    <3>1. o.tx.of = i /\ r.actualNonce # None BY <2>3 DEF FoundOK
    <3>2. r.actualNonce = nonce[i] BY <3>1 DEF RecordOK, ChainFacts
    <3> QED BY <3>1, <3>2 DEF MatchesIdentity, Coalesce
  <2>4. CASE o.tx = r.activeHash BY <2>4 DEF MatchesIdentity
  <2> QED BY <2>2, <2>3, <2>4
<1>4. CASE Unread(r, o)
  <2>1. r.status # "awaiting-wallet" BY <1>4 DEF Unread, Evidenced
  <2> QED BY <1>1, <1>2, <1>4, <2>1, BaseOK
<1>5. CASE ~Unread(r, o) /\ seen
  <2> DEFINE s == Seen(i, b, o.tx)
  <2>1. Observed(i, r, s) BY <1>5, SeenObserved
  <2>2. s.activeHash = o.tx
    <3>1. b \in JournalRecords BY <1>1, BaseFacts
    <3> HIDE DEF b
    <3> QED BY <3>1 DEF Seen, JournalRecords
  <2>3. ~(r.activeHash = None /\ r.actualNonce = None /\ ~MatchesReviewed(i, o.tx))
    BY <1>5 DEF FoundOK
  <2> HIDE DEF s, b, seen
  <2>4. CASE MatchesReviewed(i, o.tx)
    <3>1. Outcome(i, r, ApplyReceipt(s, o)) BY <1>5, <2>1, <2>2, <2>4, ApplyReceiptOK
    <3> QED BY <1>2, <1>5, <2>3, <2>4, <3>1 DEF s
  <2>5. CASE ~MatchesReviewed(i, o.tx)
    <3>1. Outcome(i, r, ApplyIncompatible(s, o)) BY <2>1, <2>2, <2>5, ApplyIncompatibleOK
    <3> QED BY <1>2, <1>5, <2>3, <2>5, <3>1 DEF s
  <2> QED BY <2>4, <2>5
<1>6. CASE ~Unread(r, o) /\ ~seen /\ receipted
  <2>1. Observed(i, r, b) BY <1>1, <1>6, BaseObserved
  <2>2. b.activeHash = r.activeHash /\ r.activeHash # None
    BY <1>1, <1>6, BaseFacts DEF RecordOK, StatusFacts
  <2>3. (r.compatible = "incompatible") <=> ~MatchesReviewed(i, b.activeHash)
    BY <2>2 DEF RecordOK, HashFacts
  <2> HIDE DEF b, seen
  <2>4. CASE r.compatible = "incompatible"
    <3>1. Outcome(i, r, ApplyIncompatible(b, o)) BY <2>1, <2>3, <2>4, ApplyIncompatibleOK
    <3> QED BY <1>2, <1>6, <2>4, <3>1
  <2>5. CASE r.compatible # "incompatible"
    <3>1. Outcome(i, r, ApplyReceipt(b, o)) BY <1>6, <2>1, <2>3, <2>5, ApplyReceiptOK
    <3> QED BY <1>2, <1>6, <2>5, <3>1
  <2> QED BY <2>4, <2>5
<1>7. CASE ~Unread(r, o) /\ ~seen /\ ~receipted /\ unknown
  <2>1. o.tx = None BY <1>3, <1>7
  <2>2. r.status # "awaiting-wallet"
    <3>1. r.activeHash # None BY <1>7, <2>1 DEF FoundOK
    <3> QED BY <3>1 DEF RecordOK, StatusFacts, Hashless
  <2> HIDE DEF seen, receipted
  <2> QED BY <1>1, <1>2, <1>7, <2>2, BaseOK
<1>8. CASE ~Unread(r, o) /\ ~seen /\ ~receipted /\ ~unknown /\ missing
  <2> HIDE DEF seen, receipted, unknown
  <2> QED BY <1>2, <1>8, RewoundOK
<1>9. CASE ~Unread(r, o) /\ ~seen /\ ~receipted /\ ~unknown /\ ~missing
  <2>1. o.tx = None BY <1>3, <1>9
  <2>2. ~HasReceipt(r)
    <3> SUFFICES ASSUME HasReceipt(r) PROVE FALSE OBVIOUS
    <3>1. r.actualNonce # None BY DEF HasReceipt, RecordOK, StatusFacts, Valid
    <3>2. o.receipt # None BY <1>9 DEF FoundOK
    <3>3. o.receipt.hash = r.activeHash BY <2>1, <3>2 DEF FoundOK
    <3> QED BY <1>9, <3>1, <3>2, <3>3
  <2> HIDE DEF seen, receipted, unknown, missing
  <2> QED BY <1>2, <1>9, <2>2, WaitingOK
<1> QED BY <1>4, <1>5, <1>6, <1>7, <1>8, <1>9

-----------------------------------------------------------------------------
(* The invariant of the states.                                            *)

(* m holds earlier versions of the records of s.                           *)
Within(m, s) ==
  /\ m \in Journals
  /\ DOMAIN m \subseteq DOMAIN s
  /\ \A i \in DOMAIN m : Behind(m[i], s[i])

Phases == {"begun", "sending"}
WalletStates == {"none", "begun", "open", "approved", "rejected"}

StateTypes ==
  /\ storage \in Journals
  /\ DOMAIN memory = Tabs /\ DOMAIN probe = Tabs
  /\ task \in [Tabs -> [intent : Intents, phase : Phases] \cup {None}]
  /\ wallet \in [Intents -> WalletStates]
  /\ nonce \in [Intents -> Nat \cup {None}]
  /\ sent \subseteq Hashes
  /\ chain \in Seq([fork : Nat, tx : Hashes \cup {None}, ok : BOOLEAN])
  /\ reorgs \in Nat

RecordsOK == \A i \in DOMAIN storage : RecordOK(i, storage[i])

(* A tab knows nothing that is not stored.                                 *)
MemoryOK ==
  \A t \in Tabs :
    memory[t] # None \/ task[t] # None \/ probe[t] # None => Within(memory[t], storage)

(* While the record of an observation is the one stored, what it has found *)
(* is worth writing.                                                       *)
ProbeOK(p) ==
  /\ DOMAIN p = {"intent", "record", "head", "found", "observed"}
  /\ p.intent \in DOMAIN storage
  /\ p.record \in JournalRecords
  /\ Behind(p.record, storage[p.intent])
  /\ p.record.status \notin {"rejected", "aborted"}
  /\ p.head \in 1..Len(chain)
  /\ p.found = None => p.head = Len(chain)
  /\ p.found # None /\ p.record = storage[p.intent] =>
       FoundOK(p.intent, p.record, p.head, p.found)
  /\ p.observed # None => p.found # None /\ ReportsFound(p, p.observed)
  /\ p.observed # None /\ p.record = storage[p.intent] => BlockRead(p.record, p.observed)
ProbesOK == \A t \in Tabs : probe[t] # None => ProbeOK(probe[t])

NoTask(i) == \A t \in Tabs : task[t] # None => task[t].intent # i

TasksOK ==
  /\ \A t \in Tabs : task[t] # None =>
       /\ task[t].phase = "begun" => wallet[task[t].intent] = "begun"
       /\ task[t].phase = "sending" =>
            wallet[task[t].intent] \in {"open", "approved", "rejected"}
  /\ \A t, u \in Tabs :
       t # u /\ task[t] # None /\ task[u] # None => task[t].intent # task[u].intent

WalletOK ==
  /\ \A i \in Intents : wallet[i] # "none" <=> i \in DOMAIN storage
  /\ \A i \in Intents : nonce[i] # None <=> wallet[i] = "approved"
  /\ \A i \in Intents : wallet[i] = "approved" => Original(i) \in sent
  /\ \A i \in DOMAIN storage :
       /\ storage[i].status = "rejected" => wallet[i] = "rejected"
       /\ storage[i].status = "aborted" => wallet[i] = "begun" /\ NoTask(i)

NonceOK ==
  /\ \A i \in Intents : nonce[i] # None => nonce[i] < Pending
  /\ \A i, j \in Intents : nonce[i] # None /\ nonce[i] = nonce[j] => i = j
  /\ \A h \in sent : nonce[h.of] # None

(* Nonces are used in turn.                                                *)
Earlier(ch, n) == {m \in 1..(n - 1) : ch[m].tx # None}
ChainOK ==
  /\ Len(chain) >= 1
  /\ \A n \in 1..Len(chain) : chain[n].tx \in sent \cup {None} /\ chain[n].fork <= reorgs
  /\ \A n \in 1..Len(chain) : chain[n].tx # None =>
       nonce[chain[n].tx.of] = Cardinality(Earlier(chain, n))

(* While an intent has no hash, no other of its key can take its nonce.    *)
Past(i, j) ==
  \/ wallet[j] \in {"none", "rejected"}
  \/ wallet[j] = "begun" /\ NoTask(j)
  \/ wallet[j] = "approved" /\ nonce[j] < storage[i].expectedNonce
KeysApart ==
  \A i \in DOMAIN storage, j \in Intents :
    /\ j # i /\ Key[j] = Key[i] /\ storage[i].activeHash = None
    /\ storage[i].status \notin {"rejected", "aborted"}
    => Past(i, j)

JournalInv ==
  /\ StateTypes /\ RecordsOK /\ MemoryOK /\ ProbesOK /\ TasksOK
  /\ WalletOK /\ NonceOK /\ ChainOK /\ KeysApart

-----------------------------------------------------------------------------
(* Writes.                                                                 *)

(* A reload keeps the whole journal.                                       *)
LEMMA LoadStorage ==
  ASSUME StateTypes, RecordsOK
  PROVE  Load = storage
<1>1. \A i \in DOMAIN storage : Valid(storage[i]) BY DEF RecordsOK, RecordOK, StatusFacts
<1>2. {j \in DOMAIN storage : Valid(storage[j])} = DOMAIN storage BY <1>1
<1>3. storage = [i \in DOMAIN storage |-> storage[i]] BY JournalFacts DEF StateTypes
<1> QED BY <1>2, <1>3 DEF Load

(* Merged with later versions, a journal becomes these, normalised.        *)
LEMMA MergeWithin ==
  ASSUME NEW m, NEW s \in Journals, Within(m, s)
  PROVE  Merge(m, s) = [i \in DOMAIN s |-> IF i \in DOMAIN m THEN Norm(s[i]) ELSE s[i]]
<1>1. DOMAIN m \cup DOMAIN s = DOMAIN s BY DEF Within
<1>2. ASSUME NEW i \in DOMAIN m PROVE MergedRecord(m[i], s[i]) = Norm(s[i])
  <2>1. m[i] \in JournalRecords /\ s[i] \in JournalRecords /\ Behind(m[i], s[i])
    BY <1>2, JournalFacts DEF Within
  <2> QED BY <2>1, MergeBehind
<1>3. \A i \in DOMAIN m : i \in DOMAIN s BY DEF Within
<1> QED BY <1>1, <1>2, <1>3 DEF Merge

(* A tab that reads the storage has what is stored.                        *)
LEMMA CurrentStorage ==
  ASSUME StateTypes, RecordsOK, NEW t \in Tabs, Within(memory[t], storage)
  PROVE  Current(t) = storage
<1>1. Current(t) = Merge(memory[t], storage) BY LoadStorage DEF Current
<1>2. \A i \in DOMAIN storage : Norm(storage[i]) = storage[i]
  <2> SUFFICES ASSUME NEW i \in DOMAIN storage PROVE Norm(storage[i]) = storage[i] OBVIOUS
  <2>1. storage[i] \in JournalRecords /\ StatusFacts(storage[i]) BY DEF RecordsOK, RecordOK
  <2> QED BY <2>1, NormalRecord
<1>3. storage = [i \in DOMAIN storage |-> storage[i]] BY JournalFacts DEF StateTypes
<1>4. Merge(memory[t], storage) =
        [i \in DOMAIN storage |-> IF i \in DOMAIN memory[t] THEN Norm(storage[i]) ELSE storage[i]]
  BY MergeWithin DEF StateTypes
<1> QED BY <1>1, <1>2, <1>3, <1>4

(* Earlier versions of a journal are earlier versions of the later ones.   *)
LEMMA WithinTransitive ==
  ASSUME Calm, NEW m, NEW s \in Journals, NEW n \in Journals,
         Within(m, s), Within(s, n), \A i \in DOMAIN n : HashFacts(i, n[i])
  PROVE  Within(m, n)
<1> SUFFICES ASSUME NEW i \in DOMAIN m PROVE Behind(m[i], n[i]) BY DEF Within
<1>1. i \in DOMAIN s /\ i \in DOMAIN n BY DEF Within
<1>2. m[i] \in JournalRecords /\ s[i] \in JournalRecords /\ n[i] \in JournalRecords
  BY <1>1, JournalFacts DEF Within
<1>3. Behind(m[i], s[i]) /\ Behind(s[i], n[i]) BY <1>1 DEF Within
<1>4. HashFacts(i, n[i]) BY <1>1
<1> QED BY <1>2, <1>3, <1>4, BehindTransitive

(* x is the record r of i as a later write stores it.                      *)
Advanced(i, r, x) ==
  /\ RecordOK(i, x)
  /\ Later(r, x)
  /\ x.expectedNonce = r.expectedNonce
  /\ r.status \notin {"rejected", "aborted"}
  /\ r.status = "canonical" => x.status = "canonical"

(* What a write may make of the journal.                                   *)
Advance(next) ==
  /\ next \in [DOMAIN storage -> JournalRecords]
  /\ \A i \in DOMAIN storage :
       next[i] # storage[i] =>
         /\ Later(storage[i], next[i])
         /\ Advanced(i, storage[i], Norm(next[i]))

(* A refusal is recorded only of an intent that was refused.               *)
RefusedOnly(i, x) ==
  /\ x.status = "rejected" => wallet[i] = "rejected"
  /\ x.status = "aborted" => wallet[i] = "begun" /\ NoTask(i)'

(* What a write stores.                                                    *)
LEMMA Stored ==
  ASSUME StateTypes, RecordsOK, NEW t \in Tabs, NEW next, Advance(next),
         \/ Commit(t, next) /\ Within(memory[t], storage)
         \/ Persist(t, next)
  PROVE  /\ storage' = [i \in DOMAIN storage |-> Norm(next[i])]
         /\ memory' = [memory EXCEPT ![t] = storage']
         /\ storage' \in [DOMAIN storage -> JournalRecords]
         /\ \A i \in DOMAIN storage :
              storage'[i] # storage[i] =>
                next[i] # storage[i] /\ Advanced(i, storage[i], storage'[i])
<1>1. DOMAIN storage \subseteq Intents /\ storage \in [DOMAIN storage -> JournalRecords]
  BY JournalFacts DEF StateTypes
<1>2. next \in Journals /\ DOMAIN next = DOMAIN storage
  BY <1>1, JournalIntro DEF Advance
<1>3. Within(storage, next) BY <1>2 DEF Within, Advance, Behind, StateTypes
<1>4. Merge(Load, next) = [i \in DOMAIN storage |-> Norm(next[i])]
  <2>1. Merge(storage, next) = [i \in DOMAIN next |-> IF i \in DOMAIN storage THEN Norm(next[i]) ELSE next[i]]
    BY <1>2, <1>3, MergeWithin
  <2> QED BY <1>2, <2>1, LoadStorage
<1>5. \A i \in DOMAIN storage : Norm(storage[i]) = storage[i]
  <2> SUFFICES ASSUME NEW i \in DOMAIN storage PROVE Norm(storage[i]) = storage[i] OBVIOUS
  <2>1. storage[i] \in JournalRecords /\ StatusFacts(storage[i]) BY DEF RecordsOK, RecordOK
  <2> QED BY <2>1, NormalRecord
<1>6. /\ storage' = [i \in DOMAIN storage |-> Norm(next[i])]
      /\ memory' = [memory EXCEPT ![t] = storage']
  <2>1. CASE Persist(t, next) BY <1>4, <2>1 DEF Persist
  <2>2. CASE Commit(t, next) /\ Within(memory[t], storage) /\ next = Current(t)
    <3>1. next = storage BY <2>2, CurrentStorage
    <3>2. storage = [i \in DOMAIN storage |-> storage[i]] BY <1>1
    <3> QED BY <1>5, <2>2, <3>1, <3>2 DEF Commit
  <2>3. CASE Commit(t, next) /\ next # Current(t) BY <1>4, <2>3 DEF Commit, Persist
  <2> QED BY <2>1, <2>2, <2>3
<1>7. \A i \in DOMAIN storage : next[i] \in JournalRecords /\ Norm(next[i]) \in JournalRecords
  BY NormFacts DEF Advance
<1>8. \A i \in DOMAIN storage : next[i] = storage[i] => Norm(next[i]) = storage[i]
  BY <1>5
<1> QED BY <1>6, <1>7, <1>8 DEF Advance

LEMMA WriteInv ==
  ASSUME Calm, JournalInv, NEW t \in Tabs, NEW next, Advance(next),
         \/ Commit(t, next) /\ Within(memory[t], storage)
         \/ Persist(t, next),
         \A i \in DOMAIN storage : next[i] # storage[i] => RefusedOnly(i, next[i]),
         task' \in [Tabs -> [intent : Intents, phase : Phases] \cup {None}],
         \A u \in Tabs : task'[u] \in {task[u], None},
         DOMAIN probe' = Tabs, \A u \in Tabs : probe'[u] \in {probe[u], None},
         UNCHANGED <<wallet, sent, nonce, chain, reorgs>>
  PROVE  JournalInv' /\ CanonicalKept
<1> DEFINE D == DOMAIN storage
<1>1. /\ storage' = [i \in D |-> Norm(next[i])]
      /\ memory' = [memory EXCEPT ![t] = storage']
      /\ storage' \in [D -> JournalRecords]
      /\ \A i \in D : storage'[i] # storage[i] =>
           next[i] # storage[i] /\ Advanced(i, storage[i], storage'[i])
  BY Stored DEF JournalInv
<1>2. D \subseteq Intents /\ storage \in [D -> JournalRecords]
  BY JournalFacts DEF JournalInv, StateTypes
<1>3. DOMAIN storage' = D /\ storage' \in Journals BY <1>1, <1>2, JournalIntro
<1>4. \A i \in D : RecordOK(i, storage'[i])
  BY <1>1 DEF Advanced, JournalInv, RecordsOK
<1>5. \A i \in D : storage'[i] \in JournalRecords /\ HashFacts(i, storage'[i])
  BY <1>4 DEF RecordOK
<1>6. Within(storage, storage')
  BY <1>1, <1>3 DEF Within, Behind, Advanced, JournalInv, StateTypes
<1>7. ASSUME NEW m, Within(m, storage) PROVE Within(m, storage')
  BY <1>3, <1>5, <1>6, <1>7, WithinTransitive DEF JournalInv, StateTypes
<1>8. Within(storage', storage') BY <1>3 DEF Within, Behind
<1>n. \A i : NoTask(i) => NoTask(i)' BY DEF NoTask
<1>a. StateTypes'
  <2>1. DOMAIN memory' = Tabs BY <1>1 DEF JournalInv, StateTypes
  <2> QED BY <1>3, <2>1 DEF JournalInv, StateTypes
<1>b. RecordsOK' BY <1>3, <1>4 DEF RecordsOK, RecordOK, ChainFacts, Evidence, MinedAt
<1>c. MemoryOK'
  <2> SUFFICES ASSUME NEW u \in Tabs, memory'[u] # None \/ task'[u] # None \/ probe'[u] # None
               PROVE  Within(memory'[u], storage')
    BY DEF MemoryOK
  <2>1. CASE u = t
    <3>1. memory'[t] = storage' BY <1>1 DEF JournalInv, StateTypes
    <3> QED BY <1>8, <2>1, <3>1
  <2>2. CASE u # t
    <3>1. memory'[u] = memory[u] BY <1>1, <2>2 DEF JournalInv, StateTypes
    <3>2. Within(memory[u], storage) BY <3>1 DEF JournalInv, MemoryOK
    <3> QED BY <1>7, <3>1, <3>2
  <2> QED BY <2>1, <2>2
<1>d. ProbesOK'
  <2> SUFFICES ASSUME NEW u \in Tabs, probe'[u] # None PROVE ProbeOK(probe[u])' BY DEF ProbesOK
  <2> DEFINE p == probe[u]
             i == p.intent
  <2>1. probe'[u] = p /\ ProbeOK(p) BY DEF JournalInv, ProbesOK
  <2>2. i \in D /\ p.record \in JournalRecords /\ Behind(p.record, storage[i])
    BY <2>1 DEF ProbeOK
  <2>3. Behind(p.record, storage'[i])
    <3>1. Behind(storage[i], storage'[i]) BY <1>6, <2>2 DEF Within
    <3>2. storage[i] \in JournalRecords BY <1>2, <2>2
    <3> HIDE DEF p, i
    <3> QED BY <1>5, <2>2, <3>1, <3>2, BehindTransitive
  <2>4. p.record = storage'[i] => p.record = storage[i]
    <3>1. storage[i] \in JournalRecords /\ storage'[i] \in JournalRecords BY <1>2, <1>5, <2>2
    <3>2. storage'[i] # storage[i] => Later(storage[i], storage'[i])
      BY <1>1, <2>2 DEF Advanced
    <3> HIDE DEF p, i
    <3> QED BY <2>2, <3>1, <3>2 DEF Behind, Later, JournalRecords
  <2>5. p' = probe'[u] OBVIOUS
  <2> QED BY <1>3, <2>1, <2>2, <2>3, <2>4 DEF ProbeOK, FoundOK, ReceiptTrue, BlockRead, BlockIsCanonical, ReportsFound
<1>e. TasksOK'
  <2>1. TasksOK BY DEF JournalInv
  <2> QED BY <2>1 DEF TasksOK
<1>f. WalletOK'
  <2>1. /\ \A i \in Intents : wallet'[i] # "none" <=> i \in DOMAIN storage'
        /\ \A i \in Intents : nonce'[i] # None <=> wallet'[i] = "approved"
        /\ \A i \in Intents : wallet'[i] = "approved" => Original(i) \in sent'
    BY <1>3 DEF JournalInv, WalletOK
  <2> SUFFICES ASSUME NEW i \in D
               PROVE  /\ storage'[i].status = "rejected" => wallet[i] = "rejected"
                      /\ storage'[i].status = "aborted" => wallet[i] = "begun" /\ NoTask(i)'
    BY <1>3, <2>1 DEF WalletOK
  <2>2. CASE storage'[i] = storage[i] BY <1>n, <2>2 DEF JournalInv, WalletOK
  <2>3. CASE storage'[i] # storage[i]
    <3>1. RefusedOnly(i, next[i]) BY <1>1, <2>3
    <3>2. storage'[i] = Norm(next[i]) /\ next[i] \in JournalRecords BY <1>1 DEF Advance
    <3>3. Norm(next[i]).status \in {next[i].status, "submitted"}
      BY <3>2 DEF Norm, JournalRecords
    <3> QED BY <3>1, <3>2, <3>3 DEF RefusedOnly
  <2> QED BY <2>2, <2>3
<1>g. NonceOK' BY DEF JournalInv, NonceOK, Pending
<1>h. ChainOK' BY DEF JournalInv, ChainOK
<1>i. KeysApart'
  <2> SUFFICES ASSUME NEW i \in D, NEW j \in Intents,
                      j # i, Key[j] = Key[i], storage'[i].activeHash = None,
                      storage'[i].status \notin {"rejected", "aborted"}
               PROVE  Past(i, j)'
    BY <1>3 DEF KeysApart
  <2>1. /\ storage[i].activeHash = None
        /\ storage[i].status \notin {"rejected", "aborted"}
        /\ storage'[i].expectedNonce = storage[i].expectedNonce
    BY <1>1 DEF Advanced, Later
  <2>2. Past(i, j) BY <2>1 DEF JournalInv, KeysApart
  <2> QED BY <1>n, <2>1, <2>2 DEF Past
<1>j. CanonicalKept BY <1>1, <1>3 DEF CanonicalKept, Advanced
<1> QED BY <1>a, <1>b, <1>c, <1>d, <1>e, <1>f, <1>g, <1>h, <1>i, <1>j DEF JournalInv

-----------------------------------------------------------------------------
(* What the writes make of a record.                                       *)

Successor(i, r, x) == x \in JournalRecords /\ Later(r, x) /\ Advanced(i, r, Norm(x))

LEMMA OutcomeSuccessor ==
  ASSUME NEW i, NEW r, NEW x, Outcome(i, r, x), r.status \notin {"rejected", "aborted"}
  PROVE  Successor(i, r, x)
<1>1. x \in JournalRecords /\ Later(r, x) BY DEF Outcome
<1>2. Later(r, Norm(x)) BY <1>1, NormFacts
<1>3. Norm(x).expectedNonce = x.expectedNonce BY <1>1 DEF Norm, JournalRecords
<1>4. x.status = "canonical" => Norm(x).status = "canonical"
  BY <1>1 DEF Norm, JournalRecords, Hashless
<1> QED BY <1>1, <1>2, <1>3, <1>4 DEF Outcome, Successor, Advanced

LEMMA UpdateAdvance ==
  ASSUME StateTypes, NEW i \in DOMAIN storage, NEW x, Successor(i, storage[i], x)
  PROVE  /\ Advance(Update(storage, i, x))
         /\ Update(storage, i, x)[i] = x
         /\ \A j \in DOMAIN storage : j # i => Update(storage, i, x)[j] = storage[j]
<1>1. storage \in [DOMAIN storage -> JournalRecords] BY JournalFacts DEF StateTypes
<1>2. x \in JournalRecords BY DEF Successor
<1>3. /\ Update(storage, i, x) \in [DOMAIN storage -> JournalRecords]
      /\ Update(storage, i, x)[i] = x
      /\ \A j \in DOMAIN storage : j # i => Update(storage, i, x)[j] = storage[j]
  BY <1>1, <1>2 DEF Update
<1> QED BY <1>3 DEF Advance, Successor

LEMMA NoAdvance ==
  ASSUME StateTypes
  PROVE  Advance(storage)
BY JournalFacts DEF StateTypes, Advance

(* x is r, refused or given up.                                            *)
GivesUp(r, st, x) ==
  /\ x.timed \in BOOLEAN /\ (r.timed => x.timed)
  /\ x = [r EXCEPT !.revision = r.revision + 1, !.status = st, !.timed = x.timed]

(* A record without a hash that is refused or given up.                    *)
LEMMA HashlessSuccessor ==
  ASSUME NEW i, NEW r, RecordOK(i, r), r.activeHash = None,
         r.status \notin {"rejected", "aborted"},
         NEW st \in {"unknown-submission", "rejected", "aborted"},
         NEW x, GivesUp(r, st, x)
  PROVE  Successor(i, r, x) /\ x.status = st
<1> DEFINE timed == x.timed
<1>t. timed \in BOOLEAN /\ (r.timed => timed) BY DEF GivesUp
<1>1. r \in JournalRecords BY DEF RecordOK
<1>2. r.revision \in Nat /\ r.revision + 1 \in Nat \ {0} BY <1>1 DEF JournalRecords
<1> DEFINE n == r.revision + 1
<1>3. x = [r EXCEPT !.revision = n, !.status = st, !.timed = timed] BY DEF GivesUp
<1>4. n \in Nat \ {0} /\ r.revision < n BY <1>2
<1> HIDE DEF n, timed
<1>5. x \in JournalRecords BY <1>t, <1>1, <1>3, <1>4 DEF JournalRecords, Statuses
<1>6. /\ x.revision = n /\ x.status = st /\ x.timed = timed
      /\ x.activeHash = None /\ x.actualNonce = None /\ x.receipt = None
      /\ x.replacedBy = r.replacedBy /\ HashesOf(x) = {} /\ HashesOf(r) = {}
      /\ x.compatible = None /\ x.expectedNonce = r.expectedNonce
      /\ x.confirmations = r.confirmations /\ x.finalized = r.finalized
      /\ r.actualNonce = None /\ r.receipt = None /\ r.compatible = None
  BY <1>1, <1>3 DEF RecordOK, StatusFacts, JournalRecords, HashesOf
<1>7. /\ ~(r.confirmations >= Confirmations) /\ ~r.finalized
      /\ r.status # "canonical"
  BY DEF RecordOK, StatusFacts, ChainFacts, Valid, Hashless
<1>8. Norm(x) = x BY <1>5, <1>6 DEF Norm, JournalRecords
<1>9. Later(r, x) BY <1>t, <1>4, <1>6 DEF Later
<1>10. HashFacts(i, x) BY <1>6 DEF HashFacts
<1>11. StatusFacts(x) BY <1>4, <1>6, <1>7 DEF StatusFacts, Valid, Hashless
<1>12. ChainFacts(i, x) BY <1>6, <1>7 DEF ChainFacts
<1>13. RecordOK(i, x) BY <1>5, <1>10, <1>11, <1>12 DEF RecordOK
<1>14. Advanced(i, r, x) BY <1>6, <1>7, <1>9, <1>13 DEF Advanced
<1> QED BY <1>5, <1>6, <1>8, <1>9, <1>14 DEF Successor

(* The wallet returned the hash of an intent whose record had none.        *)
LEMMA SubmittedSuccessor ==
  ASSUME NEW i \in Intents, NEW r, RecordOK(i, r), r.activeHash = None,
         r.status \notin {"rejected", "aborted"}, Original(i) \in sent, NEW x,
         x = [r EXCEPT !.revision = r.revision + 1, !.activeHash = Original(i),
                !.status = "submitted", !.timed = TRUE,
                !.replacedBy = [k \in {Original(i)} |-> None]]
  PROVE  Successor(i, r, x) /\ x.status = "submitted" /\ x.activeHash = Original(i)
<1> DEFINE h == Original(i)
           n == r.revision + 1
           links == [k \in {h} |-> None]
<1>1. r \in JournalRecords BY DEF RecordOK
<1>2. r.revision \in Nat /\ n \in Nat \ {0} /\ r.revision < n BY <1>1 DEF JournalRecords
<1>3. x = [r EXCEPT !.revision = n, !.activeHash = h, !.status = "submitted",
                    !.timed = TRUE, !.replacedBy = links] OBVIOUS
<1>h. h \in Hashes /\ h # None /\ h.of = i /\ h.kind = "original"
  BY NoneAssumption DEF Original, Hashes
<1>m. MatchesReviewed(i, h) BY <1>h DEF MatchesReviewed
<1>l. links \in Links
  <2>1. {h} \in SUBSET Hashes /\ links \in [{h} -> Hashes \cup {None}] BY <1>h
  <2> QED BY <2>1, LinksIntro
<1>d. DOMAIN links = {h} /\ links[h] = None OBVIOUS
<1>s. h \in sent OBVIOUS
<1> HIDE DEF n, links, h
<1>t. "submitted" \in Statuses BY DEF Statuses
<1>5. x \in JournalRecords BY <1>1, <1>2, <1>3, <1>h, <1>l, <1>t DEF JournalRecords
<1>6. /\ x.revision = n /\ x.status = "submitted" /\ x.timed = TRUE
      /\ x.activeHash = h /\ x.actualNonce = None /\ x.receipt = None
      /\ x.replacedBy = links /\ HashesOf(x) = {h} /\ HashesOf(r) = {}
      /\ x.compatible = None /\ x.expectedNonce = r.expectedNonce
      /\ x.confirmations = r.confirmations /\ x.finalized = r.finalized
      /\ r.actualNonce = None /\ r.receipt = None /\ r.compatible = None
  BY <1>1, <1>3, <1>d DEF RecordOK, StatusFacts, JournalRecords, HashesOf
<1>7. /\ ~(r.confirmations >= Confirmations) /\ ~r.finalized
      /\ r.status # "canonical"
  BY DEF RecordOK, StatusFacts, ChainFacts, Valid, Hashless
<1>8. Norm(x) = x BY <1>5, <1>6 DEF Norm, JournalRecords, Hashless
<1>9. Later(r, x) BY <1>2, <1>6 DEF Later
<1>10. HashFacts(i, x) BY <1>6, <1>d, <1>h, <1>m, NoneAssumption DEF HashFacts
<1>11. StatusFacts(x) BY <1>2, <1>6, <1>7, <1>h DEF StatusFacts, Valid, Hashless
<1>12. ChainFacts(i, x) BY <1>6, <1>7, <1>s DEF ChainFacts
<1>13. RecordOK(i, x) BY <1>5, <1>10, <1>11, <1>12 DEF RecordOK
<1>14. Advanced(i, r, x) BY <1>6, <1>7, <1>9, <1>13 DEF Advanced
<1> QED BY <1>5, <1>6, <1>8, <1>9, <1>14 DEF Successor, h

(* A record whose head could not be read.                                  *)
LEMMA DeferSuccessor ==
  ASSUME NEW i, NEW r, RecordOK(i, r),
         r.status \notin {"awaiting-wallet", "rejected", "aborted"}
  PROVE  /\ Successor(i, r, [r EXCEPT !.revision = @ + 1])
         /\ [r EXCEPT !.revision = @ + 1].status = r.status
<1> DEFINE o == [scanned |-> None]
<1>1. Base(r, o) = [r EXCEPT !.revision = @ + 1]
  BY DEF Base, Coalesce, RecordOK, JournalRecords
<1>2. Outcome(i, r, Base(r, o)) BY BaseOK
<1>3. r \in JournalRecords BY DEF RecordOK
<1> QED BY <1>1, <1>2, <1>3, OutcomeSuccessor DEF JournalRecords

(* recoverAwaitingWalletIntents gives up intents that await the wallet.    *)
LEMMA RecoveredAdvance ==
  ASSUME StateTypes, RecordsOK, NEW expired \in SUBSET Awaiting(storage)
  PROVE  /\ Advance(Recovered(storage, expired))
         /\ \A i \in DOMAIN storage :
              Recovered(storage, expired)[i] # storage[i] =>
                Recovered(storage, expired)[i].status = "unknown-submission"
<1> DEFINE next == Recovered(storage, expired)
<1>1. storage \in [DOMAIN storage -> JournalRecords] BY JournalFacts DEF StateTypes
<1>2. ASSUME NEW i \in expired
      PROVE  /\ i \in DOMAIN storage
             /\ Successor(i, storage[i], next[i])
             /\ next[i].status = "unknown-submission"
  <2> DEFINE r == storage[i]
  <2>1. i \in DOMAIN storage /\ r.status = "awaiting-wallet" BY DEF Awaiting
  <2>2. RecordOK(i, r) BY <2>1 DEF RecordsOK
  <2>3. r.activeHash = None BY <2>1, <2>2 DEF RecordOK, StatusFacts, Valid
  <2>4. next[i] = [r EXCEPT !.revision = r.revision + 1, !.status = "unknown-submission", !.timed = TRUE]
    BY <2>1 DEF Recovered
  <2>5. r.status \notin {"rejected", "aborted"} BY <2>1
  <2> DEFINE x == [r EXCEPT !.revision = r.revision + 1, !.status = "unknown-submission", !.timed = TRUE]
  <2>6. GivesUp(r, "unknown-submission", x) BY <2>2 DEF GivesUp, RecordOK, JournalRecords
  <2>7. Successor(i, r, x) /\ x.status = "unknown-submission"
    <3> HIDE DEF r, x
    <3> QED BY <2>2, <2>3, <2>5, <2>6, HashlessSuccessor
  <2> HIDE DEF next
  <2> QED BY <2>1, <2>4, <2>7
<1>3. \A i \in DOMAIN storage : i \notin expired => next[i] = storage[i] BY DEF Recovered
<1>4. DOMAIN next = DOMAIN storage /\ next = [i \in DOMAIN storage |-> next[i]] BY DEF Recovered
<1> HIDE DEF next
<1>5. next \in [DOMAIN storage -> JournalRecords] BY <1>1, <1>2, <1>3, <1>4 DEF Successor
<1>6. Advance(next) BY <1>2, <1>3, <1>5 DEF Advance, Successor
<1> QED BY <1>2, <1>3, <1>6 DEF next

-----------------------------------------------------------------------------
(* The steps of a tab.                                                     *)

LEMMA OpenInv ==
  ASSUME Calm, JournalInv, NEW t \in Tabs, Open(t)
  PROVE  JournalInv' /\ CanonicalKept
<1>1. StateTypes /\ RecordsOK BY DEF JournalInv
<1>2. Load = storage BY <1>1, LoadStorage
<1>3. PICK expired \in SUBSET Awaiting(storage) : Persist(t, Recovered(storage, expired))
  BY <1>2 DEF Open
<1> DEFINE next == Recovered(storage, expired)
<1>4. Advance(next) BY <1>1, RecoveredAdvance
<1>5. \A i \in DOMAIN storage : next[i] # storage[i] => RefusedOnly(i, next[i])
  BY <1>1, RecoveredAdvance DEF RefusedOnly
<1>6. UNCHANGED <<task, probe, wallet, sent, nonce, chain, reorgs>> BY DEF Open, chainVars
<1> HIDE DEF next
<1> QED BY <1>1, <1>3, <1>4, <1>5, <1>6, WriteInv DEF StateTypes, next

(* Tabs close, or tasks end without a write.                               *)
LEMMA ForgetInv ==
  ASSUME JournalInv, UNCHANGED <<storage, wallet, sent, nonce, chain, reorgs>>,
         DOMAIN memory' = Tabs, DOMAIN probe' = Tabs,
         task' \in [Tabs -> [intent : Intents, phase : Phases] \cup {None}],
         \A u \in Tabs : task'[u] \in {task[u], None} /\ probe'[u] \in {probe[u], None},
         \A u \in Tabs :
           memory'[u] # memory[u] => memory'[u] = None /\ task'[u] = None /\ probe'[u] = None
  PROVE  JournalInv' /\ CanonicalKept
<1>n. \A i : NoTask(i) => NoTask(i)' BY DEF NoTask
<1>a. StateTypes' BY DEF JournalInv, StateTypes
<1>b. RecordsOK' BY DEF JournalInv, RecordsOK, RecordOK, ChainFacts, Evidence, MinedAt
<1>c. MemoryOK'
  <2> SUFFICES ASSUME NEW u \in Tabs, memory'[u] # None \/ task'[u] # None \/ probe'[u] # None
               PROVE  Within(memory'[u], storage')
    BY DEF MemoryOK
  <2>1. memory'[u] = memory[u] OBVIOUS
  <2>2. memory[u] # None \/ task[u] # None \/ probe[u] # None BY <2>1
  <2> QED BY <2>1, <2>2 DEF JournalInv, MemoryOK
<1>d. ProbesOK'
  <2> SUFFICES ASSUME NEW u \in Tabs, probe'[u] # None PROVE ProbeOK(probe[u])' BY DEF ProbesOK
  <2>1. probe'[u] = probe[u] /\ ProbeOK(probe[u]) BY DEF JournalInv, ProbesOK
  <2> QED BY <2>1 DEF ProbeOK, FoundOK, ReceiptTrue, BlockRead, BlockIsCanonical, ReportsFound
<1>e. TasksOK'
  <2>1. TasksOK BY DEF JournalInv
  <2> QED BY <2>1 DEF TasksOK
<1>f. WalletOK' BY <1>n DEF JournalInv, WalletOK
<1>g. NonceOK' BY DEF JournalInv, NonceOK, Pending
<1>h. ChainOK' BY DEF JournalInv, ChainOK
<1>i. KeysApart' BY <1>n DEF JournalInv, KeysApart, Past
<1>j. CanonicalKept BY DEF CanonicalKept
<1> QED BY <1>a, <1>b, <1>c, <1>d, <1>e, <1>f, <1>g, <1>h, <1>i, <1>j DEF JournalInv

LEMMA CloseInv ==
  ASSUME JournalInv, NEW t \in Tabs, Close(t)
  PROVE  JournalInv' /\ CanonicalKept
<1>1. /\ memory' = [memory EXCEPT ![t] = None]
      /\ task' = [task EXCEPT ![t] = None]
      /\ probe' = [probe EXCEPT ![t] = None]
      /\ UNCHANGED <<storage, wallet, sent, nonce, chain, reorgs>>
  BY DEF Close, chainVars
<1>2. /\ DOMAIN memory = Tabs /\ DOMAIN probe = Tabs
      /\ task \in [Tabs -> [intent : Intents, phase : Phases] \cup {None}]
  BY DEF JournalInv, StateTypes
<1>3. /\ DOMAIN memory' = Tabs /\ DOMAIN probe' = Tabs
      /\ task' \in [Tabs -> [intent : Intents, phase : Phases] \cup {None}]
  <2> DEFINE R == [intent : Intents, phase : Phases]
  <2> HIDE DEF R
  <2> QED BY <1>1, <1>2 DEF R
<1>4. \A u \in Tabs : task'[u] \in {task[u], None} /\ probe'[u] \in {probe[u], None}
  BY <1>1, <1>2
<1>5. \A u \in Tabs :
        memory'[u] # memory[u] => memory'[u] = None /\ task'[u] = None /\ probe'[u] = None
  BY <1>1, <1>2
<1> QED BY <1>1, <1>3, <1>4, <1>5, ForgetInv

LEMMA ResultLostInv ==
  ASSUME JournalInv, NEW t \in Tabs, ResultLost(t)
  PROVE  JournalInv' /\ CanonicalKept
<1>1. /\ task' = [task EXCEPT ![t] = None]
      /\ UNCHANGED <<storage, memory, probe, wallet, sent, nonce, chain, reorgs>>
  BY DEF ResultLost, journalVars, chainVars
<1>2. /\ DOMAIN memory = Tabs /\ DOMAIN probe = Tabs
      /\ task \in [Tabs -> [intent : Intents, phase : Phases] \cup {None}]
  BY DEF JournalInv, StateTypes
<1>3. /\ DOMAIN memory' = Tabs /\ DOMAIN probe' = Tabs
      /\ task' \in [Tabs -> [intent : Intents, phase : Phases] \cup {None}]
  <2> DEFINE R == [intent : Intents, phase : Phases]
  <2> HIDE DEF R
  <2> QED BY <1>1, <1>2 DEF R
<1>4. \A u \in Tabs : task'[u] \in {task[u], None} /\ probe'[u] \in {probe[u], None}
  BY <1>1, <1>2
<1>5. \A u \in Tabs :
        memory'[u] # memory[u] => memory'[u] = None /\ task'[u] = None /\ probe'[u] = None
  BY <1>1, <1>2
<1> QED BY <1>1, <1>3, <1>4, <1>5, ForgetInv

LEMMA StorageEventInv ==
  ASSUME Calm, JournalInv, NEW t \in Tabs, StorageEvent(t)
  PROVE  JournalInv' /\ CanonicalKept
<1>1. StateTypes /\ RecordsOK BY DEF JournalInv
<1>2. Within(memory[t], storage) BY DEF JournalInv, MemoryOK, StorageEvent, Opened
<1>3. Current(t) = storage BY <1>1, <1>2, CurrentStorage
<1>4. Commit(t, storage) BY <1>3 DEF StorageEvent, Commit
<1>5. Advance(storage) BY <1>1, NoAdvance
<1>6. UNCHANGED <<task, probe, wallet, sent, nonce, chain, reorgs>> BY DEF StorageEvent, chainVars
<1> QED BY <1>1, <1>2, <1>4, <1>5, <1>6, WriteInv DEF StateTypes

LEMMA RecoverInv ==
  ASSUME Calm, JournalInv, NEW t \in Tabs, Recover(t)
  PROVE  JournalInv' /\ CanonicalKept
<1>1. StateTypes /\ RecordsOK BY DEF JournalInv
<1>2. Within(memory[t], storage) BY DEF JournalInv, MemoryOK, Recover, Opened
<1>3. Current(t) = storage BY <1>1, <1>2, CurrentStorage
<1>4. PICK expired \in SUBSET Awaiting(storage) : Commit(t, Recovered(storage, expired))
  BY <1>3 DEF Recover
<1> DEFINE next == Recovered(storage, expired)
<1>5. Advance(next) BY <1>1, RecoveredAdvance
<1>6. \A i \in DOMAIN storage : next[i] # storage[i] => RefusedOnly(i, next[i])
  BY <1>1, RecoveredAdvance DEF RefusedOnly
<1>7. UNCHANGED <<task, probe, wallet, sent, nonce, chain, reorgs>> BY DEF Recover, chainVars
<1> HIDE DEF next
<1> QED BY <1>1, <1>2, <1>4, <1>5, <1>6, <1>7, WriteInv DEF StateTypes, next

(* A wallet result that ends a task: the record is updated or left alone.  *)
LEMMA WalletWriteInv ==
  ASSUME Calm, JournalInv, NEW t \in Tabs, task[t] # None,
         NEW i \in Intents, NEW x, NEW next,
         \/ next = storage
         \/ /\ i \in DOMAIN storage /\ next = Update(storage, i, x)
            /\ Successor(i, storage[i], x) /\ RefusedOnly(i, x),
         Commit(t, next) \/ Persist(t, next),
         task' = [task EXCEPT ![t] = None],
         UNCHANGED <<probe, wallet, sent, nonce, chain, reorgs>>
  PROVE  JournalInv' /\ CanonicalKept
<1>1. StateTypes /\ Within(memory[t], storage) BY DEF JournalInv, MemoryOK
<1>2. /\ Advance(next)
      /\ \A j \in DOMAIN storage : next[j] # storage[j] => RefusedOnly(j, next[j])
  <2>1. CASE next = storage BY <1>1, <2>1, NoAdvance
  <2>2. CASE /\ i \in DOMAIN storage /\ next = Update(storage, i, x)
             /\ Successor(i, storage[i], x) /\ RefusedOnly(i, x)
    BY <1>1, <2>2, UpdateAdvance
  <2> QED BY <2>1, <2>2
<1>3. /\ task' \in [Tabs -> [intent : Intents, phase : Phases] \cup {None}]
      /\ \A u \in Tabs : task'[u] \in {task[u], None}
      /\ DOMAIN probe' = Tabs /\ \A u \in Tabs : probe'[u] \in {probe[u], None}
  BY <1>1 DEF StateTypes
<1> QED BY <1>1, <1>2, <1>3, WriteInv

(* What is known when the task of t has a result.                          *)
LEMMA TaskFacts ==
  ASSUME JournalInv, NEW t \in Tabs, task[t] # None
  PROVE  /\ task[t].intent \in Intents /\ task[t].phase \in Phases
         /\ task[t].intent \in DOMAIN storage
         /\ RecordOK(task[t].intent, storage[task[t].intent])
         /\ Current(t) = storage
<1>1. task[t].intent \in Intents /\ task[t].phase \in Phases BY DEF JournalInv, StateTypes
<1>2. wallet[task[t].intent] # "none" BY <1>1 DEF JournalInv, TasksOK, Phases
<1>3. task[t].intent \in DOMAIN storage BY <1>1, <1>2 DEF JournalInv, WalletOK
<1>4. Current(t) = storage BY CurrentStorage DEF JournalInv, MemoryOK
<1> QED BY <1>1, <1>3, <1>4 DEF JournalInv, RecordsOK

LEMMA AbortInv ==
  ASSUME Calm, JournalInv, NEW t \in Tabs, Abort(t)
  PROVE  JournalInv' /\ CanonicalKept
<1>0. PICK i, r, x :
        /\ i = task[t].intent /\ r = storage[i]
        /\ x = [[r EXCEPT !.status = "aborted"] EXCEPT !.revision = @ + 1]
  OBVIOUS
<1>1. /\ task[t] # None /\ task[t].phase = "begun"
      /\ task' = [task EXCEPT ![t] = None]
      /\ UNCHANGED <<probe, wallet, sent, nonce, chain, reorgs>>
  BY DEF Abort, InPhase, chainVars
<1>2. /\ i \in Intents /\ i \in DOMAIN storage /\ RecordOK(i, r) /\ Current(t) = storage
  BY <1>0, <1>1, TaskFacts
<1>3. GivesUp(r, "aborted", x) BY <1>0, <1>2 DEF GivesUp, RecordOK, JournalRecords
<1>4. PICK next : /\ Commit(t, next)
                  /\ next = IF r.revision = 0 /\ r.status = "awaiting-wallet"
                            THEN Update(storage, i, x) ELSE storage
  BY <1>0, <1>2 DEF Abort, WalletResult
<1>5. wallet[i] = "begun" /\ NoTask(i)'
  <2>1. TasksOK /\ task \in [Tabs -> [intent : Intents, phase : Phases] \cup {None}]
    BY DEF JournalInv, StateTypes
  <2> QED BY <1>0, <1>1, <2>1 DEF TasksOK, NoTask
<1>6. CASE next = storage BY <1>1, <1>2, <1>4, <1>6, WalletWriteInv
<1>7. CASE r.status = "awaiting-wallet" /\ next = Update(storage, i, x)
  <2>1. r.activeHash = None
    BY <1>2, <1>7 DEF RecordOK, StatusFacts, Valid, JournalRecords
  <2>2. Successor(i, r, x) /\ x.status = "aborted" BY <1>2, <1>3, <1>7, <2>1, HashlessSuccessor
  <2>3. RefusedOnly(i, x) BY <1>5, <2>2 DEF RefusedOnly
  <2> QED BY <1>0, <1>1, <1>2, <1>4, <1>7, <2>2, <2>3, WalletWriteInv
<1> QED BY <1>4, <1>6, <1>7

LEMMA FailRejectedInv ==
  ASSUME Calm, JournalInv, NEW t \in Tabs, FailRejected(t)
  PROVE  JournalInv' /\ CanonicalKept
<1>0. PICK i, r, x :
        /\ i = task[t].intent /\ r = storage[i]
        /\ x = [[r EXCEPT !.status = "rejected"] EXCEPT !.revision = @ + 1]
  OBVIOUS
<1>1. /\ task[t] # None /\ wallet[i] = "rejected"
      /\ task' = [task EXCEPT ![t] = None]
      /\ UNCHANGED <<probe, wallet, sent, nonce, chain, reorgs>>
  BY <1>0 DEF FailRejected, InPhase, chainVars
<1>2. /\ i \in Intents /\ i \in DOMAIN storage /\ RecordOK(i, r) /\ Current(t) = storage
  BY <1>0, <1>1, TaskFacts
<1>3. GivesUp(r, "rejected", x) BY <1>0, <1>2 DEF GivesUp, RecordOK, JournalRecords
<1>4. PICK next : /\ Commit(t, next)
                  /\ next = IF WalletResultAllowed(r) THEN Update(storage, i, x) ELSE storage
  BY <1>0, <1>2 DEF FailRejected, WalletResult
<1>5. CASE next = storage BY <1>1, <1>2, <1>4, <1>5, WalletWriteInv
<1>6. CASE WalletResultAllowed(r) /\ next = Update(storage, i, x)
  <2>1. /\ r.activeHash = None
        /\ r.status \notin {"rejected", "aborted"}
    BY <1>2, <1>6 DEF RecordOK, WalletResultAllowed, NeedsMonitoring, JournalRecords
  <2>2. Successor(i, r, x) /\ x.status = "rejected" BY <1>2, <1>3, <2>1, HashlessSuccessor
  <2>3. RefusedOnly(i, x) BY <1>1, <2>2 DEF RefusedOnly
  <2> QED BY <1>0, <1>1, <1>2, <1>4, <1>6, <2>2, <2>3, WalletWriteInv
<1> QED BY <1>4, <1>5, <1>6

LEMMA FailUnknownInv ==
  ASSUME Calm, JournalInv, NEW t \in Tabs, FailUnknown(t)
  PROVE  JournalInv' /\ CanonicalKept
<1>0. PICK i, r, x :
        /\ i = task[t].intent /\ r = storage[i]
        /\ x = [[r EXCEPT !.status = "unknown-submission", !.timed = TRUE] EXCEPT !.revision = @ + 1]
  OBVIOUS
<1>1. /\ task[t] # None /\ task' = [task EXCEPT ![t] = None]
      /\ UNCHANGED <<probe, wallet, sent, nonce, chain, reorgs>>
  BY DEF FailUnknown, InPhase, chainVars
<1>2. /\ i \in Intents /\ i \in DOMAIN storage /\ RecordOK(i, r) /\ Current(t) = storage
  BY <1>0, <1>1, TaskFacts
<1>3. GivesUp(r, "unknown-submission", x) BY <1>0, <1>2 DEF GivesUp, RecordOK, JournalRecords
<1>4. PICK next : /\ Commit(t, next)
                  /\ next = IF WalletResultAllowed(r) THEN Update(storage, i, x) ELSE storage
  BY <1>0, <1>2 DEF FailUnknown, WalletResult
<1>5. CASE next = storage BY <1>1, <1>2, <1>4, <1>5, WalletWriteInv
<1>6. CASE WalletResultAllowed(r) /\ next = Update(storage, i, x)
  <2>1. r.activeHash = None /\ r.status \notin {"rejected", "aborted"}
    BY <1>6 DEF WalletResultAllowed, NeedsMonitoring
  <2>2. Successor(i, r, x) /\ x.status = "unknown-submission" BY <1>2, <1>3, <2>1, HashlessSuccessor
  <2>3. RefusedOnly(i, x) BY <2>2 DEF RefusedOnly
  <2> QED BY <1>0, <1>1, <1>2, <1>4, <1>6, <2>2, <2>3, WalletWriteInv
<1> QED BY <1>4, <1>5, <1>6

(* The record of an intent whose hash h the wallet returned.               *)
Returned(r, h) ==
  [[r EXCEPT !.activeHash = h, !.status = "submitted", !.timed = TRUE,
      !.replacedBy = [k \in HashesOf(r) \cup {h} |->
                        IF k \in HashesOf(r) THEN @[k] ELSE None]]
   EXCEPT !.revision = @ + 1]

LEMMA SubmittedInv ==
  ASSUME Calm, JournalInv, NEW t \in Tabs, Submitted(t)
  PROVE  JournalInv' /\ CanonicalKept /\ storage'[task[t].intent].activeHash # None
<1>0. PICK i, r, h : i = task[t].intent /\ r = storage[i] /\ h = Original(i) OBVIOUS
<1>1. PICK x : x = Returned(r, h) OBVIOUS
<1>2. /\ task[t] # None /\ wallet[i] = "approved"
      /\ task' = [task EXCEPT ![t] = None]
      /\ UNCHANGED <<probe, wallet, sent, nonce, chain, reorgs>>
  BY <1>0 DEF Submitted, InPhase, chainVars
<1>3. /\ i \in Intents /\ i \in DOMAIN storage /\ RecordOK(i, r) /\ Current(t) = storage
  BY <1>0, <1>2, TaskFacts
<1>4. PICK next : /\ Persist(t, next)
                  /\ next = IF WalletResultAllowed(r) THEN Update(storage, i, x) ELSE storage
  <2>1. Persist(t, IF /\ task[t].intent \in DOMAIN Current(t)
                      /\ WalletResultAllowed(Current(t)[task[t].intent])
                   THEN Update(Current(t), task[t].intent,
                          Returned(Current(t)[task[t].intent], Original(task[t].intent)))
                   ELSE Current(t))
    BY DEF Submitted, WalletResult, Returned
  <2> QED BY <1>0, <1>1, <1>3, <2>1
<1>5. Original(i) \in sent /\ h = Original(i) BY <1>0, <1>2, <1>3 DEF JournalInv, WalletOK
<1>6. CASE WalletResultAllowed(r)
  <2>1. r.activeHash = None /\ r.status \notin {"rejected", "aborted"}
    BY <1>6 DEF WalletResultAllowed, NeedsMonitoring
  <2>2. HashesOf(r) = {} BY <1>3, <2>1 DEF RecordOK, StatusFacts
  <2>3. [k \in HashesOf(r) \cup {h} |-> IF k \in HashesOf(r) THEN r.replacedBy[k] ELSE None]
          = [k \in {h} |-> None]
    BY <2>2
  <2>4. x = [r EXCEPT !.revision = r.revision + 1, !.activeHash = h,
               !.status = "submitted", !.timed = TRUE,
               !.replacedBy = [k \in {h} |-> None]]
    BY <1>1, <1>3, <2>3 DEF Returned, RecordOK, JournalRecords
  <2>5. Successor(i, r, x) /\ x.status = "submitted" /\ x.activeHash = h
    BY <1>3, <1>5, <2>1, <2>4, SubmittedSuccessor
  <2>6. RefusedOnly(i, x) BY <2>5 DEF RefusedOnly
  <2>7. next = Update(storage, i, x) BY <1>4, <1>6
  <2>8. JournalInv' /\ CanonicalKept
    BY <1>0, <1>2, <1>3, <1>4, <2>5, <2>6, <2>7, WalletWriteInv
  <2>9. storage'[i].activeHash # None
    <3>1. Advance(next) /\ next[i] = x
      BY <1>0, <1>3, <2>5, <2>7, UpdateAdvance DEF JournalInv
    <3>2. storage'[i] = Norm(x) BY <1>3, <1>4, <3>1, Stored DEF JournalInv
    <3>3. Norm(x).activeHash = h BY <2>5 DEF Successor, Norm, JournalRecords
    <3>4. h # None BY <1>3, <1>5, NoneAssumption DEF Original, Hashes
    <3> QED BY <3>2, <3>3, <3>4
  <2> QED BY <1>0, <2>8, <2>9
<1>7. CASE ~WalletResultAllowed(r)
  <2>1. next = storage BY <1>4, <1>7
  <2>2. JournalInv' /\ CanonicalKept BY <1>2, <1>3, <1>4, <2>1, WalletWriteInv
  <2>3. storage' = storage
    <3>1. Advance(next) BY <2>1, NoAdvance DEF JournalInv
    <3>2. storage' = [j \in DOMAIN storage |-> Norm(storage[j])]
      BY <1>4, <2>1, <3>1, Stored DEF JournalInv
    <3>3. \A j \in DOMAIN storage : Norm(storage[j]) = storage[j]
      <4> SUFFICES ASSUME NEW j \in DOMAIN storage PROVE Norm(storage[j]) = storage[j] OBVIOUS
      <4>1. storage[j] \in JournalRecords /\ StatusFacts(storage[j])
        BY DEF JournalInv, RecordsOK, RecordOK
      <4> QED BY <4>1, NormalRecord
    <3>4. storage = [j \in DOMAIN storage |-> storage[j]]
      BY JournalFacts DEF JournalInv, StateTypes
    <3> QED BY <3>2, <3>3, <3>4
  <2>4. r.activeHash # None
    <3> SUFFICES ASSUME r.activeHash = None PROVE FALSE OBVIOUS
    <3>1. r.actualNonce = None
          /\ r.status \in Hashless \cup {"reconciling", "timed-out"}
      BY <1>3 DEF RecordOK, StatusFacts
    <3>2. r.status \notin {"rejected", "aborted"}
      BY <1>0, <1>2, <1>3 DEF JournalInv, WalletOK
    <3>3. NeedsMonitoring(r) BY <3>1, <3>2 DEF NeedsMonitoring, Hashless
    <3>4. r.revision = 0 <=> r.status = "awaiting-wallet" BY <1>3 DEF RecordOK, StatusFacts
    <3> QED BY <1>7, <3>1, <3>2, <3>3, <3>4 DEF WalletResultAllowed, Hashless
  <2> QED BY <1>0, <2>2, <2>3, <2>4
<1> QED BY <1>6, <1>7

(* Steps that leave the journal and the chain alone.                       *)
LEMMA JournalUnmoved ==
  ASSUME JournalInv, UNCHANGED <<storage, memory, sent, nonce, chain, reorgs>>
  PROVE  /\ RecordsOK' /\ NonceOK' /\ ChainOK' /\ CanonicalKept
         /\ probe' = probe => ProbesOK'
<1>1. RecordsOK' BY DEF JournalInv, RecordsOK, RecordOK, ChainFacts, Evidence, MinedAt
<1>2. NonceOK' BY DEF JournalInv, NonceOK, Pending
<1>3. ChainOK' BY DEF JournalInv, ChainOK
<1>4. CanonicalKept BY DEF CanonicalKept
<1>5. ASSUME probe' = probe PROVE ProbesOK'
  <2> SUFFICES ASSUME NEW u \in Tabs, probe'[u] # None PROVE ProbeOK(probe[u])' BY DEF ProbesOK
  <2>1. probe'[u] = probe[u] /\ ProbeOK(probe[u]) BY <1>5 DEF JournalInv, ProbesOK
  <2> QED BY <2>1 DEF ProbeOK, FoundOK, ReceiptTrue, BlockRead, BlockIsCanonical, ReportsFound
<1> QED BY <1>1, <1>2, <1>3, <1>4, <1>5

LEMMA SendInv ==
  ASSUME JournalInv, NEW t \in Tabs, Send(t)
  PROVE  JournalInv' /\ CanonicalKept
<1>0. PICK i : i = task[t].intent OBVIOUS
<1>1. /\ task[t] # None /\ task[t].phase = "begun"
      /\ task' = [task EXCEPT ![t].phase = "sending"]
      /\ wallet' = [wallet EXCEPT ![i] = "open"]
      /\ UNCHANGED <<storage, memory, probe, sent, nonce, chain, reorgs>>
  BY <1>0 DEF Send, InPhase, journalVars, chainVars
<1>2. StateTypes /\ TasksOK /\ WalletOK BY DEF JournalInv
<1>3. /\ i \in Intents /\ wallet[i] = "begun" /\ i \in DOMAIN storage
      /\ task[t] \in [intent : Intents, phase : Phases]
  BY <1>0, <1>1, <1>2 DEF StateTypes, TasksOK, WalletOK
<1>4. /\ task' \in [Tabs -> [intent : Intents, phase : Phases] \cup {None}]
      /\ \A u \in Tabs : u # t => task'[u] = task[u]
      /\ task'[t].intent = i /\ task'[t].phase = "sending"
  BY <1>0, <1>1, <1>2, <1>3 DEF StateTypes, Phases
<1>5. /\ wallet' \in [Intents -> WalletStates]
      /\ \A j \in Intents : wallet'[j] = IF j = i THEN "open" ELSE wallet[j]
  BY <1>1, <1>2 DEF StateTypes, WalletStates
<1>6. \A j : j # i /\ NoTask(j) => NoTask(j)' BY <1>4 DEF NoTask
<1>7. ~NoTask(i) BY <1>0, <1>1 DEF NoTask
<1>8. /\ RecordsOK' /\ NonceOK' /\ ChainOK' /\ CanonicalKept
      /\ ProbesOK'
  BY <1>1, JournalUnmoved
<1>a. StateTypes' BY <1>1, <1>2, <1>4, <1>5 DEF StateTypes
<1>c. MemoryOK'
  <2>1. \A u \in Tabs : task'[u] # None => task[u] # None BY <1>1, <1>4
  <2> QED BY <1>1, <2>1 DEF JournalInv, MemoryOK
<1>e. TasksOK' BY <1>0, <1>1, <1>2, <1>3, <1>4, <1>5 DEF TasksOK
<1>f. WalletOK' BY <1>1, <1>2, <1>3, <1>5, <1>6, <1>7 DEF WalletOK
<1>i. KeysApart'
  <2> SUFFICES ASSUME NEW k \in DOMAIN storage, NEW j \in Intents,
                      j # k, Key[j] = Key[k], storage[k].activeHash = None,
                      storage[k].status \notin {"rejected", "aborted"}
               PROVE  Past(k, j)'
    BY <1>1 DEF KeysApart
  <2>1. Past(k, j) BY DEF JournalInv, KeysApart
  <2>2. j # i BY <1>3, <1>7, <2>1 DEF Past
  <2> QED BY <1>1, <1>5, <1>6, <2>1, <2>2 DEF Past
<1> QED BY <1>8, <1>a, <1>c, <1>e, <1>f, <1>i DEF JournalInv

(* The nonces given out can be counted.                                    *)
LEMMA PendingFacts ==
  ASSUME JournalInv
  PROVE  /\ IsFiniteSet({i \in Intents : nonce[i] # None})
         /\ Pending \in Nat
<1>1. IsFiniteSet({i \in Intents : nonce[i] # None})
  BY FS_Subset, JournalAssumption
<1> QED BY <1>1, FS_CardinalityType DEF Pending

(* Blocks of the chain.                                                    *)
Blocks == [fork : Nat, tx : Hashes \cup {None}, ok : BOOLEAN]

LEMMA ChainFactsInv ==
  ASSUME JournalInv
  PROVE  /\ Len(chain) \in Nat \ {0} /\ chain \in Seq(Blocks)
         /\ \A n \in 1..Len(chain) : chain[n] \in Blocks
<1>1. chain \in Seq(Blocks) BY DEF JournalInv, StateTypes, Blocks
<1>2. Len(chain) \in Nat /\ \A n \in 1..Len(chain) : chain[n] \in Blocks
  <2> HIDE DEF Blocks
  <2> QED BY <1>1
<1>3. Len(chain) >= 1 BY DEF JournalInv, ChainOK
<1> QED BY <1>1, <1>2, <1>3

(* A new record is in order.                                               *)
LEMMA NewRecordOK ==
  ASSUME NEW i, NEW expected \in Nat, NEW block \in Nat \ {0}, NEW x,
         x = NewRecord(expected, block)
  PROVE  /\ RecordOK(i, x) /\ x.activeHash = None /\ x.status = "awaiting-wallet"
         /\ x.expectedNonce = expected /\ x \in JournalRecords /\ Norm(x) = x
<1> DEFINE links == [h \in {} |-> None]
<1>1. links \in Links /\ DOMAIN links = {}
  <2>1. {} \in SUBSET Hashes /\ links \in [{} -> Hashes \cup {None}] OBVIOUS
  <2> QED BY <2>1, LinksIntro
<1>2. block - 1 \in Nat OBVIOUS
<1>3. x = [status |-> "awaiting-wallet", revision |-> 0, activeHash |-> None,
           expectedNonce |-> expected, actualNonce |-> None, receipt |-> None,
           confirmations |-> 0, replacedBy |-> links,
           compatible |-> None, finalized |-> FALSE, timed |-> FALSE,
           scanCursor |-> block - 1, submissionBlock |-> block]
  BY DEF NewRecord
<1> HIDE DEF links
<1>4. x \in JournalRecords BY <1>1, <1>2, <1>3 DEF JournalRecords, Statuses
<1>5. /\ x.status = "awaiting-wallet" /\ x.revision = 0 /\ x.activeHash = None
      /\ x.actualNonce = None /\ x.receipt = None /\ x.compatible = None
      /\ HashesOf(x) = {} /\ x.confirmations = 0 /\ ~x.finalized
      /\ x.expectedNonce = expected
  BY <1>1, <1>3 DEF HashesOf
<1>6. HashFacts(i, x) BY <1>5 DEF HashFacts
<1>7. StatusFacts(x) BY <1>5 DEF StatusFacts, Valid, Hashless
<1>8. ChainFacts(i, x) BY <1>5, JournalAssumption DEF ChainFacts
<1> QED BY <1>4, <1>5, <1>6, <1>7, <1>8, NormalRecord DEF RecordOK

(* A record that no longer blocks its key shows that its intent is done:   *)
(* it was refused, or its nonce was used by a transaction deep enough.     *)
LEMMA ResolvedFacts ==
  ASSUME JournalInv, NEW j \in DOMAIN storage, Resolved(storage[j])
  PROVE  /\ OutOfTheWay(j, Confirmations)
         /\ storage[j].status \notin {"rejected", "aborted"} =>
              storage[j].activeHash # None /\ wallet[j] = "approved"
<1> DEFINE r == storage[j]
<1>1. RecordOK(j, r) /\ j \in Intents
  BY JournalFacts DEF JournalInv, RecordsOK, StateTypes
<1>2. CASE r.status \in {"rejected", "aborted"}
  <2>1. wallet[j] = "rejected" \/ (wallet[j] = "begun" /\ NoTask(j))
    BY <1>2 DEF JournalInv, WalletOK
  <2> QED BY <1>2, <2>1 DEF OutOfTheWay, NoTask
<1>3. CASE r.status \notin {"rejected", "aborted"}
  <2>1. r.confirmations >= Confirmations
    <3>1. CASE r.status = "canonical" BY <1>1, <3>1 DEF RecordOK, StatusFacts, Valid
    <3>2. CASE r.status = "reverted"
      BY <1>1, <1>3, <3>2, JournalAssumption DEF Resolved, RecordOK, JournalRecords
    <3>3. CASE r.status = "replaced"
      BY <1>1, <1>3, <3>3 DEF Resolved, RecordOK, StatusFacts, Valid
    <3> QED BY <1>3, <3>1, <3>2, <3>3 DEF Resolved
  <2>2. PICK n \in MinedAt(chain, r.activeHash) : Len(chain) - n + 1 >= r.confirmations
    BY <1>1, <2>1 DEF RecordOK, ChainFacts, Evidence
  <2>3. r.activeHash # None /\ r.activeHash.of = j
    BY <1>1, <2>1 DEF RecordOK, ChainFacts, StatusFacts, HashFacts
  <2>4. n \in 1..Len(chain) /\ chain[n].tx = r.activeHash BY <2>2 DEF MinedAt
  <2>5. Len(chain) - n + 1 >= Confirmations
    <3>1. Len(chain) \in Nat BY DEF JournalInv, StateTypes
    <3> QED BY <1>1, <2>1, <2>2, <2>4, <3>1, JournalAssumption DEF RecordOK, JournalRecords
  <2>6. Settled(j, Confirmations) BY <2>3, <2>4, <2>5 DEF Settled
  <2>7. r.activeHash \in sent BY <1>1, <2>3 DEF RecordOK, ChainFacts, HashFacts
  <2>8. wallet[j] = "approved"
    BY <1>1, <2>3, <2>7 DEF JournalInv, NonceOK, WalletOK
  <2> QED BY <2>3, <2>6, <2>8 DEF OutOfTheWay
<1> QED BY <1>2, <1>3

LEMMA BeginInv ==
  ASSUME Calm, JournalInv, NEW t \in Tabs, NEW i \in Intents, Begin(t, i)
  PROVE  JournalInv' /\ CanonicalKept
<1> DEFINE D == DOMAIN storage
           new == NewRecord(Pending, Len(chain))
           next == [j \in D \cup {i} |-> IF j = i THEN new ELSE storage[j]]
<1>1. /\ memory[t] # None /\ task[t] = None /\ wallet[i] = "none"
      /\ task' = [task EXCEPT ![t] = [intent |-> i, phase |-> "begun"]]
      /\ wallet' = [wallet EXCEPT ![i] = "begun"]
      /\ UNCHANGED <<probe, sent, nonce, chain, reorgs>>
  BY DEF Begin, Opened, chainVars
<1>2. StateTypes /\ RecordsOK /\ TasksOK /\ WalletOK BY DEF JournalInv
<1>3. /\ storage \in Journals /\ D \subseteq Intents /\ storage \in [D -> JournalRecords]
      /\ i \notin D
  BY <1>1, <1>2, JournalFacts DEF StateTypes, WalletOK
<1>4. Current(t) = storage
  BY <1>1, <1>2, CurrentStorage DEF JournalInv, MemoryOK
<1>5. ~RetryBlocked(storage, i) /\ Persist(t, next) BY <1>4 DEF Begin
<1>6. \A k : /\ RecordOK(k, new) /\ new.activeHash = None /\ new.status = "awaiting-wallet"
             /\ new.expectedNonce = Pending /\ new \in JournalRecords /\ Norm(new) = new
  <2>1. Pending \in Nat /\ Len(chain) \in Nat \ {0}
    BY PendingFacts, ChainFactsInv
  <2> QED BY <2>1, NewRecordOK
<1> HIDE DEF new
<1>7. next \in [D \cup {i} -> JournalRecords] /\ next \in Journals /\ DOMAIN next = D \cup {i}
  <2>1. next \in [D \cup {i} -> JournalRecords] BY <1>3, <1>6
  <2>2. D \cup {i} \in SUBSET Intents BY <1>3
  <2> QED BY <2>1, <2>2, JournalIntro
<1>8. next[i] = new /\ \A j \in D : next[j] = storage[j] BY <1>3
<1> HIDE DEF next
<1>9. Within(storage, next) BY <1>3, <1>7, <1>8 DEF Within, Behind
<1>10. \A j \in D : Norm(storage[j]) = storage[j]
  <2> SUFFICES ASSUME NEW j \in D PROVE Norm(storage[j]) = storage[j] OBVIOUS
  <2>1. storage[j] \in JournalRecords /\ StatusFacts(storage[j]) BY <1>2 DEF RecordsOK, RecordOK
  <2> QED BY <2>1, NormalRecord
<1>11. storage' = next /\ memory' = [memory EXCEPT ![t] = next]
  <2>1. Merge(storage, next) =
          [j \in DOMAIN next |-> IF j \in D THEN Norm(next[j]) ELSE next[j]]
    BY <1>7, <1>9, MergeWithin
  <2>2. next = [j \in DOMAIN next |-> next[j]] BY <1>7
  <2>3. Merge(storage, next) = next BY <1>8, <1>10, <2>1, <2>2
  <2> QED BY <1>2, <1>5, <2>3, LoadStorage DEF Persist
<1>12. /\ DOMAIN storage' = D \cup {i} /\ storage'[i] = new
       /\ \A j \in D : storage'[j] = storage[j]
  BY <1>7, <1>8, <1>11
<1>13. /\ task' \in [Tabs -> [intent : Intents, phase : Phases] \cup {None}]
       /\ \A u \in Tabs : u # t => task'[u] = task[u]
       /\ task'[t].intent = i /\ task'[t].phase = "begun"
  BY <1>1, <1>2 DEF StateTypes, Phases
<1>14. /\ wallet' \in [Intents -> WalletStates]
       /\ \A j \in Intents : wallet'[j] = IF j = i THEN "begun" ELSE wallet[j]
  BY <1>1, <1>2 DEF StateTypes, WalletStates
<1>15. \A j : j # i /\ NoTask(j) => NoTask(j)' BY <1>13 DEF NoTask
<1>16. \A u \in Tabs : task[u] # None => task[u].intent \in D /\ task[u].intent # i
  BY <1>3, TaskFacts
<1>a. StateTypes'
  <2>1. storage' \in Journals BY <1>7, <1>11
  <2>2. DOMAIN memory' = Tabs BY <1>2, <1>11 DEF StateTypes
  <2> QED BY <1>1, <1>2, <1>13, <1>14, <2>1, <2>2 DEF StateTypes
<1>b. RecordsOK'
  <2>1. \A j \in D \cup {i} : RecordOK(j, storage'[j]) BY <1>2, <1>6, <1>12 DEF RecordsOK
  <2> QED BY <1>1, <1>12, <2>1 DEF RecordsOK, RecordOK, ChainFacts, Evidence, MinedAt
<1>c. MemoryOK'
  <2> SUFFICES ASSUME NEW u \in Tabs, memory'[u] # None \/ task'[u] # None \/ probe'[u] # None
               PROVE  Within(memory'[u], storage')
    BY DEF MemoryOK
  <2>1. CASE u = t
    <3>1. memory'[t] = next BY <1>2, <1>11 DEF StateTypes
    <3> QED BY <1>7, <1>11, <2>1, <3>1 DEF Within, Behind
  <2>2. CASE u # t
    <3>1. memory'[u] = memory[u] /\ task'[u] = task[u] /\ probe'[u] = probe[u]
      BY <1>1, <1>2, <1>11, <1>13, <2>2 DEF StateTypes
    <3>2. Within(memory[u], storage) BY <3>1 DEF JournalInv, MemoryOK
    <3> QED BY <1>12, <3>1, <3>2 DEF Within
  <2> QED BY <2>1, <2>2
<1>d. ProbesOK'
  <2> SUFFICES ASSUME NEW u \in Tabs, probe'[u] # None PROVE ProbeOK(probe[u])' BY DEF ProbesOK
  <2>1. probe'[u] = probe[u] /\ ProbeOK(probe[u]) BY <1>1 DEF JournalInv, ProbesOK
  <2>2. storage'[probe[u].intent] = storage[probe[u].intent] /\ probe[u].intent \in DOMAIN storage'
    BY <1>12, <2>1 DEF ProbeOK
  <2> QED BY <1>1, <2>1, <2>2 DEF ProbeOK, FoundOK, ReceiptTrue, BlockRead, BlockIsCanonical, ReportsFound
<1>e. TasksOK'
  <2> SUFFICES ASSUME NEW u \in Tabs, task'[u] # None
               PROVE  /\ task'[u].phase = "begun" => wallet'[task'[u].intent] = "begun"
                      /\ task'[u].phase = "sending" =>
                           wallet'[task'[u].intent] \in {"open", "approved", "rejected"}
                      /\ \A v \in Tabs : u # v /\ task'[v] # None => task'[u].intent # task'[v].intent
    BY DEF TasksOK
  <2>1. CASE u = t BY <1>13, <1>14, <1>16, <2>1
  <2>2. CASE u # t
    <3>1. task'[u] = task[u] /\ task[u].intent \in Intents
      BY <1>3, <1>13, <1>16, <2>2
    <3>2. wallet'[task[u].intent] = wallet[task[u].intent] BY <1>14, <1>16, <2>2, <3>1
    <3> QED BY <1>2, <1>13, <1>16, <2>2, <3>1, <3>2 DEF TasksOK
  <2> QED BY <2>1, <2>2
<1>f. WalletOK'
  <2>1. \A j \in Intents : wallet'[j] # "none" <=> j \in DOMAIN storage'
    BY <1>2, <1>12, <1>14 DEF WalletOK
  <2>2. \A j \in Intents : nonce'[j] # None <=> wallet'[j] = "approved"
    BY <1>1, <1>2, <1>14 DEF WalletOK
  <2>3. \A j \in Intents : wallet'[j] = "approved" => Original(j) \in sent'
    BY <1>1, <1>2, <1>14 DEF WalletOK
  <2>4. ASSUME NEW j \in DOMAIN storage'
        PROVE  /\ storage'[j].status = "rejected" => wallet'[j] = "rejected"
               /\ storage'[j].status = "aborted" => wallet'[j] = "begun" /\ NoTask(j)'
    <3>1. CASE j = i BY <1>6, <1>12, <3>1
    <3>2. CASE j # i
      <4>1. j \in D /\ j \in Intents /\ storage'[j] = storage[j] BY <1>3, <1>12, <3>2
      <4>2. wallet'[j] = wallet[j] BY <1>14, <3>2, <4>1
      <4> QED BY <1>2, <1>15, <3>2, <4>1, <4>2 DEF WalletOK
    <3> QED BY <3>1, <3>2
  <2> QED BY <2>1, <2>2, <2>3, <2>4 DEF WalletOK
<1>g. NonceOK' BY <1>1 DEF JournalInv, NonceOK, Pending
<1>h. ChainOK' BY <1>1 DEF JournalInv, ChainOK
<1>i. KeysApart'
  <2> SUFFICES ASSUME NEW k \in D \cup {i}, NEW j \in Intents,
                      j # k, Key[j] = Key[k], storage'[k].activeHash = None,
                      storage'[k].status \notin {"rejected", "aborted"}
               PROVE  Past(k, j)'
    BY <1>12 DEF KeysApart
  <2>1. \A m \in D : Key[m] = Key[i] => Resolved(storage[m]) BY <1>5 DEF RetryBlocked
  <2>2. CASE k = i
    <3>1. wallet'[j] = wallet[j] BY <1>14, <2>2
    <3>2. CASE j \notin D
      <4>1. wallet[j] = "none" BY <1>2, <3>2 DEF WalletOK
      <4> QED BY <3>1, <4>1 DEF Past
    <3>3. CASE j \in D /\ storage[j].status \in {"rejected", "aborted"}
      <4>1. wallet[j] = "rejected" \/ (wallet[j] = "begun" /\ NoTask(j))
        BY <1>2, <3>3 DEF WalletOK
      <4> QED BY <1>15, <2>2, <3>1, <4>1 DEF Past
    <3>4. CASE j \in D /\ storage[j].status \notin {"rejected", "aborted"}
      <4>1. wallet[j] = "approved" BY <2>1, <2>2, <3>4, ResolvedFacts
      <4>2. nonce[j] # None BY <1>2, <4>1 DEF WalletOK
      <4>3. nonce[j] < Pending BY <4>2 DEF JournalInv, NonceOK
      <4> QED BY <1>1, <1>6, <1>12, <2>2, <3>1, <4>1, <4>3 DEF Past
    <3> QED BY <3>2, <3>3, <3>4
  <2>3. CASE k # i
    <3>1. k \in D /\ storage'[k] = storage[k] BY <1>12, <2>3
    <3>2. j # i
      <4> SUFFICES ASSUME j = i PROVE FALSE OBVIOUS
      <4>1. Resolved(storage[k]) BY <2>1, <3>1
      <4> QED BY <3>1, <4>1, ResolvedFacts
    <3>3. Past(k, j) BY <3>1 DEF JournalInv, KeysApart
    <3>4. wallet'[j] = wallet[j] BY <1>14, <3>2
    <3> QED BY <1>1, <1>15, <3>1, <3>2, <3>3, <3>4 DEF Past
  <2> QED BY <2>2, <2>3
<1>j. CanonicalKept BY <1>12 DEF CanonicalKept
<1> QED BY <1>a, <1>b, <1>c, <1>d, <1>e, <1>f, <1>g, <1>h, <1>i, <1>j DEF JournalInv

-----------------------------------------------------------------------------
(* Observations of the chain.                                              *)

(* Steps of an observation that only read.                                 *)
LEMMA ProbeInv ==
  ASSUME JournalInv, NEW t \in Tabs, NEW p, ProbeOK(p),
         memory[t] # None \/ probe[t] # None,
         probe' = [probe EXCEPT ![t] = p],
         UNCHANGED <<storage, memory, task, wallet, sent, nonce, chain, reorgs>>
  PROVE  JournalInv' /\ CanonicalKept
<1>1. /\ DOMAIN probe' = Tabs /\ probe'[t] = p
      /\ \A u \in Tabs : u # t => probe'[u] = probe[u]
  BY DEF JournalInv, StateTypes
<1>2. RecordsOK' /\ NonceOK' /\ ChainOK' /\ CanonicalKept BY JournalUnmoved
<1>a. StateTypes' BY <1>1 DEF JournalInv, StateTypes
<1>c. MemoryOK'
  <2> SUFFICES ASSUME NEW u \in Tabs, memory'[u] # None \/ task'[u] # None \/ probe'[u] # None
               PROVE  Within(memory[u], storage)
    BY DEF MemoryOK
  <2> QED BY <1>1 DEF JournalInv, MemoryOK
<1>d. ProbesOK'
  <2> SUFFICES ASSUME NEW u \in Tabs, probe'[u] # None PROVE ProbeOK(probe[u])' BY DEF ProbesOK
  <2>1. PICK q : q = probe'[u] OBVIOUS
  <2>2. ProbeOK(q) BY <1>1, <2>1 DEF JournalInv, ProbesOK
  <2>3. ASSUME q.found # None, q.record = storage[q.intent]
        PROVE  FoundOK(q.intent, q.record, q.head, q.found)'
    BY <2>2, <2>3 DEF ProbeOK, FoundOK, ReceiptTrue
  <2>4. ASSUME q.observed # None, q.record = storage[q.intent]
        PROVE  BlockRead(q.record, q.observed)'
    BY <2>2, <2>4 DEF ProbeOK, BlockRead
  <2> QED BY <2>1, <2>2, <2>3, <2>4 DEF ProbeOK, ReportsFound
<1>e. TasksOK' BY DEF JournalInv, TasksOK
<1>f. WalletOK' BY DEF JournalInv, WalletOK, NoTask
<1>i. KeysApart' BY DEF JournalInv, KeysApart, Past, NoTask
<1> QED BY <1>2, <1>a, <1>c, <1>d, <1>e, <1>f, <1>i DEF JournalInv

LEMMA StartProbeInv ==
  ASSUME JournalInv, NEW t \in Tabs, NEW i \in Intents, StartProbe(t, i)
  PROVE  JournalInv' /\ CanonicalKept
<1>1. PICK p : p = [intent |-> i, record |-> memory[t][i], head |-> Len(chain),
               found |-> None, observed |-> None]
  OBVIOUS
<1>2. /\ memory[t] # None /\ i \in DOMAIN memory[t]
      /\ memory[t][i].status \notin {"rejected", "aborted"}
      /\ probe' = [probe EXCEPT ![t] = p]
      /\ UNCHANGED <<storage, memory, task, wallet, sent, nonce, chain, reorgs>>
  BY <1>1 DEF StartProbe, Opened, journalVars, chainVars
<1>3. Within(memory[t], storage) BY <1>2 DEF JournalInv, MemoryOK
<1>4. memory[t][i] \in JournalRecords /\ i \in DOMAIN storage /\ Behind(memory[t][i], storage[i])
  BY <1>2, <1>3, JournalFacts DEF Within
<1>5. /\ DOMAIN p = {"intent", "record", "head", "found", "observed"}
      /\ p.intent = i /\ p.record = memory[t][i] /\ p.head = Len(chain)
      /\ p.found = None /\ p.observed = None
  BY <1>1
<1>6. p.head \in 1..Len(chain) BY <1>5, ChainFactsInv
<1>7. ProbeOK(p) BY <1>2, <1>4, <1>5, <1>6 DEF ProbeOK
<1> QED BY <1>2, <1>7, ProbeInv

(* A nonce is used once.                                                   *)
LEMMA MinedOnce ==
  ASSUME JournalInv, NEW n \in 1..Len(chain), NEW m \in 1..Len(chain),
         chain[n].tx # None, chain[m].tx # None,
         nonce[chain[n].tx.of] = nonce[chain[m].tx.of]
  PROVE  n = m
<1> DEFINE Before(k) == Earlier(chain, k)
<1>1. Len(chain) \in Nat BY ChainFactsInv
<1>2. ASSUME NEW a \in 1..Len(chain), NEW b \in 1..Len(chain), a < b, chain[a].tx # None
      PROVE  Cardinality(Before(a)) # Cardinality(Before(b))
  <2>1. IsFiniteSet(Before(b))
    <3>1. IsFiniteSet(1..(b - 1)) BY <1>1, FS_Interval
    <3> QED BY <3>1, FS_Subset DEF Earlier
  <2>2. Before(a) \subseteq Before(b) BY <1>1, <1>2 DEF Earlier
  <2>3. a \in Before(b) /\ a \notin Before(a) BY <1>1, <1>2 DEF Earlier
  <2> HIDE DEF Before
  <2> QED BY <2>1, <2>2, <2>3, FS_Subset
<1>3. Cardinality(Before(n)) = Cardinality(Before(m)) BY DEF JournalInv, ChainOK
<1> HIDE DEF Before
<1> QED BY <1>1, <1>2, <1>3

LEMMA ReceiptOfFacts ==
  ASSUME JournalInv, NEW h \in Hashes, NEW rl \in ReceiptLookups(h), NEW c, c = ReceiptOf(h, rl)
  PROVE  /\ rl \in {"found", "missing", "unavailable"}
         /\ rl # "found" => c = None
         /\ Mined(chain, h) => rl # "missing"
         /\ rl = "found" =>
              /\ c # None /\ c.hash = h /\ ReceiptTrue(Len(chain), c)
              /\ c.block \in MinedAt(chain, h)
              /\ c.ok = chain[c.block].ok /\ c.fork = chain[c.block].fork
<1>1. rl \in {"found", "missing", "unavailable"} /\ (Mined(chain, h) => rl # "missing")
  BY DEF ReceiptLookups, Failure
<1>2. rl # "found" => c = None BY DEF ReceiptOf
<1>3. ASSUME rl = "found"
      PROVE  /\ c # None /\ c.hash = h /\ ReceiptTrue(Len(chain), c)
             /\ c.block \in MinedAt(chain, h)
             /\ c.ok = chain[c.block].ok /\ c.fork = chain[c.block].fork
  <2> DEFINE n == CHOOSE m \in MinedAt(chain, h) : TRUE
  <2>1. Mined(chain, h) BY <1>3 DEF ReceiptLookups, Failure
  <2>2. n \in MinedAt(chain, h) BY <2>1 DEF Mined
  <2>3. c = [hash |-> h, ok |-> chain[n].ok, block |-> n, fork |-> chain[n].fork]
    BY <1>3 DEF ReceiptOf
  <2> HIDE DEF n
  <2>4. n \in 1..Len(chain) /\ chain[n].tx = h BY <2>2 DEF MinedAt
  <2>5. Len(chain) \in Nat /\ chain[n] \in Blocks BY <2>4, ChainFactsInv
  <2>6. chain[n].fork \in Nat /\ chain[n].ok \in BOOLEAN BY <2>5 DEF Blocks
  <2>7. chain[n].fork \in 0..reorgs
    BY <2>4, <2>6 DEF JournalInv, ChainOK, StateTypes
  <2>8. c \in MinedReceipts BY <2>3, <2>4, <2>5, <2>6 DEF MinedReceipts
  <2>9. c # None BY <2>8, NoneAssumption
  <2> QED BY <2>2, <2>3, <2>4, <2>6, <2>7, <2>9 DEF ReceiptTrue
<1> QED BY <1>1, <1>2, <1>3

(* What a scan matches is a transaction of the intent.                     *)
LEMMA MatchFacts ==
  ASSUME JournalInv, NEW i \in DOMAIN storage, NEW r, r = storage[i],
         r.status \notin {"rejected", "aborted"},
         r.activeHash # None => r.actualNonce # None,
         NEW upto \in Nat, upto <= Len(chain) \/ upto <= r.scanCursor,
         NEW n \in Matches(i, r, upto, r.activeHash = None), NEW h, h = chain[n].tx
  PROVE  /\ n \in 1..Len(chain) /\ h # None /\ h \in sent /\ h \in Hashes
         /\ h.of = i /\ Mined(chain, h)
         /\ r.activeHash = None => MatchesReviewed(i, h) /\ nonce[h.of] = r.expectedNonce
<1>1. RecordOK(i, r) /\ r \in JournalRecords BY DEF JournalInv, RecordsOK, RecordOK
<1>2. r.scanCursor \in Nat BY <1>1 DEF JournalRecords
<1> DEFINE N == Coalesce(r.actualNonce, r.expectedNonce)
<1>3. \A m \in Matches(i, r, upto, r.activeHash = None) :
        /\ m \in 1..Len(chain) /\ chain[m].tx # None /\ nonce[chain[m].tx.of] = N
        /\ r.activeHash = None => MatchesReviewed(i, chain[m].tx)
  BY <1>2, ChainFactsInv DEF Matches
<1> HIDE DEF N
<1>4. h \in sent /\ h \in Hashes
  <2>1. h \in sent BY <1>3 DEF JournalInv, ChainOK
  <2> QED BY <2>1 DEF JournalInv, StateTypes
<1>5. h.of \in Intents /\ nonce[h.of] # None BY <1>4 DEF Hashes, JournalInv, NonceOK
<1>6. ASSUME r.activeHash = None
      PROVE  h.of = i /\ MatchesReviewed(i, h) /\ nonce[h.of] = r.expectedNonce
  <2>1. N = r.expectedNonce BY <1>1, <1>6 DEF N, Coalesce, RecordOK, StatusFacts
  <2>2. MatchesReviewed(i, h) /\ nonce[h.of] = r.expectedNonce BY <1>3, <1>6, <2>1
  <2>3. h.of = i
    <3> SUFFICES ASSUME h.of # i PROVE FALSE OBVIOUS
    <3>1. Past(i, h.of) BY <1>5, <1>6, <2>2 DEF JournalInv, KeysApart, MatchesReviewed
    <3>2. wallet[h.of] = "approved" BY <1>5 DEF JournalInv, WalletOK
    <3>3. nonce[h.of] < r.expectedNonce BY <3>1, <3>2 DEF Past
    <3>4. r.expectedNonce \in Nat BY <1>1 DEF JournalRecords
    <3> QED BY <2>2, <3>3, <3>4
  <2> QED BY <2>2, <2>3
<1>7. ASSUME r.activeHash # None PROVE h.of = i
  <2>1. N = nonce[i] BY <1>1, <1>7 DEF N, Coalesce, RecordOK, ChainFacts
  <2>2. i \in Intents BY JournalFacts DEF JournalInv, StateTypes
  <2>3. h.of = i BY <1>3, <1>5, <2>1, <2>2 DEF JournalInv, NonceOK
  <2> QED BY <2>3
<1>8. Mined(chain, h) BY <1>3 DEF Mined, MinedAt
<1> QED BY <1>3, <1>4, <1>6, <1>7, <1>8

(* What a scan makes of lookups that found no receipt.                     *)
LEMMA ScannedOK ==
  ASSUME JournalInv, NEW p, ProbeOK(p), p.found = None, p.record = storage[p.intent],
         p.record.activeHash # None => p.record.actualNonce # None,
         p.record.confirmations < Confirmations,
         NEW tx, NEW tl, NEW before, before = Found(tx, tl, None, "missing", None),
         FoundOK(p.intent, p.record, p.head, before),
         NEW f \in Scanned(p, before)
  PROVE  FoundOK(p.intent, p.record, p.head, f)
<1> DEFINE i == p.intent
           r == p.record
<1>1. /\ i \in DOMAIN storage /\ r = storage[i] /\ r \in JournalRecords /\ RecordOK(i, r)
      /\ r.status \notin {"rejected", "aborted"} /\ p.head = Len(chain)
      /\ r.activeHash # None => r.actualNonce # None
  BY DEF ProbeOK, JournalInv, RecordsOK
<1>2. r.scanCursor \in Nat /\ r.confirmations \in Nat BY <1>1 DEF JournalRecords
<1>l. Len(chain) \in Nat \ {0} BY ChainFactsInv
<1>3. PICK upto \in ScanEnds(p) : f \in ScannedTo(p, before, upto) BY DEF Scanned
<1>4. upto \in Nat /\ (upto <= Len(chain) \/ upto <= r.scanCursor)
  BY <1>1, <1>2, <1>3, <1>l DEF ScanEnds
<1> DEFINE matches == Matches(i, r, upto, r.activeHash = None)
           first == CHOOSE n \in matches : \A m \in matches : n <= m
           h == chain[first].tx
<1>5. \/ matches = {} /\ f = [before EXCEPT !.scanned = upto]
      \/ /\ matches # {} /\ h = r.activeHash
         /\ f = [before EXCEPT !.tx = h, !.txLookup = "found", !.scanned = first]
      \/ /\ matches # {} /\ h # r.activeHash
         /\ \E rl \in ReceiptLookups(h) : f = Found(h, "found", ReceiptOf(h, rl), rl, first)
  BY <1>3 DEF ScannedTo
<1>6. ASSUME matches # {}
      PROVE  /\ first \in Nat /\ h # None /\ h \in sent /\ h \in Hashes
             /\ h.of = i /\ Mined(chain, h)
             /\ r.activeHash = None => MatchesReviewed(i, h) /\ nonce[h.of] = r.expectedNonce
  <2> HIDE DEF i, r
  <2>1. PICK n \in matches : TRUE BY <1>6
  <2>2. ASSUME NEW m \in matches PROVE m = n
    <3>1. n \in 1..Len(chain) /\ chain[n].tx # None /\ chain[n].tx.of = i
      BY <1>1, <1>4, <2>1, MatchFacts
    <3>2. m \in 1..Len(chain) /\ chain[m].tx # None /\ chain[m].tx.of = i
      BY <1>1, <1>4, <2>2, MatchFacts
    <3> QED BY <3>1, <3>2, MinedOnce
  <2>3. n \in Nat
    <3>1. n \in 1..Len(chain) BY <1>1, <1>4, <2>1, MatchFacts
    <3> QED BY <1>l, <3>1
  <2>4. first = n
    <3> HIDE DEF matches
    <3>1. \A m \in matches : n <= m BY <2>2, <2>3
    <3> QED BY <2>1, <2>2, <3>1
  <2>5. first \in matches BY <2>1, <2>4
  <2> HIDE DEF first
  <2>6. /\ h # None /\ h \in sent /\ h \in Hashes /\ h.of = i /\ Mined(chain, h)
        /\ r.activeHash = None => MatchesReviewed(i, h) /\ nonce[h.of] = r.expectedNonce
    BY <1>1, <1>4, <2>5, MatchFacts
  <2> QED BY <2>3, <2>4, <2>6
<1> HIDE DEF matches, first, h
<1>7. /\ before.tx = tx /\ before.txLookup = tl /\ before.receipt = None
      /\ before.receiptLookup = "missing"
      /\ before = [tx |-> tx, txLookup |-> tl, receipt |-> None,
                   receiptLookup |-> "missing", scanned |-> None]
  BY DEF Found
<1>8. FoundOK(i, r, p.head, before) /\ (r.activeHash # None => r.actualNonce # None)
      /\ ~(r.confirmations >= Confirmations)
  BY <1>1, <1>2, JournalAssumption
<1>9. CASE matches = {} /\ f = [before EXCEPT !.scanned = upto]
  <2>1. f = [tx |-> tx, txLookup |-> tl, receipt |-> None,
             receiptLookup |-> "missing", scanned |-> upto]
    BY <1>7, <1>9
  <2> QED BY <1>4, <1>7, <1>8, <2>1 DEF FoundOK
<1>10. CASE /\ matches # {} /\ h = r.activeHash
            /\ f = [before EXCEPT !.tx = h, !.txLookup = "found", !.scanned = first]
  <2>1. f = [tx |-> h, txLookup |-> "found", receipt |-> None,
             receiptLookup |-> "missing", scanned |-> first]
    BY <1>7, <1>10
  <2> QED BY <1>6, <1>8, <1>10, <2>1 DEF FoundOK
<1>11. CASE /\ matches # {} /\ h # r.activeHash
            /\ \E rl \in ReceiptLookups(h) : f = Found(h, "found", ReceiptOf(h, rl), rl, first)
  <2>1. PICK rl \in ReceiptLookups(h) : f = Found(h, "found", ReceiptOf(h, rl), rl, first)
    BY <1>11
  <2>2. PICK c : c = ReceiptOf(h, rl) OBVIOUS
  <2>3. /\ f.tx = h /\ f.txLookup = "found" /\ f.receipt = c
        /\ f.receiptLookup = rl /\ f.scanned = first
    BY <2>1, <2>2 DEF Found
  <2>4. /\ rl \in {"found", "missing", "unavailable"}
        /\ rl # "found" => c = None
        /\ rl = "found" => c # None /\ c.hash = h /\ ReceiptTrue(Len(chain), c)
    BY <1>6, <1>11, <2>1, <2>2, ReceiptOfFacts
  <2> QED BY <1>1, <1>6, <1>8, <1>11, <2>3, <2>4 DEF FoundOK
<1> QED BY <1>5, <1>9, <1>10, <1>11

(* What an observation finds may be written.                               *)
LEMMA FindingsOK ==
  ASSUME JournalInv, NEW p, ProbeOK(p), p.found = None, p.record = storage[p.intent],
         NEW f \in Findings(p)
  PROVE  FoundOK(p.intent, p.record, p.head, f)
<1> DEFINE i == p.intent
           r == p.record
           h == r.activeHash
<1>1. /\ i \in DOMAIN storage /\ r = storage[i] /\ r \in JournalRecords /\ RecordOK(i, r)
      /\ r.status \notin {"rejected", "aborted"} /\ p.head = Len(chain)
  BY DEF ProbeOK, JournalInv, RecordsOK
<1>2. r.confirmations \in Nat BY <1>1 DEF JournalRecords
<1>3. CASE h = None
  <2> DEFINE before == Found(None, "missing", None, "missing", None)
  <2>1. f \in Scanned(p, before) BY <1>3 DEF Findings
  <2>2. ~(r.confirmations >= Confirmations)
    BY <1>1, <1>3 DEF RecordOK, StatusFacts, ChainFacts
  <2>3. /\ before.tx = None /\ before.txLookup = "missing" /\ before.receipt = None
        /\ before.receiptLookup = "missing" /\ before.scanned = None
    BY DEF Found
  <2>4. FoundOK(i, r, p.head, before)
    <3> HIDE DEF before
    <3> QED BY <2>2, <2>3 DEF FoundOK
  <2>5. r.confirmations < Confirmations BY <1>2, <2>2, JournalAssumption
  <2> QED BY <1>3, <2>1, <2>4, <2>5, ScannedOK
<1>4. CASE h # None
  <2>1. PICK tl \in TxLookups(h), rl \in ReceiptLookups(h) : f \in FoundBy(p, tl, rl)
    BY <1>4 DEF Findings
  <2>2. PICK c : c = ReceiptOf(h, rl) OBVIOUS
  <2> DEFINE tx == IF tl = "found" THEN h ELSE None
             looked == Looked(h, tl, rl)
  <2>3. looked = Found(tx, tl, c, rl, None) BY <2>2 DEF Looked
  <2>4. h \in sent /\ h \in Hashes
    BY <1>1, <1>4 DEF RecordOK, ChainFacts, HashFacts, JournalInv, StateTypes
  <2>5. /\ rl \in {"found", "missing", "unavailable"}
        /\ rl # "found" => c = None
        /\ Mined(chain, h) => rl # "missing"
        /\ rl = "found" =>
             /\ c # None /\ c.hash = h /\ ReceiptTrue(Len(chain), c)
             /\ c.block \in MinedAt(chain, h)
             /\ c.ok = chain[c.block].ok /\ c.fork = chain[c.block].fork
    BY <2>1, <2>2, <2>4, ReceiptOfFacts
  <2>6. /\ looked.tx = tx /\ looked.txLookup = tl /\ looked.receipt = c
        /\ looked.receiptLookup = rl /\ looked.scanned = None
    BY <2>3 DEF Found
  <2>7. ASSUME r.confirmations >= Confirmations
        PROVE  /\ rl # "missing"
               /\ c # None =>
                    /\ c.hash = h /\ c.ok = r.receipt.ok
                    /\ p.head - c.block + 1 >= r.confirmations
                    /\ chain[c.block].fork = c.fork
    <3>1. PICK n \in MinedAt(chain, h) :
            chain[n].ok = r.receipt.ok /\ Len(chain) - n + 1 >= r.confirmations
      BY <1>1, <2>7 DEF RecordOK, ChainFacts, Evidence
    <3>2. Mined(chain, h) BY <3>1 DEF Mined
    <3>3. c # None => c.block = n
      <4> SUFFICES ASSUME c # None PROVE c.block = n OBVIOUS
      <4>1. c.block \in MinedAt(chain, h) BY <2>5
      <4> QED BY <1>4, <3>1, <4>1, MinedOnce DEF MinedAt
    <3> QED BY <1>1, <2>5, <3>1, <3>2, <3>3
  <2>8. FoundOK(i, r, p.head, looked)
    <3> HIDE DEF looked, i
    <3> QED BY <1>1, <1>4, <2>4, <2>5, <2>6, <2>7 DEF FoundOK
  <2>9. CASE ~(rl = "missing" /\ r.actualNonce # None)
    <3>1. f = looked BY <2>1, <2>9 DEF FoundBy
    <3> QED BY <2>8, <3>1
  <2>10. CASE rl = "missing" /\ r.actualNonce # None
    <3>1. f \in Scanned(p, looked) BY <2>1, <2>10 DEF FoundBy
    <3>2. r.confirmations < Confirmations BY <1>2, <2>7, <2>10, JournalAssumption
    <3>3. looked = Found(tx, tl, None, "missing", None) BY <2>3, <2>5, <2>10
    <3> HIDE DEF looked, tx
    <3> QED BY <2>8, <2>10, <3>1, <3>2, <3>3, ScannedOK
  <2> QED BY <2>9, <2>10
<1> QED BY <1>3, <1>4

LEMMA ReadChainInv ==
  ASSUME JournalInv, NEW t \in Tabs, ReadChain(t)
  PROVE  JournalInv' /\ CanonicalKept
<1>1. PICK p : p = probe[t] OBVIOUS
<1>2. PICK f \in Findings(p) : probe' = [probe EXCEPT ![t].found = f]
  BY <1>1 DEF ReadChain
<1>3. PICK q : q = [p EXCEPT !.found = f] OBVIOUS
<1>4. /\ p # None /\ p.found = None /\ probe' = [probe EXCEPT ![t] = q]
      /\ UNCHANGED <<storage, memory, task, wallet, sent, nonce, chain, reorgs>>
  BY <1>1, <1>2, <1>3 DEF ReadChain, journalVars, chainVars
<1>5. ProbeOK(p) BY <1>1, <1>4 DEF JournalInv, ProbesOK
<1>6. /\ DOMAIN q = {"intent", "record", "head", "found", "observed"}
      /\ q.intent = p.intent /\ q.record = p.record /\ q.head = p.head /\ q.found = f
      /\ q.observed = None
  BY <1>3, <1>4, <1>5 DEF ProbeOK
<1>7. p.record = storage[p.intent] => FoundOK(p.intent, p.record, p.head, f)
  BY <1>2, <1>4, <1>5, FindingsOK
<1>8. ProbeOK(q) BY <1>4, <1>5, <1>6, <1>7 DEF ProbeOK
<1> QED BY <1>1, <1>4, <1>8, ProbeInv

(* The last reads of an observation.                                       *)
LEMMA ObservationsFacts ==
  ASSUME NEW p, NEW o \in Observations(p), ProbeOK(p), p.found # None
  PROVE  /\ ReportsFound(p, o)
         /\ p.record = storage[p.intent] => BlockRead(p.record, o)
<1> DEFINE f == p.found
<1>0. PICK lookup \in BlockLookups(f), above \in NoncesAbove(p.record),
           expired \in Expirations(p) :
        o = Observation(f, p.head, lookup, above, expired)
  BY DEF Observations
<1>1. /\ o.tx = f.tx /\ o.txLookup = f.txLookup /\ o.receipt = f.receipt
      /\ o.receiptLookup = f.receiptLookup /\ o.scanned = f.scanned /\ o.head = p.head
      /\ o.blockLookup \in (IF f.receipt = None THEN {"missing"} ELSE {"found"} \cup Failure)
      /\ o.blockLookup = "found" => o.blockFork = chain[f.receipt.block].fork
  BY <1>0 DEF Observation, BlockLookups
<1>2. ReportsFound(p, o) BY <1>1 DEF ReportsFound
<1>3. ASSUME p.record = storage[p.intent] PROVE BlockRead(p.record, o)
  <2>1. FoundOK(p.intent, p.record, p.head, f) BY <1>3 DEF ProbeOK
  <2>2. o.blockLookup = "found" => o.receipt # None BY <1>1
  <2>3. o.blockLookup = "found" /\ p.record.confirmations >= Confirmations =>
          o.blockFork = o.receipt.fork
    BY <1>1, <2>1, <2>2 DEF FoundOK
  <2> QED BY <1>1, <2>3 DEF BlockRead, BlockIsCanonical, Failure
<1> QED BY <1>2, <1>3

LEMMA ReadBlockInv ==
  ASSUME JournalInv, NEW t \in Tabs, ReadBlock(t)
  PROVE  JournalInv' /\ CanonicalKept
<1>1. PICK p : p = probe[t] OBVIOUS
<1>2. PICK o \in Observations(p) : probe' = [probe EXCEPT ![t].observed = o]
  BY <1>1 DEF ReadBlock
<1>3. PICK q : q = [p EXCEPT !.observed = o] OBVIOUS
<1>4. /\ p # None /\ p.found # None /\ probe' = [probe EXCEPT ![t] = q]
      /\ UNCHANGED <<storage, memory, task, wallet, sent, nonce, chain, reorgs>>
  BY <1>1, <1>2, <1>3 DEF ReadBlock, journalVars, chainVars
<1>5. ProbeOK(p) BY <1>1, <1>4 DEF JournalInv, ProbesOK
<1>6. /\ DOMAIN q = {"intent", "record", "head", "found", "observed"}
      /\ q.intent = p.intent /\ q.record = p.record /\ q.head = p.head /\ q.found = p.found
      /\ q.observed = o
  BY <1>3, <1>5 DEF ProbeOK
<1>7. ReportsFound(p, o) /\ (p.record = storage[p.intent] => BlockRead(p.record, o))
  BY <1>4, <1>5, ObservationsFacts
<1>8. ReportsFound(q, o) BY <1>6, <1>7 DEF ReportsFound
<1>9. ProbeOK(q) BY <1>4, <1>5, <1>6, <1>7, <1>8 DEF ProbeOK
<1> QED BY <1>1, <1>4, <1>9, ProbeInv

LEMMA CommitProbeInv ==
  ASSUME Calm, JournalInv, NEW t \in Tabs, CommitProbe(t)
  PROVE  JournalInv' /\ CanonicalKept
<1>1. PICK p, i, r : p = probe[t] /\ i = p.intent /\ r = p.record OBVIOUS
<1>2. /\ p # None /\ p.observed # None /\ probe' = [probe EXCEPT ![t] = None]
      /\ UNCHANGED <<task, wallet, sent, nonce, chain, reorgs>>
  BY <1>1 DEF CommitProbe, chainVars
<1>3. StateTypes /\ RecordsOK BY DEF JournalInv
<1>4. ProbeOK(p) /\ Within(memory[t], storage)
  BY <1>1, <1>2 DEF JournalInv, ProbesOK, MemoryOK
<1>5. Current(t) = storage BY <1>3, <1>4, CurrentStorage
<1>6. i \in DOMAIN storage /\ r \in JournalRecords /\ Behind(r, storage[i])
      /\ r.status \notin {"rejected", "aborted"}
  BY <1>1, <1>4 DEF ProbeOK
<1>7. /\ DOMAIN probe' = Tabs /\ \A u \in Tabs : probe'[u] \in {probe[u], None}
      /\ task' \in [Tabs -> [intent : Intents, phase : Phases] \cup {None}]
      /\ \A u \in Tabs : task'[u] \in {task[u], None}
  BY <1>2, <1>3 DEF StateTypes
<1>8. CASE SameRevision(storage[i], r)
  <2>1. r = storage[i]
    <3>1. storage[i] \in JournalRecords /\ storage[i].revision = r.revision
      BY <1>3, <1>6, <1>8 DEF RecordsOK, RecordOK, SameRevision
    <3> QED BY <1>6, <3>1 DEF Behind, Later, JournalRecords
  <2>0. PICK o : o = p.observed OBVIOUS
  <2>2. Commit(t, Update(storage, i, Apply(i, storage[i], o)))
    BY <1>1, <1>5, <1>6, <1>8, <2>0 DEF CommitProbe
  <2>3. ReportsFound(p, o) /\ FoundOK(i, r, p.head, p.found) /\ BlockRead(r, o)
    BY <1>1, <1>2, <1>4, <2>0, <2>1 DEF ProbeOK
  <2>4. o.head = p.head /\ FoundOK(i, r, o.head, o) /\ BlockRead(r, o)
    BY <2>3 DEF ReportsFound, FoundOK
  <2>5. PICK x : x = Apply(i, r, o) OBVIOUS
  <2>6. Outcome(i, r, x)
    <3>1. RecordOK(i, r) BY <1>3, <1>6, <2>1 DEF RecordsOK
    <3>2. Len(chain) \in Nat /\ o.head \in 1..Len(chain)
      BY <1>4, <2>4, ChainFactsInv DEF ProbeOK
    <3>3. sent \subseteq Hashes /\ \A h \in sent : nonce[h.of] \in Nat
      BY <1>3 DEF StateTypes, JournalInv, NonceOK, Hashes
    <3> QED BY <1>6, <2>4, <2>5, <3>1, <3>2, <3>3, ApplyOK
  <2>7. Successor(i, storage[i], x) BY <1>6, <2>1, <2>6, OutcomeSuccessor
  <2>8. PICK next : next = Update(storage, i, x) OBVIOUS
  <2>9. /\ Advance(next) /\ next[i] = x
        /\ \A j \in DOMAIN storage : j # i => next[j] = storage[j]
    BY <1>3, <1>6, <2>7, <2>8, UpdateAdvance
  <2>10. RefusedOnly(i, x) BY <2>6 DEF RefusedOnly, Outcome
  <2>11. \A j \in DOMAIN storage : next[j] # storage[j] => RefusedOnly(j, next[j])
    BY <2>9, <2>10
  <2>12. Commit(t, next) BY <2>1, <2>2, <2>5, <2>8
  <2> QED BY <1>2, <1>4, <1>7, <2>9, <2>11, <2>12, WriteInv
<1>9. CASE ~SameRevision(storage[i], r)
  <2>1. Commit(t, storage) BY <1>1, <1>5, <1>9 DEF CommitProbe
  <2>2. Advance(storage) BY <1>3, NoAdvance
  <2> QED BY <1>2, <1>4, <1>7, <2>1, <2>2, WriteInv
<1> QED BY <1>8, <1>9

LEMMA DeferInv ==
  ASSUME Calm, JournalInv, NEW t \in Tabs, NEW i \in Intents, Defer(t, i)
  PROVE  JournalInv' /\ CanonicalKept
<1>1. StateTypes /\ RecordsOK BY DEF JournalInv
<1>2. Within(memory[t], storage) BY DEF JournalInv, MemoryOK, Defer, Opened
<1>3. Current(t) = storage BY <1>1, <1>2, CurrentStorage
<1>4. PICK x : x = [storage[i] EXCEPT !.revision = @ + 1] OBVIOUS
<1>5. /\ i \in DOMAIN storage
      /\ storage[i].status # "awaiting-wallet" /\ NeedsMonitoring(storage[i])
      /\ Commit(t, Update(storage, i, x))
      /\ UNCHANGED <<task, probe, wallet, sent, nonce, chain, reorgs>>
  BY <1>3, <1>4 DEF Defer, chainVars
<1>6. Successor(i, storage[i], x) /\ x.status = storage[i].status
      /\ x.status \notin {"rejected", "aborted"}
  BY <1>1, <1>4, <1>5, DeferSuccessor DEF RecordsOK, NeedsMonitoring
<1>7. PICK next : next = Update(storage, i, x) OBVIOUS
<1>8. /\ Advance(next) /\ next[i] = x
      /\ \A j \in DOMAIN storage : j # i => next[j] = storage[j]
  BY <1>1, <1>5, <1>6, <1>7, UpdateAdvance
<1>9. \A j \in DOMAIN storage : next[j] # storage[j] => RefusedOnly(j, next[j])
  BY <1>6, <1>8 DEF RefusedOnly
<1>10. /\ DOMAIN probe' = Tabs /\ \A u \in Tabs : probe'[u] \in {probe[u], None}
       /\ task' \in [Tabs -> [intent : Intents, phase : Phases] \cup {None}]
       /\ \A u \in Tabs : task'[u] \in {task[u], None}
  BY <1>1, <1>5 DEF StateTypes
<1> QED BY <1>2, <1>5, <1>7, <1>8, <1>9, <1>10, WriteInv

-----------------------------------------------------------------------------
(* The wallet and the chain.                                               *)

(* Steps that leave the journal and the chain alone.                       *)
LEMMA WalletStepInv ==
  ASSUME JournalInv,
         UNCHANGED <<storage, memory, task, probe, chain, reorgs>>,
         wallet' \in [Intents -> WalletStates],
         nonce' \in [Intents -> Nat \cup {None}],
         sent \subseteq sent', sent' \subseteq Hashes,
         \A i \in Intents : nonce[i] # None => nonce'[i] = nonce[i],
         TasksOK', WalletOK', NonceOK', KeysApart'
  PROVE  JournalInv' /\ CanonicalKept
<1>1. \A h \in sent : h.of \in Intents /\ nonce'[h.of] = nonce[h.of]
  BY DEF JournalInv, NonceOK, StateTypes, Hashes
<1>a. StateTypes' BY DEF JournalInv, StateTypes
<1>b. RecordsOK'
  <2> SUFFICES ASSUME NEW i \in DOMAIN storage PROVE RecordOK(i, storage[i])'
    BY DEF RecordsOK
  <2>1. PICK r : r = storage[i] OBVIOUS
  <2>2. RecordOK(i, r) /\ i \in Intents
    BY <2>1, JournalFacts DEF JournalInv, RecordsOK, StateTypes
  <2>3. r.actualNonce # None => r.actualNonce = nonce'[i]
    <3> SUFFICES ASSUME r.actualNonce # None PROVE nonce'[i] = nonce[i]
      BY <2>2 DEF RecordOK, ChainFacts
    <3>1. r.activeHash # None BY <2>2 DEF RecordOK, StatusFacts
    <3>2. r.activeHash \in sent /\ r.activeHash.of = i
      BY <2>2, <3>1 DEF RecordOK, HashFacts, ChainFacts
    <3> QED BY <1>1, <3>2
  <2>4. RecordOK(i, r)' BY <2>2, <2>3 DEF RecordOK, ChainFacts, Evidence, MinedAt
  <2> QED BY <2>1, <2>4
<1>c. MemoryOK' BY DEF JournalInv, MemoryOK
<1>d. ProbesOK'
  <2> SUFFICES ASSUME NEW u \in Tabs, probe'[u] # None PROVE ProbeOK(probe[u])' BY DEF ProbesOK
  <2>1. PICK p, f : p = probe[u] /\ f = p.found OBVIOUS
  <2>2. ProbeOK(p) BY <2>1 DEF JournalInv, ProbesOK
  <2>3. ASSUME f # None, p.record = storage[p.intent]
        PROVE  FoundOK(p.intent, p.record, p.head, f)'
    <3>1. FoundOK(p.intent, p.record, p.head, f) BY <2>1, <2>2, <2>3 DEF ProbeOK
    <3>2. f.tx # None => nonce'[f.tx.of] = nonce[f.tx.of] BY <1>1, <3>1 DEF FoundOK
    <3> QED BY <3>1, <3>2 DEF FoundOK, ReceiptTrue
  <2>4. ASSUME p.observed # None, p.record = storage[p.intent]
        PROVE  BlockRead(p.record, p.observed)'
    BY <2>1, <2>2, <2>4 DEF ProbeOK, BlockRead
  <2> QED BY <2>1, <2>2, <2>3, <2>4 DEF ProbeOK, ReportsFound
<1>h. ChainOK'
  <2>1. \A n \in 1..Len(chain) : chain[n].tx # None => nonce'[chain[n].tx.of] = nonce[chain[n].tx.of]
    BY <1>1 DEF JournalInv, ChainOK
  <2> QED BY <2>1 DEF JournalInv, ChainOK
<1>j. CanonicalKept BY DEF CanonicalKept
<1> QED BY <1>a, <1>b, <1>c, <1>d, <1>h, <1>j DEF JournalInv

LEMMA RejectInv ==
  ASSUME JournalInv, NEW i \in Intents, Reject(i)
  PROVE  JournalInv' /\ CanonicalKept
<1>1. /\ wallet[i] = "open" /\ wallet' = [wallet EXCEPT ![i] = "rejected"]
      /\ UNCHANGED <<storage, memory, task, probe, sent, nonce, chain, reorgs>>
  BY DEF Reject, journalVars, chainVars
<1>2. StateTypes /\ TasksOK /\ WalletOK /\ KeysApart BY DEF JournalInv
<1>3. /\ wallet' \in [Intents -> WalletStates]
      /\ \A j \in Intents : wallet'[j] = IF j = i THEN "rejected" ELSE wallet[j]
  BY <1>1, <1>2 DEF StateTypes, WalletStates
<1>4. DOMAIN storage \subseteq Intents BY <1>2, JournalFacts DEF StateTypes
<1>5. \A t \in Tabs : task[t] # None => task[t].intent \in Intents BY <1>2 DEF StateTypes
<1>6. TasksOK' BY <1>1, <1>2, <1>3, <1>5 DEF TasksOK
<1>7. WalletOK' BY <1>1, <1>2, <1>3, <1>4 DEF WalletOK, NoTask
<1>8. NonceOK' BY <1>1 DEF JournalInv, NonceOK, Pending
<1>9. KeysApart' BY <1>1, <1>2, <1>3, <1>4 DEF KeysApart, Past, NoTask
<1>10. nonce' \in [Intents -> Nat \cup {None}] /\ sent' \subseteq Hashes
  BY <1>1, <1>2 DEF StateTypes
<1> QED BY <1>1, <1>3, <1>6, <1>7, <1>8, <1>9, <1>10, WalletStepInv

LEMMA ReplaceInv ==
  ASSUME JournalInv, NEW i \in Intents, NEW kind \in Replacements, Replace(i, kind)
  PROVE  JournalInv' /\ CanonicalKept
<1>1. PICK h : h = [of |-> i, kind |-> kind] OBVIOUS
<1>2. /\ Original(i) \in sent /\ sent' = sent \cup {h}
      /\ UNCHANGED <<storage, memory, task, probe, wallet, nonce, chain, reorgs>>
  BY <1>1 DEF Replace, journalVars
<1>3. h \in Hashes /\ h.of = i BY <1>1 DEF Hashes
<1>4. nonce[i] # None
  <2>1. Original(i).of = i BY DEF Original
  <2> QED BY <1>2, <2>1 DEF JournalInv, NonceOK
<1>5. /\ wallet' \in [Intents -> WalletStates]
      /\ nonce' \in [Intents -> Nat \cup {None}] /\ sent' \subseteq Hashes
  BY <1>2, <1>3 DEF JournalInv, StateTypes
<1>6. TasksOK' BY <1>2 DEF JournalInv, TasksOK
<1>7. WalletOK' BY <1>2 DEF JournalInv, WalletOK, NoTask
<1>8. NonceOK' BY <1>2, <1>3, <1>4 DEF JournalInv, NonceOK, Pending
<1>9. KeysApart' BY <1>2 DEF JournalInv, KeysApart, Past, NoTask
<1> QED BY <1>2, <1>5, <1>6, <1>7, <1>8, <1>9, WalletStepInv

(* The wallet gives an intent the account's pending nonce.                 *)
LEMMA ApproveInv ==
  ASSUME JournalInv, NEW i \in Intents, Approve(i)
  PROVE  JournalInv' /\ CanonicalKept
<1> DEFINE Given == {j \in Intents : nonce[j] # None}
<1>0. PICK n : n = Pending OBVIOUS
<1>1. /\ wallet[i] = "open" /\ wallet' = [wallet EXCEPT ![i] = "approved"]
      /\ sent' = sent \cup {Original(i)} /\ nonce' = [nonce EXCEPT ![i] = n]
      /\ UNCHANGED <<storage, memory, task, probe, chain, reorgs>>
  BY <1>0 DEF Approve, journalVars
<1>2. StateTypes /\ TasksOK /\ WalletOK /\ NonceOK /\ KeysApart BY DEF JournalInv
<1>3. n \in Nat /\ IsFiniteSet(Given) /\ Cardinality(Given) = n /\ n # None
  BY <1>0, PendingFacts, NoneAssumption DEF Pending
<1>4. nonce[i] = None BY <1>1, <1>2 DEF WalletOK
<1>5. /\ wallet' \in [Intents -> WalletStates]
      /\ \A j \in Intents : wallet'[j] = IF j = i THEN "approved" ELSE wallet[j]
  BY <1>1, <1>2 DEF StateTypes, WalletStates
<1>6. /\ nonce' \in [Intents -> Nat \cup {None}]
      /\ \A j \in Intents : nonce'[j] = IF j = i THEN n ELSE nonce[j]
  BY <1>1, <1>2, <1>3 DEF StateTypes
<1>7. Original(i) \in Hashes /\ Original(i).of = i BY DEF Original, Hashes
<1>8. Pending' = n + 1
  <2>1. {j \in Intents : nonce'[j] # None} = Given \cup {i} BY <1>3, <1>4, <1>6
  <2>2. i \notin Given BY <1>4
  <2> HIDE DEF Given
  <2> QED BY <1>3, <2>1, <2>2, FS_AddElement DEF Pending
<1>9. DOMAIN storage \subseteq Intents BY <1>2, JournalFacts DEF StateTypes
<1>10. \A t \in Tabs : task[t] # None => task[t].intent \in Intents BY <1>2 DEF StateTypes
<1>11. \A h \in sent : h.of \in Intents BY <1>2 DEF StateTypes, Hashes
<1>12. TasksOK' BY <1>1, <1>2, <1>5, <1>10 DEF TasksOK
<1>13. WalletOK'
  <2>1. \A j \in Intents : wallet'[j] = "approved" => Original(j) \in sent'
    BY <1>1, <1>2, <1>5 DEF WalletOK
  <2>2. \A j \in Intents : nonce'[j] # None <=> wallet'[j] = "approved"
    BY <1>2, <1>3, <1>5, <1>6 DEF WalletOK
  <2>3. \A j \in Intents : wallet'[j] # "none" <=> j \in DOMAIN storage
    BY <1>1, <1>2, <1>5 DEF WalletOK
  <2>4. \A j \in DOMAIN storage :
          /\ storage[j].status = "rejected" => wallet'[j] = "rejected"
          /\ storage[j].status = "aborted" => wallet'[j] = "begun" /\ NoTask(j)
    BY <1>1, <1>2, <1>5, <1>9 DEF WalletOK
  <2> QED BY <1>1, <2>1, <2>2, <2>3, <2>4 DEF WalletOK, NoTask
<1>14. NonceOK'
  <2>1. \A j \in Intents : nonce[j] # None => nonce[j] \in Nat /\ nonce[j] < n
    BY <1>0, <1>2 DEF NonceOK, StateTypes
  <2>2. \A j \in Intents : nonce'[j] # None => nonce'[j] < n + 1 BY <1>3, <1>6, <2>1
  <2>3. \A j, k \in Intents : nonce'[j] # None /\ nonce'[j] = nonce'[k] => j = k
    BY <1>2, <1>3, <1>6, <2>1 DEF NonceOK
  <2>4. \A h \in sent' : nonce'[h.of] # None
    BY <1>1, <1>2, <1>3, <1>6, <1>7, <1>11 DEF NonceOK
  <2> QED BY <1>8, <2>2, <2>3, <2>4 DEF NonceOK
<1>15. KeysApart'
  <2> SUFFICES ASSUME NEW k \in DOMAIN storage, NEW j \in Intents,
                      j # k, Key[j] = Key[k], storage[k].activeHash = None,
                      storage[k].status \notin {"rejected", "aborted"}
               PROVE  Past(k, j)'
    BY <1>1 DEF KeysApart
  <2>1. Past(k, j) BY <1>2 DEF KeysApart
  <2>2. j # i BY <1>1, <2>1 DEF Past
  <2>3. wallet'[j] = wallet[j] /\ nonce'[j] = nonce[j] BY <1>5, <1>6, <2>2
  <2> QED BY <1>1, <2>1, <2>3 DEF Past, NoTask
<1>16. sent \subseteq sent' /\ sent' \subseteq Hashes
  BY <1>1, <1>2, <1>7 DEF StateTypes
<1>17. \A j \in Intents : nonce[j] # None => nonce'[j] = nonce[j] BY <1>4, <1>6
<1> QED BY <1>1, <1>5, <1>6, <1>12, <1>13, <1>14, <1>15, <1>16, <1>17, WalletStepInv

(* The chain grows, or its last blocks are replaced.                       *)
LEMMA ChainStepInv ==
  ASSUME JournalInv,
         UNCHANGED <<storage, memory, task, probe, wallet, sent, nonce>>,
         chain' \in Seq(Blocks), reorgs' \in Nat, ChainOK',
         reorgs <= reorgs', Len(chain) <= Len(chain'),
         \A n \in 1..Len(chain) : Len(chain) - n + 1 >= Confirmations => chain'[n] = chain[n],
         \A n \in 1..Len(chain) : chain'[n] = chain[n] \/ chain'[n].fork > reorgs,
         \A u \in Tabs : probe[u] # None /\ probe[u].found = None => Len(chain') = Len(chain)
  PROVE  JournalInv' /\ CanonicalKept
<1>1. Len(chain) \in Nat \ {0} BY ChainFactsInv
<1>2. Len(chain') \in Nat
  <2> HIDE DEF Blocks
  <2> QED OBVIOUS
<1>3. reorgs \in Nat BY DEF JournalInv, StateTypes
<1>a. StateTypes' BY DEF JournalInv, StateTypes, Blocks
<1>b. RecordsOK'
  <2> SUFFICES ASSUME NEW i \in DOMAIN storage PROVE RecordOK(i, storage[i])'
    BY DEF RecordsOK
  <2>1. PICK r : r = storage[i] OBVIOUS
  <2>2. RecordOK(i, r) /\ r.confirmations \in Nat
    BY <2>1 DEF JournalInv, RecordsOK, RecordOK, JournalRecords
  <2>3. ASSUME r.confirmations >= Confirmations, Evidence(r) PROVE Evidence(r)'
    <3>1. PICK n \in MinedAt(chain, r.activeHash) :
            chain[n].ok = r.receipt.ok /\ Len(chain) - n + 1 >= r.confirmations
      BY <2>3 DEF Evidence
    <3>2. n \in 1..Len(chain) /\ chain[n].tx = r.activeHash BY <3>1 DEF MinedAt
    <3>3. chain'[n] = chain[n]
      BY <1>1, <2>2, <2>3, <3>1, <3>2, JournalAssumption
    <3>4. n \in 1..Len(chain') /\ Len(chain') - n + 1 >= r.confirmations
      BY <1>1, <1>2, <2>2, <3>1, <3>2
    <3> QED BY <3>1, <3>2, <3>3, <3>4 DEF Evidence, MinedAt
  <2>4. RecordOK(i, r)' BY <2>2, <2>3 DEF RecordOK, ChainFacts
  <2> QED BY <2>1, <2>4
<1>c. MemoryOK' BY DEF JournalInv, MemoryOK
<1>d. ProbesOK'
  <2> SUFFICES ASSUME NEW u \in Tabs, probe'[u] # None PROVE ProbeOK(probe[u])' BY DEF ProbesOK
  <2>1. PICK p, f, r, head : p = probe[u] /\ f = p.found /\ r = p.record /\ head = p.head OBVIOUS
  <2>2. ProbeOK(p) BY <2>1 DEF JournalInv, ProbesOK
  <2>3. head \in 1..Len(chain) /\ r.confirmations \in Nat
    BY <2>1, <2>2 DEF ProbeOK, JournalRecords
  <2>4. head \in 1..Len(chain') BY <1>1, <1>2, <2>3
  <2>5. ASSUME NEW c, ReceiptTrue(head, c) PROVE ReceiptTrue(head, c)'
    <3>1. c.block \in 1..Len(chain) /\ c.fork \in 0..reorgs
      BY <1>1, <2>3, <2>5 DEF ReceiptTrue
    <3>2. chain'[c.block] = chain[c.block] \/ chain'[c.block].fork > reorgs BY <3>1
    <3>3. chain'[c.block].fork = c.fork => chain'[c.block] = chain[c.block]
      BY <1>3, <3>1, <3>2
    <3>4. c.fork \in 0..reorgs' BY <1>3, <3>1
    <3> QED BY <2>5, <3>3, <3>4 DEF ReceiptTrue
  <2>6. ASSUME f # None, r = storage[p.intent]
        PROVE  FoundOK(p.intent, r, head, f)'
    <3>1. FoundOK(p.intent, r, head, f) BY <2>1, <2>2, <2>6 DEF ProbeOK
    <3>2. ASSUME r.confirmations >= Confirmations, f.receipt # None
          PROVE  chain'[f.receipt.block] = chain[f.receipt.block]
      <4>0. PICK n : n = f.receipt.block OBVIOUS
      <4>1. n \in 1..head /\ head - n + 1 >= r.confirmations
        BY <3>1, <3>2, <4>0 DEF FoundOK, ReceiptTrue
      <4>2. n \in 1..Len(chain) /\ Len(chain) - n + 1 >= Confirmations
        BY <1>1, <2>3, <3>2, <4>1, JournalAssumption
      <4> QED BY <4>0, <4>2
    <3> QED BY <2>5, <3>1, <3>2 DEF FoundOK
  <2>7. ASSUME p.observed # None, r = storage[p.intent]
        PROVE  BlockRead(r, p.observed)'
    <3>1. PICK o : o = p.observed OBVIOUS
    <3>2. BlockRead(r, o) /\ ReportsFound(p, o) /\ FoundOK(p.intent, r, head, f)
      BY <2>1, <2>2, <2>7, <3>1 DEF ProbeOK
    <3>3. o.head = head /\ o.receipt = f.receipt BY <2>1, <3>2 DEF ReportsFound
    <3>4. ASSUME BlockIsCanonical(o), o.head - o.receipt.block + 1 >= Confirmations
          PROVE  chain'[o.receipt.block] = chain[o.receipt.block]
      <4>0. PICK n : n = o.receipt.block OBVIOUS
      <4>1. o.receipt # None BY <3>2, <3>4 DEF BlockRead, BlockIsCanonical
      <4>2. n \in 1..head BY <3>2, <3>3, <4>0, <4>1 DEF FoundOK, ReceiptTrue
      <4>3. n \in 1..Len(chain) /\ Len(chain) - n + 1 >= Confirmations
        BY <1>1, <2>3, <3>3, <3>4, <4>0, <4>2, JournalAssumption
      <4> QED BY <4>0, <4>3
    <3> QED BY <3>1, <3>2, <3>4 DEF BlockRead, BlockIsCanonical
  <2> QED BY <2>1, <2>2, <2>4, <2>6, <2>7 DEF ProbeOK, ReportsFound
<1>e. TasksOK' BY DEF JournalInv, TasksOK
<1>f. WalletOK' BY DEF JournalInv, WalletOK, NoTask
<1>g. NonceOK' BY DEF JournalInv, NonceOK, Pending
<1>i. KeysApart' BY DEF JournalInv, KeysApart, Past, NoTask
<1>j. CanonicalKept BY DEF CanonicalKept
<1> QED BY <1>a, <1>b, <1>c, <1>d, <1>e, <1>f, <1>g, <1>i, <1>j DEF JournalInv

LEMMA MineInv ==
  ASSUME Calm, JournalInv, Mine
  PROVE  JournalInv' /\ CanonicalKept
<1>1. PICK h \in {None} \cup Minable(chain), ok \in BOOLEAN :
        chain' = Append(chain, [fork |-> reorgs, tx |-> h, ok |-> ok])
  BY DEF Mine
<1>2. /\ UNCHANGED <<storage, memory, task, probe, wallet, sent, nonce, reorgs>>
      /\ \A u \in Tabs : probe[u] # None => probe[u].found # None
  BY DEF Mine, Calm, journalVars
<1>3. PICK b : b = [fork |-> reorgs, tx |-> h, ok |-> ok] OBVIOUS
<1>4. h # None => h \in sent /\ h \in Hashes /\ nonce[h.of] = Used(chain)
  BY DEF Minable, JournalInv, StateTypes
<1>5. /\ Len(chain) \in Nat \ {0} /\ chain \in Seq(Blocks) /\ reorgs \in Nat
  BY ChainFactsInv DEF JournalInv, StateTypes
<1>6. b \in Blocks /\ b.tx = h /\ b.fork = reorgs BY <1>3, <1>4, <1>5 DEF Blocks
<1>7. /\ chain' \in Seq(Blocks) /\ Len(chain') = Len(chain) + 1
      /\ \A n \in 1..Len(chain) : chain'[n] = chain[n]
      /\ chain'[Len(chain) + 1] = b
  <2> HIDE DEF Blocks
  <2> QED BY <1>1, <1>3, <1>5, <1>6
<1>8. ChainOK'
  <2>1. ASSUME NEW n \in 1..Len(chain')
        PROVE  /\ chain'[n].tx \in sent \cup {None} /\ chain'[n].fork <= reorgs
               /\ chain'[n].tx # None =>
                    nonce[chain'[n].tx.of] = Cardinality(Earlier(chain', n))
    <3>1. Earlier(chain', n) = Earlier(chain, n) BY <1>5, <1>7 DEF Earlier
    <3>2. CASE n = Len(chain) + 1
      <4>1. Used(chain) = Cardinality(Earlier(chain, n)) BY <1>5, <3>2 DEF Used, Earlier
      <4> QED BY <1>4, <1>5, <1>6, <1>7, <3>1, <3>2, <4>1
    <3>3. CASE n \in 1..Len(chain)
      BY <1>7, <3>1, <3>3 DEF JournalInv, ChainOK
    <3> QED BY <1>5, <1>7, <3>2, <3>3
  <2> QED BY <1>2, <1>5, <1>7, <2>1 DEF ChainOK
<1> QED BY <1>2, <1>5, <1>7, <1>8, ChainStepInv

LEMMA ReorgInv ==
  ASSUME Calm, JournalInv, Reorg
  PROVE  JournalInv' /\ CanonicalKept
<1>0. PICK L : L = Len(chain) OBVIOUS
<1>1. PICK depth \in 1..ReorgDepth :
        /\ depth < L
        /\ chain' = [n \in 1..L |->
                       IF n <= L - depth THEN chain[n]
                       ELSE [fork |-> reorgs + 1, tx |-> None, ok |-> TRUE]]
  BY <1>0 DEF Reorg
<1>2. UNCHANGED <<storage, memory, task, probe, wallet, sent, nonce>> /\ reorgs' = reorgs + 1
  BY DEF Reorg, journalVars
<1>3. PICK b : b = [fork |-> reorgs + 1, tx |-> None, ok |-> TRUE] OBVIOUS
<1>4. /\ L \in Nat \ {0} /\ reorgs \in Nat
      /\ \A n \in 1..L : chain[n] \in Blocks
  BY <1>0, ChainFactsInv DEF JournalInv, StateTypes
<1>5. b \in Blocks /\ b.tx = None /\ b.fork = reorgs + 1 BY <1>3, <1>4 DEF Blocks
<1>6. /\ chain' \in Seq(Blocks) /\ Len(chain') = L
      /\ \A n \in 1..L : chain'[n] = IF n <= L - depth THEN chain[n] ELSE b
  <2> HIDE DEF Blocks
  <2>1. chain' = [n \in 1..L |-> IF n <= L - depth THEN chain[n] ELSE b] BY <1>1, <1>3
  <2>2. chain' \in [1..L -> Blocks] BY <1>4, <1>5, <2>1
  <2>3. chain' \in Seq(Blocks) BY <1>4, <2>2
  <2> QED BY <1>4, <2>1, <2>3
<1>7. ReorgDepth < Confirmations /\ ReorgDepth \in Nat /\ Confirmations \in Nat
  BY JournalAssumption DEF Calm
<1>8. ChainOK'
  <2>1. ASSUME NEW n \in 1..L
        PROVE  /\ chain'[n].tx \in sent \cup {None} /\ chain'[n].fork <= reorgs + 1
               /\ chain'[n].tx # None =>
                    nonce[chain'[n].tx.of] = Cardinality(Earlier(chain', n))
    <3>1. CASE n <= L - depth
      <4>1. Earlier(chain', n) = Earlier(chain, n) BY <1>0, <1>1, <1>4, <1>6, <3>1 DEF Earlier
      <4>2. chain'[n] = chain[n] BY <1>6, <3>1
      <4>3. chain[n].fork <= reorgs + 1
        <5>1. chain[n].fork \in Nat /\ chain[n].fork <= reorgs
          BY <1>0, <1>4 DEF JournalInv, ChainOK, Blocks
        <5> QED BY <1>4, <5>1
      <4> QED BY <1>0, <4>1, <4>2, <4>3 DEF JournalInv, ChainOK
    <3>2. CASE ~(n <= L - depth) BY <1>4, <1>5, <1>6, <3>2
    <3> QED BY <3>1, <3>2
  <2> QED BY <1>2, <1>4, <1>6, <2>1 DEF ChainOK
<1>9. \A n \in 1..L : L - n + 1 >= Confirmations => chain'[n] = chain[n]
  BY <1>1, <1>4, <1>6, <1>7
<1>10. \A n \in 1..L : chain'[n] = chain[n] \/ chain'[n].fork > reorgs
  BY <1>4, <1>5, <1>6
<1> QED BY <1>0, <1>2, <1>4, <1>6, <1>8, <1>9, <1>10, ChainStepInv

-----------------------------------------------------------------------------
(* The invariant is inductive.                                             *)

LEMMA JournalInvInit ==
  ASSUME Init
  PROVE  JournalInv
<1>1. /\ DOMAIN storage = {} /\ storage \in [{} -> JournalRecords]
      /\ memory = [t \in Tabs |-> None] /\ task = [t \in Tabs |-> None]
      /\ probe = [t \in Tabs |-> None] /\ wallet = [i \in Intents |-> "none"]
      /\ sent = {} /\ nonce = [i \in Intents |-> None] /\ reorgs = 0
  BY DEF Init
<1>2. PICK b : b = [fork |-> 0, tx |-> None, ok |-> TRUE] OBVIOUS
<1>3. b \in Blocks /\ b.tx = None /\ b.fork = 0 BY <1>2 DEF Blocks
<1>4. chain = <<b>> BY <1>2 DEF Init
<1>5. chain \in Seq(Blocks) /\ Len(chain) = 1 /\ chain[1] = b
  <2> HIDE DEF Blocks
  <2> QED BY <1>3, <1>4
<1>a. StateTypes
  <2>1. storage \in Journals BY <1>1, JournalIntro
  <2> QED BY <1>1, <1>5, <2>1 DEF StateTypes, WalletStates, Blocks
<1>b. RecordsOK BY <1>1 DEF RecordsOK
<1>c. MemoryOK BY <1>1 DEF MemoryOK
<1>d. ProbesOK BY <1>1 DEF ProbesOK
<1>e. TasksOK BY <1>1 DEF TasksOK
<1>f. WalletOK BY <1>1 DEF WalletOK
<1>g. NonceOK BY <1>1 DEF NonceOK
<1>h. ChainOK BY <1>1, <1>3, <1>5 DEF ChainOK
<1>i. KeysApart BY <1>1 DEF KeysApart
<1> QED BY <1>a, <1>b, <1>c, <1>d, <1>e, <1>f, <1>g, <1>h, <1>i DEF JournalInv

(* Every step keeps the invariant, and no canonical record is demoted.     *)
LEMMA JournalInvStep ==
  ASSUME Calm, JournalInv, [Next]_vars
  PROVE  JournalInv' /\ CanonicalKept
<1>1. ASSUME NEW t \in Tabs, TabNext(t) PROVE JournalInv' /\ CanonicalKept
  <2>1. CASE Open(t) BY <2>1, OpenInv
  <2>2. CASE Close(t) BY <2>2, CloseInv
  <2>3. CASE StorageEvent(t) BY <2>3, StorageEventInv
  <2>4. CASE Recover(t) BY <2>4, RecoverInv
  <2>5. CASE \E i \in Intents : Begin(t, i) BY <2>5, BeginInv
  <2>6. CASE Abort(t) BY <2>6, AbortInv
  <2>7. CASE Send(t) BY <2>7, SendInv
  <2>8. CASE Submitted(t) BY <2>8, SubmittedInv
  <2>9. CASE FailRejected(t) BY <2>9, FailRejectedInv
  <2>10. CASE FailUnknown(t) BY <2>10, FailUnknownInv
  <2>11. CASE ResultLost(t) BY <2>11, ResultLostInv
  <2>12. CASE \E i \in Intents : StartProbe(t, i) BY <2>12, StartProbeInv
  <2>13. CASE ReadChain(t) BY <2>13, ReadChainInv
  <2>14. CASE ReadBlock(t) BY <2>14, ReadBlockInv
  <2>15. CASE CommitProbe(t) BY <2>15, CommitProbeInv
  <2>16. CASE \E i \in Intents : Defer(t, i) BY <2>16, DeferInv
  <2> QED
    BY <1>1, <2>1, <2>2, <2>3, <2>4, <2>5, <2>6, <2>7, <2>8, <2>9, <2>10, <2>11,
       <2>12, <2>13, <2>14, <2>15, <2>16 DEF TabNext
<1>2. CASE Environment
  <2>1. CASE \E i \in Intents : Approve(i) \/ Reject(i) BY <2>1, ApproveInv, RejectInv
  <2>2. CASE \E i \in Intents, kind \in Replacements : Replace(i, kind) BY <2>2, ReplaceInv
  <2>3. CASE Mine BY <2>3, MineInv
  <2>4. CASE Reorg BY <2>4, ReorgInv
  <2> QED BY <1>2, <2>1, <2>2, <2>3, <2>4 DEF Environment
<1>3. CASE UNCHANGED vars
  BY <1>3, ForgetInv DEF vars, JournalInv, StateTypes
<1> QED BY <1>1, <1>2, <1>3 DEF Next

(* The inductive invariant: for any tabs, intents, keys and chain.         *)
THEOREM JournalInvariant ==
  ASSUME Calm
  PROVE  Spec => []JournalInv
<1>1. Init => JournalInv BY JournalInvInit
<1>2. JournalInv /\ [Next]_vars => JournalInv' BY JournalInvStep
<1> QED BY <1>1, <1>2, PTL DEF Spec

-----------------------------------------------------------------------------
(* What follows from it.                                                   *)

(* What is canonical is on the chain.                                      *)
LEMMA CanonicalMined ==
  ASSUME JournalInv
  PROVE  CanonicalIsMined
<1> SUFFICES ASSUME NEW i \in DOMAIN storage, NEW r, r = storage[i], r.status = "canonical"
             PROVE  OnChain(i, r)
  BY DEF CanonicalIsMined
<1>1. RecordOK(i, r) /\ r.confirmations \in Nat
  BY DEF JournalInv, RecordsOK, RecordOK, JournalRecords
<1>2. /\ r.activeHash # None /\ r.receipt # None /\ r.receipt.ok
      /\ r.confirmations >= Confirmations
  BY <1>1 DEF RecordOK, StatusFacts, Valid
<1>3. MatchesReviewed(i, r.activeHash)
  BY <1>1, <1>2 DEF RecordOK, StatusFacts, HashFacts
<1>4. PICK n \in MinedAt(chain, r.activeHash) :
        chain[n].ok = r.receipt.ok /\ Len(chain) - n + 1 >= r.confirmations
  BY <1>1, <1>2 DEF RecordOK, ChainFacts, Evidence
<1>5. Len(chain) - n + 1 >= Confirmations
  <2>1. n \in Nat /\ Len(chain) \in Nat BY ChainFactsInv DEF MinedAt
  <2> QED BY <1>1, <1>2, <1>4, <2>1, JournalAssumption
<1> QED BY <1>2, <1>3, <1>4, <1>5 DEF OnChain

(* NothingLostOnReload: every stored record passes the test of a reload.   *)
THEOREM ReloadKeepsEverything ==
  ASSUME Calm
  PROVE  Spec => []NothingLostOnReload
<1>1. JournalInv => NothingLostOnReload
  BY DEF JournalInv, RecordsOK, RecordOK, StatusFacts, NothingLostOnReload
<1> QED BY <1>1, JournalInvariant, PTL

(* JournalConsistent: the state has its shape, and the transaction of a    *)
(* canonical record is on the chain, as reviewed and as deep as required.  *)
THEOREM CanonicalOnChain ==
  ASSUME Calm
  PROVE  Spec => []JournalConsistent
<1>1. ASSUME NEW r \in JournalRecords PROVE RecordType(r)
  <2>1. r.replacedBy \in Links BY DEF JournalRecords
  <2>2. DOMAIN r.replacedBy \subseteq Hashes
        /\ \A h \in DOMAIN r.replacedBy : r.replacedBy[h] \in Hashes \cup {None}
    BY <2>1, LinksFacts
  <2> QED BY <2>2 DEF RecordType, JournalRecords, HashesOf
<1>2. JournalInv => TypeOK
  <2> SUFFICES ASSUME JournalInv PROVE TypeOK OBVIOUS
  <2>1. DOMAIN storage \subseteq Intents /\ \A i \in DOMAIN storage : RecordType(storage[i])
    BY <1>1, JournalFacts DEF JournalInv, StateTypes
  <2>2. ASSUME NEW t \in Tabs, Opened(t), NEW i \in DOMAIN memory[t]
        PROVE  RecordType(memory[t][i])
    <3>1. memory[t] \in Journals BY <2>2 DEF Opened, JournalInv, MemoryOK, Within
    <3> QED BY <1>1, <2>2, <3>1, JournalFacts
  <2> QED BY <2>1, <2>2 DEF TypeOK, JournalInv, StateTypes, ChainOK
<1>3. JournalInv => JournalConsistent BY <1>2, CanonicalMined DEF JournalConsistent
<1> QED BY <1>3, JournalInvariant, PTL

(* CanonicalStays: no stale tab, late answer or late observation demotes a *)
(* canonical record.                                                       *)
THEOREM CanonicalForGood ==
  ASSUME Calm
  PROVE  Spec => CanonicalStays
<1>1. JournalInv /\ [Next]_vars => [CanonicalKept]_vars BY JournalInvStep
<1> QED BY <1>1, JournalInvariant, PTL DEF Spec, CanonicalStays

(* ReturnedHashRecorded: a hash that the wallet returns is recorded.       *)
THEOREM NoHashLost ==
  ASSUME Calm
  PROVE  Spec => ReturnedHashRecorded
<1>1. JournalInv /\ [Next]_vars => [HashRecorded]_vars BY SubmittedInv DEF HashRecorded
<1> QED BY <1>1, JournalInvariant, PTL DEF Spec, ReturnedHashRecorded

(* An intent is begun by begin.                                            *)
LEMMA BegunByBegin ==
  ASSUME JournalInv, [Next]_vars, NEW i \in Intents, wallet[i] = "none", wallet'[i] = "begun"
  PROVE  \E t \in Tabs : Begin(t, i)
<1>1. wallet \in [Intents -> WalletStates] BY DEF JournalInv, StateTypes
<1>2. wallet' # wallet BY <1>1
<1>3. ASSUME NEW t \in Tabs, TabNext(t) PROVE Begin(t, i)
  <2>1. CASE \E j \in Intents : Begin(t, j)
    <3>1. PICK j \in Intents : Begin(t, j) BY <2>1
    <3>2. wallet' = [wallet EXCEPT ![j] = "begun"] BY <3>1 DEF Begin
    <3>3. j = i BY <1>1, <3>2
    <3> QED BY <3>1, <3>3
  <2>2. CASE Send(t)
    <3>1. wallet' = [wallet EXCEPT ![task[t].intent] = "open"] BY <2>2 DEF Send
    <3>2. wallet'[i] \in {"open", "none"} BY <1>1, <3>1
    <3> QED BY <3>2
  <2>3. CASE ~Send(t) /\ ~\E j \in Intents : Begin(t, j)
    <3>1. wallet' = wallet
      BY <1>3, <2>3
      DEF TabNext, Open, Close, StorageEvent, Recover, Abort, Submitted, FailRejected,
          FailUnknown, ResultLost, StartProbe, ReadChain, ReadBlock, CommitProbe, Defer
    <3> QED BY <1>2, <3>1
  <2> QED BY <2>1, <2>2, <2>3
<1>4. CASE Environment
  <2>1. \/ wallet' = wallet
        \/ \E j \in Intents :
             \/ wallet' = [wallet EXCEPT ![j] = "approved"]
             \/ wallet' = [wallet EXCEPT ![j] = "rejected"]
    BY <1>4 DEF Environment, Approve, Reject, Replace, Mine, Reorg
  <2>2. wallet'[i] \in {"none", "approved", "rejected"} BY <1>1, <2>1
  <2> QED BY <2>2
<1>5. CASE UNCHANGED vars BY <1>2, <1>5 DEF vars
<1> QED BY <1>3, <1>4, <1>5 DEF Next

(* What begin checks is what is stored.                                    *)
LEMMA BeginChecks ==
  ASSUME JournalInv, NEW t \in Tabs, NEW i \in Intents, Begin(t, i)
  PROVE  ~RetryBlocked(storage, i)
<1>1. Within(memory[t], storage) BY DEF Begin, Opened, JournalInv, MemoryOK
<1>2. Current(t) = storage BY <1>1, CurrentStorage DEF JournalInv
<1> QED BY <1>2 DEF Begin

(* NoDuplicate: no intent is begun while another of its retry key can      *)
(* still be broadcast or take effect.                                      *)
THEOREM NoDuplicateIntent ==
  ASSUME Calm
  PROVE  Spec => NoDuplicate
<1>1. ASSUME JournalInv, [Next]_vars PROVE DuplicateExcluded
  <2> SUFFICES ASSUME NEW i \in Intents, NEW j \in Intents,
                      wallet[i] = "none", wallet'[i] = "begun", j # i, Key[j] = Key[i]
               PROVE  OutOfTheWay(j, Confirmations)
    BY DEF DuplicateExcluded
  <2>1. ~RetryBlocked(storage, i) BY <1>1, BegunByBegin, BeginChecks
  <2>2. CASE j \in DOMAIN storage
    <3>1. Resolved(storage[j]) BY <2>1, <2>2 DEF RetryBlocked
    <3> QED BY <1>1, <2>2, <3>1, ResolvedFacts
  <2>3. CASE j \notin DOMAIN storage
    <3>1. wallet[j] = "none" BY <1>1, <2>3 DEF JournalInv, WalletOK
    <3> QED BY <3>1 DEF OutOfTheWay
  <2> QED BY <2>2, <2>3
<1>2. JournalInv /\ [Next]_vars => [DuplicateExcluded]_vars BY <1>1
<1> QED BY <1>2, JournalInvariant, PTL DEF Spec, NoDuplicate

(* A record that is no longer watched shows that its intent is done, as    *)
(* deep as it was watched.                                                 *)
LEMMA UnwatchedFacts ==
  ASSUME JournalInv, NEW j \in DOMAIN storage, ~NeedsMonitoring(storage[j])
  PROVE  OutOfTheWay(j, MonitorConfirmations)
<1>1. PICK r : r = storage[j] OBVIOUS
<1>2. RecordOK(j, r) /\ r.confirmations \in Nat
  BY <1>1 DEF JournalInv, RecordsOK, RecordOK, JournalRecords
<1>3. CASE r.status \in {"rejected", "aborted"}
  <2>1. wallet[j] = "rejected" \/ (wallet[j] = "begun" /\ NoTask(j))
    BY <1>1, <1>3 DEF JournalInv, WalletOK
  <2> QED BY <2>1 DEF OutOfTheWay, NoTask
<1>4. CASE r.status \notin {"rejected", "aborted"}
  <2>1. r.confirmations >= MonitorConfirmations
    BY <1>1, <1>2, <1>4, JournalAssumption DEF NeedsMonitoring
  <2>2. r.confirmations >= Confirmations BY <1>2, <2>1, JournalAssumption
  <2>3. PICK n \in MinedAt(chain, r.activeHash) : Len(chain) - n + 1 >= r.confirmations
    BY <1>2, <2>2 DEF RecordOK, ChainFacts, Evidence
  <2>4. r.activeHash # None /\ r.activeHash.of = j
    BY <1>2, <2>2 DEF RecordOK, ChainFacts, StatusFacts, HashFacts
  <2>5. n \in 1..Len(chain) /\ chain[n].tx = r.activeHash BY <2>3 DEF MinedAt
  <2>6. Len(chain) - n + 1 >= MonitorConfirmations
    <3>1. Len(chain) \in Nat BY ChainFactsInv
    <3> QED BY <1>2, <2>1, <2>3, <2>5, <3>1, JournalAssumption
  <2> QED BY <2>4, <2>5, <2>6 DEF OutOfTheWay, Settled
<1> QED BY <1>3, <1>4

(* RemovalsExclude: no removal is begun while another of its pool is not   *)
(* out of the way to the depth to which it is watched.                     *)
THEOREM OneRemoval ==
  ASSUME Calm
  PROVE  Spec => RemovalsExclude
<1>1. ASSUME JournalInv, [Next]_vars PROVE RemovalExcluded
  <2> SUFFICES ASSUME NEW i \in Removals, NEW j \in Removals,
                      wallet[i] = "none", wallet'[i] = "begun", j # i
               PROVE  OutOfTheWay(j, MonitorConfirmations)
    BY DEF RemovalExcluded
  <2>1. i \in Intents /\ j \in Intents BY JournalAssumption
  <2>2. ~RetryBlocked(storage, i) BY <1>1, <2>1, BegunByBegin, BeginChecks
  <2>3. CASE j \in DOMAIN storage
    <3>1. ~NeedsMonitoring(storage[j]) BY <2>2, <2>3 DEF RetryBlocked
    <3> QED BY <1>1, <2>3, <3>1, UnwatchedFacts
  <2>4. CASE j \notin DOMAIN storage
    <3>1. wallet[j] = "none" BY <1>1, <2>1, <2>4 DEF JournalInv, WalletOK
    <3> QED BY <3>1 DEF OutOfTheWay
  <2> QED BY <2>3, <2>4
<1>2. JournalInv /\ [Next]_vars => [RemovalExcluded]_vars BY <1>1
<1> QED BY <1>2, JournalInvariant, PTL DEF Spec, RemovalsExclude
=============================================================================
