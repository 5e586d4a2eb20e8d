-------------------------- MODULE MCJournalPairs --------------------------
(***************************************************************************)
(* TransactionJournal with two intents under two settings; a behaviour is  *)
(* of one or the other: two tabs that share a retry key; and one tab with  *)
(* two removals of one pool, whose transactions a reorganisation as deep   *)
(* as the confirmations may undo.                                          *)
(***************************************************************************)
EXTENDS MCTransactionJournal

CONSTANT t3

VARIABLES
  setting,   \* tabs, deep
  storage2, memory2, task2, probe2, wallet2, sent2, nonce2, chain2, reorgs2

(* The constants and variables of the module itself are those of the two   *)
(* tabs.                                                                   *)
Deep == INSTANCE TransactionJournal WITH
  Tabs <- {t3}, Key <- KeyOfOwn, Removals <- Intents,
  Replacements <- {}, Confirmations <- 2, MonitorConfirmations <- 3,
  ReorgDepth <- 2, HeadMoves <- FALSE, LookupsFail <- FALSE,
  MaxBlocks <- 4, MaxReorgs <- 1, MaxRevision <- 3, MaxRevisions <- 4,
  storage <- storage2, memory <- memory2, task <- task2, probe <- probe2,
  wallet <- wallet2, sent <- sent2, nonce <- nonce2, chain <- chain2, reorgs <- reorgs2

deepVars == <<storage2, memory2, task2, probe2, wallet2, sent2, nonce2, chain2, reorgs2>>

MCInit == setting \in {"tabs", "deep"} /\ Init /\ Deep!Init

MCNext ==
  \/ setting = "tabs" /\ Next /\ UNCHANGED <<setting, deepVars>>
  \/ setting = "deep" /\ Deep!Next /\ UNCHANGED <<setting, vars>>

MCSpec == MCInit /\ [][MCNext]_<<setting, vars, deepVars>>

(* RemovalsExclude, where reorganisations are deep: a removal is begun     *)
(* only when the other of its pool is out of the way.                      *)
DeepRemovalsExclude == Deep!RemovalsExclude

(* CanonicalOnEvidence, where reorganisations are deep: a record becomes   *)
(* canonical only by an observation, and its transaction is then on the    *)
(* chain unless the block looked up last was replaced before the write.    *)
DeepCanonicalOnEvidence == Deep!CanonicalOnEvidence
=============================================================================
