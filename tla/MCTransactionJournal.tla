----------------------- MODULE MCTransactionJournal -----------------------
(* Instances of TransactionJournal for TLC.                                *)
EXTENDS TransactionJournal, TLC

CONSTANTS t1, t2, i1, i2

SameKey == [i \in Intents |-> "key"]
KeyOfOwn == [i \in Intents |-> i]

TabSymmetry == Permutations(Tabs)
IntentSymmetry == Permutations(Intents)
TabIntentSymmetry == Permutations(Tabs) \cup Permutations(Intents)
=============================================================================
