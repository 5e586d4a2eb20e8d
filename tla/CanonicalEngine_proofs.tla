---------------------- MODULE CanonicalEngine_proofs ----------------------
(***************************************************************************)
(* Proofs about CanonicalEngine, for any tree of blocks, events and        *)
(* requirements, throwing events included: the retained chain is linked,   *)
(* whatever was torn has healed by the time every retained block applies,  *)
(* and a checkpoint restores what it was exported from.                    *)
(***************************************************************************)
EXTENDS CanonicalEngine, SequenceTheorems, WellFoundedInduction, TLAPS

-----------------------------------------------------------------------------
(* Chains.                                                                 *)

LinkedChain(c) ==
  \A i \in 2..Len(c) : /\ Parent[c[i].id] = c[i - 1].id
                       /\ Number[c[i].id] = Number[c[i - 1].id] + 1

(* The height of a block is that of the first and its distance from it.    *)
Heights(c) == \A i \in 1..Len(c) : Number[c[i].id] = Number[c[1].id] + i - 1

Clock(c) == \A i, j \in 1..Len(c) : i <= j => Time[c[i].id] <= Time[c[j].id]

ChainOK(c) == c \in Seq(Envelope) /\ LinkedChain(c) /\ Heights(c) /\ Clock(c)

LEMMA ChainLen ==
  ASSUME NEW c \in Seq(Envelope)
  PROVE  /\ Len(c) \in Nat /\ DOMAIN c = 1..Len(c)
         /\ \A i \in 1..Len(c) : c[i] \in Envelope
  BY LenProperties, ElementOfSeq

LEMMA PrefixSeq ==
  ASSUME NEW c \in Seq(Envelope), NEW n \in 0..Len(c)
  PROVE  /\ Prefix(c, n) \in Seq(Envelope) /\ Len(Prefix(c, n)) = n
         /\ \A i \in 1..n : Prefix(c, n)[i] = c[i]
  <1>1. n \in Int /\ Len(c) \in Nat  BY ChainLen
  <1>2. \A i \in 1..n : c[i] \in Envelope  BY <1>1, ChainLen
  <1>3. /\ SubSeq(c, 1, n) \in Seq(Envelope)
        /\ Len(SubSeq(c, 1, n)) = IF 1 <= n THEN n - 1 + 1 ELSE 0
        /\ \A i \in 1..(n - 1 + 1) : SubSeq(c, 1, n)[i] = c[1 + i - 1]
    BY <1>1, <1>2, SubSeqProperties
  <1> QED  BY <1>1, <1>3 DEF Prefix

LEMMA PrefixWhole ==
  ASSUME NEW c \in Seq(Envelope)
  PROVE  Prefix(c, Len(c)) = c
  BY SubSeqFull DEF Prefix

(* A chain of the same blocks is as good.                                  *)
LEMMA SameBlocks ==
  ASSUME NEW c, ChainOK(c), NEW d \in Seq(Envelope), Len(d) <= Len(c),
         \A i \in 1..Len(d) : d[i].id = c[i].id
  PROVE  ChainOK(d)
  <1>1. Len(c) \in Nat /\ Len(d) \in Nat  BY ChainLen DEF ChainOK
  <1>2. LinkedChain(d)
    <2> SUFFICES ASSUME NEW i \in 2..Len(d)
                 PROVE  /\ Parent[d[i].id] = d[i - 1].id
                        /\ Number[d[i].id] = Number[d[i - 1].id] + 1
      BY DEF LinkedChain
    <2>1. i \in 1..Len(d) /\ i - 1 \in 1..Len(d) /\ i \in 2..Len(c)  BY <1>1
    <2> QED  BY <2>1 DEF ChainOK, LinkedChain
  <1>3. Heights(d)
    <2> SUFFICES ASSUME NEW i \in 1..Len(d) PROVE Number[d[i].id] = Number[d[1].id] + i - 1
      BY DEF Heights
    <2>1. i \in 1..Len(c) /\ 1 \in 1..Len(d)  BY <1>1
    <2> QED  BY <2>1 DEF ChainOK, Heights
  <1>4. Clock(d)
    <2>1. \A i \in 1..Len(d) : i \in 1..Len(c)  BY <1>1
    <2> QED  BY <2>1 DEF ChainOK, Clock
  <1> QED  BY <1>2, <1>3, <1>4 DEF ChainOK

LEMMA PrefixOK ==
  ASSUME NEW c, ChainOK(c), NEW n \in 0..Len(c)
  PROVE  ChainOK(Prefix(c, n))
  <1>1. c \in Seq(Envelope) /\ Len(c) \in Nat  BY ChainLen DEF ChainOK
  <1>2. /\ Prefix(c, n) \in Seq(Envelope) /\ Len(Prefix(c, n)) = n
        /\ \A i \in 1..n : Prefix(c, n)[i] = c[i]
    BY <1>1, PrefixSeq
  <1> QED  BY <1>1, <1>2, SameBlocks

(* A block is found where it is retained.                                  *)
LEMMA IndexFound ==
  ASSUME NEW c \in Seq(Envelope), NEW b, RetainedIn(c, b)
  PROVE  IndexOf(c, b) \in 1..Len(c) /\ c[IndexOf(c, b)].id = b
  BY ChainLen DEF RetainedIn, IndexOf

LEMMA AppendSeq ==
  ASSUME NEW c \in Seq(Envelope), NEW env \in Envelope
  PROVE  /\ Append(c, env) \in Seq(Envelope) /\ Len(Append(c, env)) = Len(c) + 1
         /\ \A i \in 1..Len(c) : Append(c, env)[i] = c[i]
         /\ Append(c, env)[Len(c) + 1] = env
         /\ Append(c, env) # <<>> /\ Last(Append(c, env)) = env
  <1>1. /\ Append(c, env) \in Seq(Envelope) /\ Len(Append(c, env)) = Len(c) + 1
        /\ \A i \in 1..Len(c) : Append(c, env)[i] = c[i]
        /\ Append(c, env)[Len(c) + 1] = env
    BY AppendProperties
  <1>2. Len(c) \in Nat /\ Len(<<>>) = 0  BY ChainLen, EmptySeq
  <1> QED  BY <1>1, <1>2 DEF Last

(* A chain grows by a child of its head.                                   *)
LEMMA AppendOK ==
  ASSUME NEW c, ChainOK(c), NEW env \in Envelope, Extends(c, env.id)
  PROVE  ChainOK(Append(c, env))
  <1> DEFINE d == Append(c, env)
             n == Len(c)
  <1>1. n \in Nat /\ c \in Seq(Envelope) /\ \A i \in 1..n : c[i] \in Envelope
    BY ChainLen DEF ChainOK
  <1>2. /\ d \in Seq(Envelope) /\ Len(d) = n + 1
        /\ \A i \in 1..n : d[i] = c[i]
        /\ d[n + 1] = env
    BY <1>1, AppendSeq
  <1> HIDE DEF d
  <1>3. \A i \in 1..(n + 1) : Number[d[i].id] \in Nat /\ Time[d[i].id] \in Nat
    <2>1. \A i \in 1..(n + 1) : d[i] \in Envelope  BY <1>2, ElementOfSeq
    <2> QED  BY <2>1, BlockAssumption DEF BlockAssumption, Envelope
  <1>4. n >= 1 => /\ Parent[env.id] = c[n].id
                  /\ Number[env.id] = Number[c[n].id] + 1
                  /\ Time[c[n].id] <= Time[env.id]
    <2> SUFFICES ASSUME n >= 1
                 PROVE  /\ Parent[env.id] = c[n].id /\ Number[env.id] = Number[c[n].id] + 1
                        /\ Time[c[n].id] <= Time[env.id]
      OBVIOUS
    <2>1. c # <<>>  BY <1>1, EmptySeq
    <2>2. Parent[env.id] = c[n].id /\ Number[env.id] = Number[c[n].id] + 1
      BY <2>1 DEF Extends, Last
    <2>3. env.id \in Blocks /\ c[n].id \in Blocks  BY <1>1 DEF Envelope
    <2> QED  BY <2>2, <2>3, ClockAssumption DEF ClockAssumption
  <1>5. LinkedChain(d)
    <2> SUFFICES ASSUME NEW i \in 2..Len(d)
                 PROVE  /\ Parent[d[i].id] = d[i - 1].id
                        /\ Number[d[i].id] = Number[d[i - 1].id] + 1
      BY DEF LinkedChain
    <2>1. CASE i <= n
      <3>1. i \in 2..n /\ i \in 1..n /\ i - 1 \in 1..n  BY <1>1, <2>1
      <3> QED  BY <1>2, <3>1 DEF ChainOK, LinkedChain
    <2>2. CASE i = n + 1
      <3>1. n >= 1 /\ i - 1 = n /\ n \in 1..n  BY <1>1, <1>2, <2>2
      <3> QED  BY <1>2, <1>4, <2>2, <3>1
    <2> QED  BY <1>1, <1>2, <2>1, <2>2
  <1>6. Heights(d)
    <2> SUFFICES ASSUME NEW i \in 1..Len(d) PROVE Number[d[i].id] = Number[d[1].id] + i - 1
      BY DEF Heights
    <2>1. CASE i <= n
      <3>1. i \in 1..n /\ 1 \in 1..n  BY <1>1, <2>1
      <3> QED  BY <1>2, <3>1 DEF ChainOK, Heights
    <2>2. CASE i = n + 1 /\ n >= 1
      <3>1. n \in 1..n /\ 1 \in 1..n /\ 1 \in 1..(n + 1)  BY <1>1, <2>2
      <3>2. Number[c[n].id] = Number[c[1].id] + n - 1  BY <3>1 DEF ChainOK, Heights
      <3>3. d[i] = env /\ d[1] = c[1] /\ Number[d[1].id] \in Nat  BY <1>2, <1>3, <2>2, <3>1
      <3>4. Number[d[i].id] = Number[d[1].id] + n - 1 + 1  BY <1>4, <2>2, <3>2, <3>3
      <3>5. \A x \in Nat : x + n - 1 + 1 = x + (n + 1) - 1  BY <1>1
      <3>6. Number[d[i].id] = Number[d[1].id] + (n + 1) - 1  BY <3>3, <3>4, <3>5
      <3> QED  BY <2>2, <3>6
    <2>3. CASE i = n + 1 /\ n = 0
      <3>1. i = 1 /\ Number[d[1].id] \in Nat  BY <1>3, <2>3
      <3> QED  BY <3>1
    <2> QED  BY <1>1, <1>2, <2>1, <2>2, <2>3
  <1>7. Clock(d)
    <2> SUFFICES ASSUME NEW i \in 1..Len(d), NEW j \in 1..Len(d), i <= j
                 PROVE  Time[d[i].id] <= Time[d[j].id]
      BY DEF Clock
    <2>1. CASE j <= n
      <3>1. i \in 1..n /\ j \in 1..n  BY <1>1, <2>1
      <3> QED  BY <1>2, <3>1 DEF ChainOK, Clock
    <2>2. CASE i <= n /\ j = n + 1
      <3>1. i \in 1..n /\ n \in 1..n /\ i <= n /\ n >= 1  BY <1>1, <2>2
      <3>2. Time[c[i].id] <= Time[c[n].id]  BY <3>1 DEF ChainOK, Clock
      <3>3. i \in 1..(n + 1) /\ n \in 1..(n + 1) /\ n + 1 \in 1..(n + 1)  BY <1>1, <3>1
      <3>4. d[i] = c[i] /\ d[n] = c[n] /\ d[j] = env  BY <1>2, <2>2, <3>1
      <3>5. Time[d[i].id] <= Time[d[n].id] /\ Time[d[n].id] <= Time[d[j].id]
        BY <1>4, <3>1, <3>2, <3>4
      <3>6. Time[d[i].id] \in Nat /\ Time[d[n].id] \in Nat /\ Time[d[j].id] \in Nat
        BY <1>3, <2>2, <3>3
      <3> QED  BY <3>5, <3>6
    <2>3. CASE i = n + 1 /\ j = n + 1
      <3>1. n + 1 \in 1..(n + 1)  BY <1>1
      <3>2. Time[d[i].id] \in Nat  BY <1>3, <2>3, <3>1
      <3> QED  BY <2>3, <3>2
    <2> QED  BY <1>1, <1>2, <2>1, <2>2, <2>3
  <1> QED  BY <1>2, <1>5, <1>6, <1>7 DEF ChainOK, d

-----------------------------------------------------------------------------
(* Histories.  What block i keeps and whether it applies depends only on   *)
(* what the blocks before it keep.                                         *)

KeptTo(c, n) == UNION {c[i].kept : i \in 1..n}

CanonicalAt(c, i) == c[i] = Canonical(c[i].id, KeptTo(c, i - 1))
AppliesAt(c, i) == Applied(KeptTo(c, i - 1), c[i]) = c[i]
GoodTo(c, n) == \A i \in 1..n : CanonicalAt(c, i) /\ AppliesAt(c, i)

LEMMA KeptAt ==
  ASSUME NEW c, NEW i, CanonicalAt(c, i)
  PROVE  c[i].kept = Range(Events[c[i].id]) \ KeptTo(c, i - 1)
  <1> DEFINE b == c[i].id
             known == KeptTo(c, i - 1)
  <1>1. c[i] = [id |-> b, kept |-> Range(Events[b]) \ known]  BY DEF CanonicalAt, Canonical
  <1> HIDE DEF b, known
  <1>2. c[i].kept = Range(Events[b]) \ known  BY <1>1
  <1> QED  BY <1>2 DEF b, known

LEMMA KeptPrefix ==
  ASSUME NEW c \in Seq(Envelope), NEW n \in 0..Len(c)
  PROVE  Identities(Prefix(c, n)) = KeptTo(c, n)
  <1>1. /\ Prefix(c, n) \in Seq(Envelope) /\ Len(Prefix(c, n)) = n
        /\ \A i \in 1..n : Prefix(c, n)[i] = c[i]
    BY PrefixSeq
  <1>2. DOMAIN Prefix(c, n) = 1..n  BY <1>1, ChainLen
  <1> QED  BY <1>1, <1>2 DEF Identities, KeptTo

LEMMA KeptWhole ==
  ASSUME NEW c \in Seq(Envelope)
  PROVE  Identities(c) = KeptTo(c, Len(c))
  BY ChainLen DEF Identities, KeptTo

LEMMA Agree ==
  ASSUME NEW c, NEW d, NEW n \in Nat, \A i \in 1..n : c[i] = d[i]
  PROVE  /\ KeptTo(c, n) = KeptTo(d, n)
         /\ \A i \in 1..n : /\ KeptTo(c, i - 1) = KeptTo(d, i - 1)
                            /\ CanonicalAt(c, i) <=> CanonicalAt(d, i)
                            /\ AppliesAt(c, i) <=> AppliesAt(d, i)
         /\ \A m \in 0..n : GoodTo(c, m) <=> GoodTo(d, m)
  <1>1. \A m \in 0..n : KeptTo(c, m) = KeptTo(d, m)
    <2> SUFFICES ASSUME NEW m \in 0..n PROVE KeptTo(c, m) = KeptTo(d, m)  OBVIOUS
    <2>1. \A i \in 1..m : i \in 1..n  OBVIOUS
    <2> QED  BY <2>1 DEF KeptTo
  <1>2. \A i \in 1..n : /\ KeptTo(c, i - 1) = KeptTo(d, i - 1)
                        /\ CanonicalAt(c, i) <=> CanonicalAt(d, i)
                        /\ AppliesAt(c, i) <=> AppliesAt(d, i)
    <2> SUFFICES ASSUME NEW i \in 1..n
                 PROVE  /\ KeptTo(c, i - 1) = KeptTo(d, i - 1)
                        /\ CanonicalAt(c, i) <=> CanonicalAt(d, i)
                        /\ AppliesAt(c, i) <=> AppliesAt(d, i)
      OBVIOUS
    <2>1. i - 1 \in 0..n  OBVIOUS
    <2> QED  BY <1>1, <2>1 DEF CanonicalAt, AppliesAt
  <1>3. \A m \in 0..n : GoodTo(c, m) <=> GoodTo(d, m)
    <2> SUFFICES ASSUME NEW m \in 0..n PROVE GoodTo(c, m) <=> GoodTo(d, m)  OBVIOUS
    <2>1. \A i \in 1..m : i \in 1..n  OBVIOUS
    <2> QED  BY <1>2, <2>1 DEF GoodTo
  <1> QED  BY <1>1, <1>2, <1>3

LEMMA GoodPrefix ==
  ASSUME NEW c \in Seq(Envelope), NEW n \in Nat, GoodTo(c, n), NEW m \in 0..n, m <= Len(c)
  PROVE  GoodTo(Prefix(c, m), m)
  <1>1. Len(c) \in Nat  BY ChainLen
  <1>2. m \in 0..Len(c)  BY <1>1
  <1>3. \A i \in 1..m : Prefix(c, m)[i] = c[i]  BY <1>2, PrefixSeq
  <1>4. GoodTo(c, m)
    <2>1. \A i \in 1..m : i \in 1..n  OBVIOUS
    <2> QED  BY <2>1 DEF GoodTo
  <1>5. m \in 0..m /\ m \in Nat  OBVIOUS
  <1> DEFINE d == Prefix(c, m)
  <1>6. \A i \in 1..m : c[i] = d[i]  BY <1>3
  <1> HIDE DEF d
  <1>7. GoodTo(c, m) <=> GoodTo(d, m)  BY <1>5, <1>6, Agree
  <1> QED  BY <1>4, <1>7 DEF d

(* Least elements.                                                         *)
LEMMA MinProperties ==
  ASSUME NEW T, T \subseteq Nat, T # {}
  PROVE  Min(T) \in T /\ \A y \in T : Min(T) <= y
  <1>1. PICK x \in T : \A y \in T : ~ (<<y, x>> \in OpToRel(<, Nat))
    BY NatLessThanWellFounded, WFMin, Zenon
  <1>2. \A y \in T : x <= y
    <2> SUFFICES ASSUME NEW y \in T PROVE x <= y  OBVIOUS
    <2>1. x \in Nat /\ y \in Nat  OBVIOUS
    <2>2. ~ (y < x)  BY <1>1, <2>1 DEF OpToRel
    <2> QED  BY <2>1, <2>2
  <1> QED  BY <1>2 DEF Min

(* What applies of an envelope is an envelope of the same block.           *)
LEMMA AppliedType ==
  ASSUME NEW env \in Envelope, NEW done
  PROVE  Applied(done, env) \in Envelope /\ Applied(done, env).id = env.id
  BY DEF Applied, Envelope

LEMMA CanonicalType ==
  ASSUME NEW b \in Blocks, NEW known
  PROVE  Canonical(b, known) \in Envelope /\ Canonical(b, known).id = b
  <1>1. Range(Events[b]) \subseteq EventIds  BY DEF EventIds
  <1> QED  BY <1>1 DEF Canonical, Envelope

LEMMA TornWhere ==
  ASSUME NEW c \in Seq(Envelope)
  PROVE  Torn(c) = {i \in 1..Len(c) : ~AppliesAt(c, i)}
  <1>1. Len(c) \in Nat /\ DOMAIN c = 1..Len(c)  BY ChainLen
  <1>2. \A i \in 1..Len(c) : Identities(Prefix(c, i - 1)) = KeptTo(c, i - 1)
    <2> SUFFICES ASSUME NEW i \in 1..Len(c)
                 PROVE  Identities(Prefix(c, i - 1)) = KeptTo(c, i - 1)
      OBVIOUS
    <2>1. i - 1 \in 0..Len(c)  BY <1>1
    <2> QED  BY <2>1, KeptPrefix
  <1> QED  BY <1>1, <1>2 DEF Torn, AppliesAt

(* The views a rebuild makes.                                              *)
Sound(c, vs, ix) == GoodTo(c, Len(c)) /\ vs = c /\ ix = Identities(c)

TornFrom(c, k) ==
  k \in 1..Len(c) /\ GoodTo(c, k - 1) /\ CanonicalAt(c, k) /\ ~AppliesAt(c, k)

Stuck(c, vs, k) == TornFrom(c, k) /\ k <= Len(vs) /\ vs[k] # c[k]

(* Every retained block applied, and the views and the index are theirs;   *)
(* or the views miss a part of the first block that does not apply.        *)
History(c, vs, ix) == Sound(c, vs, ix) \/ \E k \in 1..Len(c) : Stuck(c, vs, k)

LEMMA RebuiltWhole ==
  ASSUME NEW c \in Seq(Envelope), GoodTo(c, Len(c))
  PROVE  Torn(c) = {} /\ Rebuilt(c) = c
  <1>1. Torn(c) = {}  BY TornWhere DEF GoodTo
  <1> QED  BY <1>1 DEF Rebuilt

LEMMA RebuiltStuck ==
  ASSUME NEW c \in Seq(Envelope), NEW k, TornFrom(c, k)
  PROVE  Rebuilt(c) \in Seq(Envelope) /\ Stuck(c, Rebuilt(c), k)
  <1>1. Len(c) \in Nat /\ k \in 1..Len(c) /\ c[k] \in Envelope  BY ChainLen DEF TornFrom
  <1>2. k \in Torn(c) /\ Torn(c) \subseteq Nat  BY <1>1, TornWhere DEF TornFrom
  <1>3. Min(Torn(c)) = k
    <2>1. Min(Torn(c)) \in Torn(c) /\ Min(Torn(c)) <= k  BY <1>2, MinProperties
    <2>2. Min(Torn(c)) \in 1..Len(c) /\ ~AppliesAt(c, Min(Torn(c)))  BY <2>1, TornWhere
    <2>3. Min(Torn(c)) \notin 1..(k - 1)  BY <2>2 DEF TornFrom, GoodTo
    <2> QED  BY <1>1, <2>1, <2>2, <2>3
  <1> DEFINE stem == Prefix(c, k - 1)
             done == Applied(Identities(stem), c[k])
  <1>4. Rebuilt(c) = Append(stem, done)  BY <1>2, <1>3 DEF Rebuilt
  <1>5. k - 1 \in 0..Len(c)  BY <1>1
  <1>6. stem \in Seq(Envelope) /\ Len(stem) = k - 1 /\ Identities(stem) = KeptTo(c, k - 1)
    BY <1>5, PrefixSeq, KeptPrefix
  <1>7. done \in Envelope /\ done # c[k]
    BY <1>1, <1>6, AppliedType DEF TornFrom, AppliesAt
  <1> HIDE DEF stem, done
  <1>8. /\ Append(stem, done) \in Seq(Envelope) /\ Len(Append(stem, done)) = k
        /\ Append(stem, done)[k] = done
    <2>1. Len(stem) + 1 = k  BY <1>1, <1>6
    <2> QED  BY <1>6, <1>7, <2>1, AppendSeq
  <1> QED  BY <1>1, <1>4, <1>7, <1>8 DEF Stuck

(* A chain with a new last block, after a good one.                        *)
LEMMA GrownHistory ==
  ASSUME NEW c \in Seq(Envelope), GoodTo(c, Len(c)), NEW b \in Blocks
  PROVE  LET d == Append(c, Canonical(b, Identities(c))) IN
         /\ CanonicalAt(d, Len(c) + 1)
         /\ AppliesAt(d, Len(c) + 1)
              <=> Applied(Identities(c), Canonical(b, Identities(c))) = Canonical(b, Identities(c))
         /\ AppliesAt(d, Len(c) + 1) => GoodTo(d, Len(d))
         /\ ~AppliesAt(d, Len(c) + 1) => TornFrom(d, Len(c) + 1)
  <1> DEFINE env == Canonical(b, Identities(c))
             d == Append(c, env)
             n == Len(c)
  <1>1. n \in Nat /\ env \in Envelope /\ env.id = b  BY ChainLen, CanonicalType
  <1>2. /\ Len(d) = n + 1 /\ d[n + 1] = env
        /\ \A i \in 1..n : c[i] = d[i]
    BY <1>1, AppendSeq
  <1>3. KeptTo(d, n) = Identities(c)
    <2> HIDE DEF d
    <2>1. KeptTo(c, n) = KeptTo(d, n)  BY <1>1, <1>2, Agree
    <2> QED  BY <2>1, KeptWhole
  <1>4. CanonicalAt(d, n + 1) /\ (AppliesAt(d, n + 1) <=> Applied(Identities(c), env) = env)
    <2>1. KeptTo(d, n + 1 - 1) = Identities(c)  BY <1>1, <1>3
    <2> QED  BY <1>1, <1>2, <2>1 DEF CanonicalAt, AppliesAt
  <1>5. GoodTo(d, n)
    <2>1. n \in 0..n  BY <1>1
    <2> QED  BY <1>1, <1>2, <2>1, Agree
  <1>6. AppliesAt(d, n + 1) => GoodTo(d, Len(d))
    <2>1. \A i \in 1..(n + 1) : i \in 1..n \/ i = n + 1  BY <1>1
    <2> QED  BY <1>2, <1>4, <1>5, <2>1 DEF GoodTo
  <1>7. ~AppliesAt(d, n + 1) => TornFrom(d, n + 1)
    <2>1. n + 1 \in 1..Len(d) /\ n + 1 - 1 = n  BY <1>1, <1>2
    <2> QED  BY <1>4, <1>5, <2>1 DEF TornFrom
  <1> QED  BY <1>4, <1>6, <1>7

(* A chain whose first torn block stays stays torn.                        *)
LEMMA StillTorn ==
  ASSUME NEW c \in Seq(Envelope), NEW k, TornFrom(c, k),
         NEW d \in Seq(Envelope), k <= Len(d), \A i \in 1..k : d[i] = c[i]
  PROVE  TornFrom(d, k)
  <1>1. k \in Nat /\ k \in 1..k /\ k - 1 \in 0..k /\ k >= 1
    <2>1. Len(c) \in Nat  BY ChainLen
    <2> QED  BY <2>1 DEF TornFrom
  <1>2. Len(d) \in Nat  BY ChainLen
  <1>3. k \in 1..Len(d)  BY <1>1, <1>2
  <1>4. \A i \in 1..k : c[i] = d[i]  OBVIOUS
  <1> QED  BY <1>1, <1>3, <1>4, Agree DEF TornFrom

-----------------------------------------------------------------------------
(* Restored checkpoints.                                                   *)

LEMMA ReplayedSeq ==
  ASSUME NEW c \in Seq(Envelope)
  PROVE  /\ Replayed(c) \in Seq(Envelope) /\ Len(Replayed(c)) = Len(c)
         /\ \A i \in 1..Len(c) :
              /\ Replayed(c)[i].id = c[i].id
              /\ Replayed(c)[i].kept = c[i].kept \ KeptTo(c, i - 1)
  <1> DEFINE n == Len(c)
             new(i) == [c[i] EXCEPT !.kept = @ \ Identities(Prefix(c, i - 1))]
             d == [i \in 1..n |-> new(i)]
  <1>1. n \in Nat /\ DOMAIN c = 1..n /\ \A i \in 1..n : c[i] \in Envelope  BY ChainLen
  <1>2. Replayed(c) = d  BY <1>1 DEF Replayed
  <1>3. \A i \in 1..n : /\ new(i) \in Envelope /\ new(i).id = c[i].id
                        /\ new(i).kept = c[i].kept \ KeptTo(c, i - 1)
    <2> SUFFICES ASSUME NEW i \in 1..n
                 PROVE  /\ new(i) \in Envelope /\ new(i).id = c[i].id
                        /\ new(i).kept = c[i].kept \ KeptTo(c, i - 1)
      OBVIOUS
    <2>1. c[i] \in Envelope /\ i - 1 \in 0..n  BY <1>1
    <2>2. Identities(Prefix(c, i - 1)) = KeptTo(c, i - 1)  BY <2>1, KeptPrefix
    <2> QED  BY <2>1, <2>2 DEF Envelope
  <1> HIDE DEF new
  <1>4. d \in [1..n -> Envelope] /\ \A i \in 1..n : d[i] = new(i)  BY <1>3
  <1> HIDE DEF d
  <1>5. d \in Seq(Envelope)  BY <1>1, <1>4, SeqDef
  <1>6. Len(d) = n  BY <1>1, <1>4, <1>5, LenProperties
  <1> QED  BY <1>2, <1>3, <1>4, <1>5, <1>6

LEMMA ReplayedSame ==
  ASSUME NEW c \in Seq(Envelope), NEW n \in 0..Len(c), \A i \in 1..n : CanonicalAt(c, i)
  PROVE  \A i \in 1..n : Replayed(c)[i] = c[i]
  <1> SUFFICES ASSUME NEW i \in 1..n PROVE Replayed(c)[i] = c[i]  OBVIOUS
  <1>1. Len(c) \in Nat  BY ChainLen
  <1>2. i \in 1..Len(c)  BY <1>1
  <1>3. Replayed(c)[i] \in Envelope /\ c[i] \in Envelope
    BY <1>2, ReplayedSeq, ElementOfSeq
  <1>4. c[i].kept = Range(Events[c[i].id]) \ KeptTo(c, i - 1)
    BY KeptAt
  <1>5. Replayed(c)[i].id = c[i].id /\ Replayed(c)[i].kept = c[i].kept
    BY <1>2, <1>4, ReplayedSeq
  <1> QED  BY <1>3, <1>5 DEF Envelope

LEMMA LinkedBlocks ==
  ASSUME NEW c, ChainOK(c)
  PROVE  Linked(c)
  <1>1. c \in Seq(Envelope) /\ Len(c) \in Nat  BY ChainLen DEF ChainOK
  <1> SUFFICES ASSUME NEW i \in 2..Len(c) PROVE Extends(Prefix(c, i - 1), c[i].id)
    BY DEF Linked
  <1>2. i - 1 \in 0..Len(c) /\ i - 1 \in 1..(i - 1)  BY <1>1
  <1>3. Len(Prefix(c, i - 1)) = i - 1 /\ Prefix(c, i - 1)[i - 1] = c[i - 1]
    BY <1>1, <1>2, PrefixSeq
  <1>4. Last(Prefix(c, i - 1)) = c[i - 1]  BY <1>3 DEF Last
  <1> QED  BY <1>4 DEF Extends, ChainOK, LinkedChain

LEMMA RestorableGood ==
  ASSUME NEW c, ChainOK(c), GoodTo(c, Len(c))
  PROVE  Restorable(c) /\ Replayed(c) = c
  <1>1. c \in Seq(Envelope) /\ Len(c) \in Nat  BY ChainLen DEF ChainOK
  <1>2. Replayed(c) = c
    <2>1. Len(c) \in 0..Len(c) /\ \A i \in 1..Len(c) : CanonicalAt(c, i)  BY <1>1 DEF GoodTo
    <2>2. \A i \in 1..Len(c) : Replayed(c)[i] = c[i]  BY <1>1, <2>1, ReplayedSame
    <2>3. Replayed(c) \in Seq(Envelope) /\ Len(Replayed(c)) = Len(c)  BY <1>1, ReplayedSeq
    <2> QED  BY <1>1, <2>2, <2>3, SeqEqual
  <1>3. Torn(c) = {}  BY <1>1, RebuiltWhole
  <1>4. Linked(c)  BY LinkedBlocks
  <1> QED  BY <1>2, <1>3, <1>4 DEF Restorable

LEMMA NotRestorable ==
  ASSUME NEW c \in Seq(Envelope), NEW k, TornFrom(c, k)
  PROVE  ~Restorable(c)
  <1>1. Len(c) \in Nat /\ k \in 1..Len(c)  BY ChainLen DEF TornFrom
  <1>2. \A i \in 1..k : CanonicalAt(c, i)
    <2>1. \A i \in 1..k : i \in 1..(k - 1) \/ i = k  BY <1>1
    <2> QED  BY <2>1 DEF TornFrom, GoodTo
  <1>3. k \in 0..Len(c)  BY <1>1
  <1>4. \A i \in 1..k : Replayed(c)[i] = c[i]  BY <1>2, <1>3, ReplayedSame
  <1>5. Replayed(c) \in Seq(Envelope) /\ k <= Len(Replayed(c))  BY <1>1, ReplayedSeq
  <1>6. TornFrom(Replayed(c), k)  BY <1>4, <1>5, StillTorn
  <1>7. k \in Torn(Replayed(c))  BY <1>5, <1>6, TornWhere DEF TornFrom
  <1> QED  BY <1>7 DEF Restorable

-----------------------------------------------------------------------------
(* The steps of the engine, each with whatever surrounds it.               *)

Retained(c, vs, ix) ==
  ChainOK(c) /\ vs \in Seq(Envelope) /\ ix \subseteq EventIds /\ History(c, vs, ix)

LEMMA IdentitiesType ==
  ASSUME NEW c \in Seq(Envelope)
  PROVE  Identities(c) \subseteq EventIds
  <1>1. \A i \in DOMAIN c : c[i] \in Envelope  BY ChainLen
  <1>2. \A i \in DOMAIN c : c[i].kept \subseteq EventIds  BY <1>1 DEF Envelope
  <1> QED  BY <1>2 DEF Identities

LEMMA AppendedStep ==
  ASSUME Retained(blocks, views, eventIndex), NEW b \in Blocks, Appended(b)
  PROVE  Retained(blocks, views, eventIndex)'
  <1> DEFINE env == Canonical(b, eventIndex)
             done == Applied(Identities(views), env)
  <1>1. /\ Extends(blocks, b)
        /\ blocks' = Append(blocks, env)
        /\ views' = Append(views, done)
        /\ eventIndex' = IF done = env THEN eventIndex \cup env.kept ELSE eventIndex
    BY DEF Appended
  <1>2. /\ blocks \in Seq(Envelope) /\ Len(blocks) \in Nat
        /\ views \in Seq(Envelope) /\ Len(views) \in Nat
    BY ChainLen DEF Retained, ChainOK
  <1>3. env \in Envelope /\ env.id = b  BY CanonicalType
  <1>4. done \in Envelope  BY <1>3, AppliedType
  <1> HIDE DEF done
  <1>5. /\ blocks' \in Seq(Envelope) /\ Len(blocks') = Len(blocks) + 1
        /\ blocks'[Len(blocks) + 1] = env
        /\ \A i \in 1..Len(blocks) : blocks'[i] = blocks[i]
    BY <1>1, <1>2, <1>3, AppendSeq
  <1>6. /\ views' \in Seq(Envelope) /\ Len(views') = Len(views) + 1
        /\ views'[Len(views) + 1] = done
        /\ \A i \in 1..Len(views) : views'[i] = views[i]
    BY <1>1, <1>2, <1>4, AppendSeq
  <1>7. ChainOK(blocks)'  BY <1>1, <1>3, AppendOK DEF Retained
  <1>8. eventIndex' \subseteq EventIds  BY <1>1, <1>3 DEF Retained, Envelope
  <1>9. History(blocks, views, eventIndex)'
    <2>1. CASE Sound(blocks, views, eventIndex)
      <3>1. /\ GoodTo(blocks, Len(blocks)) /\ views = blocks
            /\ env = Canonical(b, Identities(blocks))
            /\ done = Applied(Identities(blocks), Canonical(b, Identities(blocks)))
        BY <2>1 DEF Sound, done
      <3> DEFINE n == Len(blocks)
                 d == Append(blocks, Canonical(b, Identities(blocks)))
      <3>2. /\ AppliesAt(d, n + 1) <=> done = env
            /\ AppliesAt(d, n + 1) => GoodTo(d, Len(d))
            /\ ~AppliesAt(d, n + 1) => TornFrom(d, n + 1)
        BY <1>2, <3>1, GrownHistory
      <3>3. blocks' = d  BY <1>1, <3>1
      <3> HIDE DEF d
      <3>4. CASE done = env
        <4>1. GoodTo(blocks', Len(blocks'))  BY <3>2, <3>3, <3>4
        <4>2. views' = blocks'  BY <1>1, <3>1, <3>4
        <4>3. eventIndex' = Identities(blocks')
          <5>1. eventIndex' = Identities(blocks) \cup env.kept
            BY <1>1, <2>1, <3>4 DEF Sound
          <5>2. Identities(blocks') = KeptTo(blocks', n + 1) /\ Identities(blocks) = KeptTo(blocks, n)
            BY <1>2, <1>5, KeptWhole
          <5>3. KeptTo(blocks', n + 1) = KeptTo(blocks, n) \cup env.kept
            <6>1. \A i \in 1..(n + 1) : i \in 1..n \/ i = n + 1  BY <1>2
            <6>2. n + 1 \in 1..(n + 1) /\ \A i \in 1..n : i \in 1..(n + 1)  BY <1>2
            <6> QED  BY <1>5, <6>1, <6>2 DEF KeptTo
          <5> QED  BY <5>1, <5>2, <5>3
        <4> QED  BY <4>1, <4>2, <4>3 DEF History, Sound
      <3>5. CASE done # env
        <4>1. TornFrom(blocks', n + 1)  BY <3>2, <3>3, <3>5
        <4>2. n + 1 <= Len(views') /\ views'[n + 1] # blocks'[n + 1]
          BY <1>2, <1>5, <1>6, <3>1, <3>5
        <4>3. n + 1 \in 1..Len(blocks')  BY <1>2, <1>5
        <4> QED  BY <4>1, <4>2, <4>3 DEF History, Stuck
      <3> QED  BY <3>4, <3>5
    <2>2. ASSUME NEW k \in 1..Len(blocks), Stuck(blocks, views, k)
          PROVE  History(blocks, views, eventIndex)'
      <3>1. k <= Len(blocks') /\ k \in 1..Len(blocks') /\ \A i \in 1..k : blocks'[i] = blocks[i]
        <4>1. \A i \in 1..k : i \in 1..Len(blocks)  BY <1>2
        <4> QED  BY <1>2, <1>5, <4>1
      <3>2. TornFrom(blocks', k)  BY <1>2, <1>5, <2>2, <3>1, StillTorn DEF Stuck
      <3>3. k <= Len(views') /\ k \in 1..Len(views)  BY <1>2, <1>6, <2>2 DEF Stuck
      <3>4. views'[k] # blocks'[k]  BY <1>5, <1>6, <2>2, <3>3 DEF Stuck
      <3> QED  BY <3>1, <3>2, <3>3, <3>4 DEF History, Stuck
    <2> QED  BY <2>1, <2>2 DEF Retained, History
  <1> QED  BY <1>6, <1>7, <1>8, <1>9 DEF Retained

(* The state a rebuild leaves, whatever it was before.                     *)
LEMMA RebuiltRetained ==
  ASSUME NEW c, ChainOK(c), GoodTo(c, Len(c)) \/ \E k \in 1..Len(c) : TornFrom(c, k)
  PROVE  Retained(c, Rebuilt(c), Identities(c))
  <1>1. c \in Seq(Envelope)  BY DEF ChainOK
  <1>2. CASE GoodTo(c, Len(c))
    <2>1. Rebuilt(c) = c  BY <1>1, <1>2, RebuiltWhole
    <2> QED  BY <1>1, <1>2, <2>1, IdentitiesType DEF Retained, History, Sound
  <1>3. ASSUME NEW k \in 1..Len(c), TornFrom(c, k)
        PROVE  Retained(c, Rebuilt(c), Identities(c))
    <2>1. Rebuilt(c) \in Seq(Envelope) /\ Stuck(c, Rebuilt(c), k)  BY <1>1, <1>3, RebuiltStuck
    <2> QED  BY <1>1, <2>1, IdentitiesType DEF Retained, History
  <1> QED  BY <1>2, <1>3

(* A prefix of the retained chain: good, or torn where the chain is.       *)
LEMMA PrefixHistory ==
  ASSUME Retained(blocks, views, eventIndex), NEW n \in 0..Len(blocks)
  PROVE  /\ ChainOK(Prefix(blocks, n)) /\ Len(Prefix(blocks, n)) = n
         /\ \/ GoodTo(Prefix(blocks, n), n)
            \/ \E k \in 1..n : TornFrom(Prefix(blocks, n), k)
  <1> DEFINE stem == Prefix(blocks, n)
  <1>1. blocks \in Seq(Envelope) /\ Len(blocks) \in Nat  BY ChainLen DEF Retained, ChainOK
  <1>2. ChainOK(stem)  BY PrefixOK DEF Retained
  <1>3. stem \in Seq(Envelope) /\ Len(stem) = n /\ \A i \in 1..n : stem[i] = blocks[i]
    BY <1>1, PrefixSeq
  <1>4. ASSUME Sound(blocks, views, eventIndex) PROVE GoodTo(stem, n)
    <2>1. n \in 0..Len(blocks) /\ n <= Len(blocks)  BY <1>1
    <2> QED  BY <1>1, <1>4, <2>1, GoodPrefix DEF Sound
  <1>5. ASSUME NEW k \in 1..Len(blocks), Stuck(blocks, views, k)
        PROVE  GoodTo(stem, n) \/ \E j \in 1..n : TornFrom(stem, j)
    <2>1. CASE k <= n
      <3>1. k \in 1..n /\ \A i \in 1..k : i \in 1..n  BY <1>1, <2>1
      <3> HIDE DEF stem
      <3>2. TornFrom(stem, k)  BY <1>1, <1>3, <1>5, <2>1, <3>1, StillTorn DEF Stuck
      <3> QED  BY <3>1, <3>2
    <2>2. CASE n < k
      <3>1. n \in 0..(k - 1) /\ k - 1 \in Nat /\ n <= Len(blocks)  BY <1>1, <2>2
      <3>2. GoodTo(blocks, k - 1)  BY <1>5 DEF Stuck, TornFrom
      <3> QED  BY <1>1, <3>1, <3>2, GoodPrefix
    <2> QED  BY <1>1, <2>1, <2>2
  <1> HIDE DEF stem
  <1>6. GoodTo(stem, n) \/ \E k \in 1..n : TornFrom(stem, k)
    BY <1>4, <1>5 DEF Retained, History
  <1> QED  BY <1>2, <1>3, <1>6 DEF stem

LEMMA RewoundStep ==
  ASSUME Retained(blocks, views, eventIndex), NEW b, Rewound(b)
  PROVE  Retained(blocks, views, eventIndex)'
  <1> DEFINE n == IndexOf(blocks, b)
             c == Prefix(blocks, n)
  <1>1. /\ RetainedIn(blocks, b) /\ blocks' = c
        /\ eventIndex' = Identities(blocks') /\ views' = Rebuilt(blocks')
    BY DEF Rewound
  <1>2. blocks \in Seq(Envelope) /\ Len(blocks) \in Nat  BY ChainLen DEF Retained, ChainOK
  <1>3. n \in 0..Len(blocks)  BY <1>1, <1>2, IndexFound
  <1> HIDE DEF n
  <1>4. /\ ChainOK(c) /\ Len(c) = n
        /\ GoodTo(c, n) \/ \E k \in 1..n : TornFrom(c, k)
    BY <1>3, PrefixHistory
  <1> HIDE DEF c
  <1>5. Retained(c, Rebuilt(c), Identities(c))  BY <1>4, RebuiltRetained
  <1> QED  BY <1>1, <1>5

LEMMA ReorgedStep ==
  ASSUME Retained(blocks, views, eventIndex), NEW b \in Blocks, Reorged(b)
  PROVE  Retained(blocks, views, eventIndex)'
  <1> DEFINE n == IndexOf(blocks, Parent[b])
             stem == Prefix(blocks, n)
             env == Canonical(b, Identities(stem))
             c == Append(stem, env)
  <1>1. /\ RetainedIn(blocks, Parent[b]) /\ Number[b] = Number[Parent[b]] + 1
        /\ blocks' = c
        /\ eventIndex' = Identities(blocks') /\ views' = Rebuilt(blocks')
    BY DEF Reorged, Forks
  <1>2. blocks \in Seq(Envelope) /\ Len(blocks) \in Nat  BY ChainLen DEF Retained, ChainOK
  <1>3. n \in 1..Len(blocks) /\ blocks[n].id = Parent[b]  BY <1>1, <1>2, IndexFound
  <1> HIDE DEF n
  <1>4. n \in 0..Len(blocks) /\ n \in 1..n  BY <1>2, <1>3
  <1>5. /\ ChainOK(stem) /\ Len(stem) = n /\ stem \in Seq(Envelope) /\ stem[n] = blocks[n]
        /\ GoodTo(stem, n) \/ \E k \in 1..n : TornFrom(stem, k)
    BY <1>2, <1>4, PrefixHistory, PrefixSeq
  <1> HIDE DEF stem
  <1>6. env \in Envelope /\ env.id = b  BY CanonicalType
  <1>7. ChainOK(c)
    <2>1. Extends(stem, b)  BY <1>1, <1>3, <1>5 DEF Extends, Last
    <2> QED  BY <1>5, <1>6, <2>1, AppendOK
  <1>8. GoodTo(c, Len(c)) \/ \E k \in 1..Len(c) : TornFrom(c, k)
    <2>1. /\ c \in Seq(Envelope) /\ Len(c) = n + 1
          /\ \A i \in 1..n : c[i] = stem[i]
      BY <1>5, <1>6, AppendSeq
    <2>2. CASE GoodTo(stem, n)
      <3>1. /\ AppliesAt(c, n + 1) => GoodTo(c, Len(c))
            /\ ~AppliesAt(c, n + 1) => TornFrom(c, n + 1)
        BY <1>5, <2>2, GrownHistory
      <3>2. n + 1 \in 1..Len(c)  BY <1>3, <2>1
      <3> QED  BY <3>1, <3>2
    <2>3. ASSUME NEW k \in 1..n, TornFrom(stem, k)
          PROVE  \E j \in 1..Len(c) : TornFrom(c, j)
      <3>1. k <= Len(c) /\ k \in 1..Len(c) /\ \A i \in 1..k : i \in 1..n  BY <1>3, <2>1
      <3> HIDE DEF c
      <3>2. TornFrom(c, k)  BY <1>5, <2>1, <2>3, <3>1, StillTorn
      <3> QED  BY <3>1, <3>2
    <2> QED  BY <1>5, <2>2, <2>3
  <1> HIDE DEF c
  <1>9. Retained(c, Rebuilt(c), Identities(c))  BY <1>7, <1>8, RebuiltRetained
  <1> QED  BY <1>1, <1>9

(* A checkpoint of a state that applies is that state.                     *)
LEMMA WholeIsSound ==
  ASSUME Retained(blocks, views, eventIndex), Restorable(blocks)
  PROVE  Sound(blocks, views, eventIndex)
  <1>1. blocks \in Seq(Envelope)  BY DEF Retained, ChainOK
  <1>2. ASSUME NEW k \in 1..Len(blocks), Stuck(blocks, views, k) PROVE FALSE
    BY <1>1, <1>2, NotRestorable DEF Stuck
  <1> QED  BY <1>2 DEF Retained, History

LEMMA RestoredStep ==
  ASSUME Retained(blocks, views, eventIndex), Restored
  PROVE  UNCHANGED engineVars
  <1>1. Restorable(blocks) /\ RestoreCheckpoint(blocks, reorgCount, backfillStatus, coverageThrough)
    BY DEF Restored
  <1>2. Sound(blocks, views, eventIndex)  BY <1>1, WholeIsSound
  <1>3. Replayed(blocks) = blocks  BY <1>2, RestorableGood DEF Retained, Sound
  <1> QED  BY <1>1, <1>2, <1>3 DEF RestoreCheckpoint, Sound, engineVars

(* Whether the views are those of the retained blocks.                     *)
LEMMA ViewsTell ==
  ASSUME NEW c, NEW vs, NEW ix, Retained(c, vs, ix)
  PROVE  (vs = c) <=> GoodTo(c, Len(c))
  <1>1. c \in Seq(Envelope) /\ Len(c) \in Nat  BY ChainLen DEF Retained, ChainOK
  <1>2. ASSUME NEW k \in 1..Len(c), Stuck(c, vs, k) PROVE vs # c /\ ~GoodTo(c, Len(c))
    BY <1>2 DEF Stuck, TornFrom, GoodTo
  <1> QED  BY <1>2 DEF Retained, History, Sound

(* Coverage.  With a complete history it reaches every block that applies, *)
(* and no further than the head once all of them do.                       *)
Covered ==
  /\ backfillStatus # "complete" => coverageThrough = -1
  /\ backfillStatus = "complete" =>
       /\ \A i \in 1..Len(blocks) : GoodTo(blocks, i) => Time[blocks[i].id] <= coverageThrough
       /\ GoodTo(blocks, Len(blocks)) /\ Len(blocks) >= 1
            => coverageThrough = Time[blocks[Len(blocks)].id]

EngineInv ==
  /\ Retained(blocks, views, eventIndex)
  /\ reorgCount \in 0..MaxReorgs
  /\ backfillStatus \in {"unavailable", "complete"}
  /\ coverageThrough \in {-1} \cup Range(Time)
  /\ Covered

LEMMA TimeType ==
  ASSUME NEW b \in Blocks
  PROVE  Time[b] \in Range(Time) /\ Time[b] \in Nat
  BY BlockAssumption DEF BlockAssumption, Range

(* A step to a head with the given coverage.                               *)
LEMMA CoveredAtHead ==
  ASSUME NEW c, ChainOK(c), NEW i \in 1..Len(c)
  PROVE  Time[c[i].id] <= Time[c[Len(c)].id]
  <1>1. Len(c) \in Nat  BY ChainLen DEF ChainOK
  <1>2. Len(c) \in 1..Len(c) /\ i <= Len(c)  BY <1>1
  <1> QED  BY <1>2 DEF ChainOK, Clock

(* ... and to a chain that does not apply to its end.                      *)
LEMMA CoveredBefore ==
  ASSUME EngineInv, ChainOK(blocks'), NEW n \in 0..Len(blocks), Len(blocks') = n + 1,
         \A i \in 1..n : blocks'[i] = blocks[i], ~GoodTo(blocks', Len(blocks')),
         UNCHANGED <<backfillStatus, coverageThrough>>
  PROVE  Covered'
  <1>1. Len(blocks) \in Nat  BY ChainLen DEF EngineInv, Retained, ChainOK
  <1>2. ASSUME NEW i \in 1..Len(blocks'), GoodTo(blocks', i)
        PROVE  i \in 1..Len(blocks) /\ GoodTo(blocks, i) /\ blocks'[i] = blocks[i]
    <2>1. i # n + 1 /\ i \in 1..n /\ i \in 0..n /\ n \in Nat  BY <1>1, <1>2
    <2>2. \A j \in 1..n : blocks[j] = blocks'[j]  OBVIOUS
    <2>3. GoodTo(blocks, i) <=> GoodTo(blocks', i)  BY <2>1, <2>2, Agree
    <2> QED  BY <1>1, <1>2, <2>1, <2>3
  <1> QED  BY <1>2 DEF Covered, EngineInv

(* An engine that has retained nothing satisfies it.                       *)
THEOREM InitEngineInv == Init => EngineInv
  <1> SUFFICES ASSUME Init PROVE EngineInv  OBVIOUS
  <1>1. blocks = <<>> /\ views = <<>> /\ eventIndex = {}  BY DEF Init
  <1>2. blocks \in Seq(Envelope) /\ Len(blocks) = 0  BY <1>1, EmptySeq
  <1>3. ChainOK(blocks)  BY <1>2 DEF ChainOK, LinkedChain, Heights, Clock
  <1>4. GoodTo(blocks, Len(blocks))  BY <1>2 DEF GoodTo
  <1>5. Identities(blocks) = {}
    <2>1. Identities(blocks) = KeptTo(blocks, 0)  BY <1>2, KeptWhole
    <2>2. 1..0 = {}  OBVIOUS
    <2>3. KeptTo(blocks, 0) = {}  BY <2>2 DEF KeptTo
    <2> QED  BY <2>1, <2>3
  <1>6. Retained(blocks, views, eventIndex)
    BY <1>1, <1>2, <1>3, <1>4, <1>5 DEF Retained, History, Sound
  <1>7. Covered  BY <1>2 DEF Covered, Init
  <1> QED  BY <1>6, <1>7, ReorgBound DEF EngineInv, Init, ReorgBound

(* Every append, reorg, rewind, re-delivery and restore preserves it,      *)
(* throwing events included.                                               *)
THEOREM NextEngineInv == EngineInv /\ [Next]_engineVars => EngineInv'
  <1> SUFFICES ASSUME EngineInv, [Next]_engineVars PROVE EngineInv'  OBVIOUS
  <1>0. /\ blocks \in Seq(Envelope) /\ Len(blocks) \in Nat
        /\ \A i \in 1..Len(blocks) : blocks[i] \in Envelope
    BY ChainLen DEF EngineInv, Retained, ChainOK
  <1>1. ASSUME NEW b \in Blocks, Appended(b) PROVE EngineInv'
    <2> DEFINE env == Canonical(b, eventIndex)
               done == Applied(Identities(views), env)
               n == Len(blocks)
    <2>1. Retained(blocks, views, eventIndex)'  BY <1>1, AppendedStep DEF EngineInv
    <2>2. /\ blocks' = Append(blocks, env) /\ views' = Append(views, done)
          /\ coverageThrough' = IF done = env THEN Advanced(b) ELSE coverageThrough
          /\ UNCHANGED <<reorgCount, backfillStatus>>
      BY <1>1 DEF Appended
    <2>3. env \in Envelope /\ env.id = b  BY CanonicalType
    <2>4. done \in Envelope  BY <2>3, AppliedType
    <2>5. /\ Len(blocks') = n + 1 /\ blocks'[n + 1] = env
          /\ \A i \in 1..n : blocks'[i] = blocks[i]
      BY <1>0, <2>2, <2>3, AppendSeq
    <2>6. views \in Seq(Envelope) /\ Last(views') = done /\ Last(blocks') = env
      BY <1>0, <2>2, <2>3, <2>4, AppendSeq DEF EngineInv, Retained
    <2> HIDE DEF env, done
    <2>7. ChainOK(blocks')  BY <2>1 DEF Retained
    <2>8. Covered'
      <3>1. CASE done # env
        <4>1. ~GoodTo(blocks', Len(blocks'))  BY <2>1, <2>6, <3>1, ViewsTell
        <4>2. n \in 0..Len(blocks)  BY <1>0
        <4> QED  BY <2>2, <2>5, <2>7, <3>1, <4>1, <4>2, CoveredBefore
      <3>2. CASE done = env
        <4>1. \A i \in 1..Len(blocks') : Time[blocks'[i].id] <= Time[b]
          BY <2>3, <2>5, <2>7, CoveredAtHead
        <4>2. Time[blocks'[Len(blocks')].id] = Time[b]  BY <2>3, <2>5
        <4> QED  BY <2>2, <3>2, <4>1, <4>2 DEF Advanced, Covered, EngineInv
      <3> QED  BY <3>1, <3>2
    <2>9. coverageThrough' \in {-1} \cup Range(Time)
      BY <2>2, TimeType DEF Advanced, EngineInv
    <2> QED  BY <2>1, <2>2, <2>8, <2>9 DEF EngineInv
  <1>2. ASSUME NEW b \in Blocks, Reorged(b) PROVE EngineInv'
    <2> DEFINE n == IndexOf(blocks, Parent[b])
               stem == Prefix(blocks, n)
               env == Canonical(b, Identities(stem))
    <2>1. Retained(blocks, views, eventIndex)'  BY <1>2, ReorgedStep DEF EngineInv
    <2>2. /\ RetainedIn(blocks, Parent[b]) /\ blocks' = Append(stem, env)
          /\ coverageThrough' = IF views' = blocks' THEN Advanced(b) ELSE coverageThrough
          /\ UNCHANGED backfillStatus
          /\ reorgCount < MaxReorgs /\ reorgCount' = reorgCount + 1
      BY <1>2 DEF Reorged, Forks
    <2>3. n \in 0..Len(blocks)  BY <1>0, <2>2, IndexFound
    <2> HIDE DEF n
    <2>4. /\ stem \in Seq(Envelope) /\ Len(stem) = n
          /\ \A i \in 1..n : stem[i] = blocks[i]
      BY <1>0, <2>3, PrefixSeq
    <2> HIDE DEF stem
    <2>5. env \in Envelope /\ env.id = b  BY CanonicalType
    <2>6. /\ Len(blocks') = n + 1 /\ blocks'[n + 1] = env
          /\ \A i \in 1..n : blocks'[i] = blocks[i]
      BY <2>2, <2>4, <2>5, AppendSeq
    <2> HIDE DEF env
    <2>7. ChainOK(blocks')  BY <2>1 DEF Retained
    <2>8. Covered'
      <3>1. CASE views' # blocks'
        <4>1. ~GoodTo(blocks', Len(blocks'))  BY <2>1, <3>1, ViewsTell
        <4> QED  BY <2>2, <2>3, <2>6, <2>7, <3>1, <4>1, CoveredBefore
      <3>2. CASE views' = blocks'
        <4>1. \A i \in 1..Len(blocks') : Time[blocks'[i].id] <= Time[b]
          BY <2>5, <2>6, <2>7, CoveredAtHead
        <4>2. Time[blocks'[Len(blocks')].id] = Time[b]  BY <2>5, <2>6
        <4> QED  BY <2>2, <3>2, <4>1, <4>2 DEF Advanced, Covered, EngineInv
      <3> QED  BY <3>1, <3>2
    <2>9. coverageThrough' \in {-1} \cup Range(Time)
      BY <2>2, TimeType DEF Advanced, EngineInv
    <2>10. reorgCount' \in 0..MaxReorgs  BY <2>2, ReorgBound DEF EngineInv, ReorgBound
    <2> QED  BY <2>1, <2>2, <2>8, <2>9, <2>10 DEF EngineInv
  <1>3. ASSUME NEW b \in Blocks, Rewound(b) PROVE EngineInv'
    <2> DEFINE n == IndexOf(blocks, b)
    <2>1. Retained(blocks, views, eventIndex)'  BY <1>3, RewoundStep DEF EngineInv
    <2>2. /\ RetainedIn(blocks, b) /\ blocks' = Prefix(blocks, n)
          /\ coverageThrough' = IF views' = blocks' /\ Time[b] < coverageThrough
                                THEN Time[b] ELSE coverageThrough
          /\ UNCHANGED backfillStatus
          /\ reorgCount < MaxReorgs /\ reorgCount' = reorgCount + 1
      BY <1>3 DEF Rewound
    <2>3. n \in 1..Len(blocks) /\ n \in 0..Len(blocks) /\ blocks[n].id = b
      BY <1>0, <2>2, IndexFound
    <2> HIDE DEF n
    <2>4. /\ Len(blocks') = n /\ \A i \in 1..n : blocks'[i] = blocks[i]
      BY <1>0, <2>2, <2>3, PrefixSeq
    <2>5. blocks'[n].id = b /\ n \in Nat  BY <2>3, <2>4
    <2>6. ChainOK(blocks')  BY <2>1 DEF Retained
    <2>7. coverageThrough \in Int /\ (coverageThrough = -1 \/ coverageThrough \in Nat) /\ Time[b] \in Nat
      BY TimeType, BlockAssumption DEF EngineInv, BlockAssumption, Range
    <2>8. Covered'
      <3>1. CASE views' # blocks'
        <4>1. ~GoodTo(blocks', Len(blocks'))  BY <2>1, <3>1, ViewsTell
        <4>2. n - 1 \in 0..Len(blocks) /\ Len(blocks') = n - 1 + 1 /\ \A i \in 1..(n - 1) : i \in 1..n
          BY <1>0, <2>3, <2>4
        <4> QED  BY <2>2, <2>4, <2>6, <3>1, <4>1, <4>2, CoveredBefore
      <3>2. CASE views' = blocks'
        <4>1. GoodTo(blocks', n)  BY <2>1, <2>4, <3>2, ViewsTell
        <4>2. GoodTo(blocks, n)
          <5>1. n \in Nat /\ n \in 0..n /\ \A i \in 1..n : blocks[i] = blocks'[i]
            BY <2>4, <2>5
          <5>2. GoodTo(blocks, n) <=> GoodTo(blocks', n)  BY <5>1, Agree
          <5> QED  BY <4>1, <5>2
        <4>3. backfillStatus # "complete" => coverageThrough' = -1
          BY <2>2, <2>7 DEF Covered, EngineInv
        <4>4. backfillStatus = "complete" => Time[b] <= coverageThrough
          BY <2>3, <4>2 DEF Covered, EngineInv
        <4>5. backfillStatus = "complete" => coverageThrough' = Time[b]
          BY <2>2, <2>7, <3>2, <4>4
        <4>6. \A i \in 1..Len(blocks') : Time[blocks'[i].id] <= Time[b]
          BY <2>4, <2>5, <2>6, CoveredAtHead
        <4> QED  BY <2>2, <2>4, <2>5, <4>3, <4>5, <4>6 DEF Covered
      <3> QED  BY <3>1, <3>2
    <2>9. coverageThrough' \in {-1} \cup Range(Time)  BY <2>2, TimeType DEF EngineInv
    <2>10. reorgCount' \in 0..MaxReorgs  BY <2>2, ReorgBound DEF EngineInv, ReorgBound
    <2> QED  BY <2>1, <2>2, <2>8, <2>9, <2>10 DEF EngineInv
  <1>4. CASE Restored
    <2>1. UNCHANGED engineVars  BY <1>4, RestoredStep DEF EngineInv
    <2> QED  BY <2>1 DEF engineVars, EngineInv, Covered
  <1>5. ASSUME NEW b, Duplicated(b) PROVE EngineInv'
    BY <1>5 DEF Duplicated, engineVars, EngineInv, Covered
  <1>6. CASE UNCHANGED engineVars
    BY <1>6 DEF engineVars, EngineInv, Covered
  <1>7. Offered \subseteq Blocks  BY BlockAssumption DEF Offered, BlockAssumption
  <1> QED  BY <1>1, <1>2, <1>3, <1>4, <1>5, <1>6, <1>7 DEF Next

(* The invariant holds throughout.                                         *)
THEOREM Invariance == Spec => []EngineInv
  BY InitEngineInv, NextEngineInv, PTL DEF Spec

-----------------------------------------------------------------------------
(* What it means.                                                          *)

(* One block of each height, so that a hash or a height names one place.   *)
OneBlockPerHeight ==
  \A i, j \in DOMAIN blocks : Number[blocks[i].id] = Number[blocks[j].id] => i = j

LEMMA RetainedLinked ==
  ASSUME Retained(blocks, views, eventIndex)
  PROVE  ChainLinked /\ OneBlockPerHeight
  <1>1. /\ Len(blocks) \in Nat /\ DOMAIN blocks = 1..Len(blocks)
        /\ \A i \in 1..Len(blocks) : blocks[i] \in Envelope
    BY ChainLen DEF Retained, ChainOK
  <1>2. ChainLinked  BY DEF Retained, ChainOK, LinkedChain, ChainLinked
  <1>3. OneBlockPerHeight
    <2> SUFFICES ASSUME NEW i \in 1..Len(blocks), NEW j \in 1..Len(blocks),
                        Number[blocks[i].id] = Number[blocks[j].id]
                 PROVE  i = j
      BY <1>1 DEF OneBlockPerHeight
    <2>1. 1 \in 1..Len(blocks)  BY <1>1
    <2>2. Number[blocks[1].id] \in Nat
      BY <1>1, <2>1, BlockAssumption DEF Envelope, BlockAssumption
    <2>3. Number[blocks[1].id] + i - 1 = Number[blocks[1].id] + j - 1
      BY DEF Retained, ChainOK, Heights
    <2> QED  BY <1>1, <2>2, <2>3
  <1> QED  BY <1>2, <1>3

(* Whatever was appended, replaced, rewound, torn or restored, each        *)
(* retained block is the child of the one before, and no height is         *)
(* retained twice.                                                         *)
THEOREM Linkage == Spec => [](ChainLinked /\ OneBlockPerHeight)
  <1>1. EngineInv => ChainLinked /\ OneBlockPerHeight  BY RetainedLinked DEF EngineInv
  <1> QED  BY <1>1, Invariance, PTL

LEMMA RetainedOnce ==
  ASSUME Retained(blocks, views, eventIndex)
  PROVE  EventsOnce
  <1> SUFFICES ASSUME Whole PROVE /\ eventIndex = Identities(blocks)
                                  /\ \A i, j \in DOMAIN blocks :
                                       i # j => blocks[i].kept \cap blocks[j].kept = {}
    BY DEF EventsOnce
  <1>1. Len(blocks) \in Nat /\ DOMAIN blocks = 1..Len(blocks)
    BY ChainLen DEF Retained, ChainOK
  <1>2. Sound(blocks, views, eventIndex)  BY WholeIsSound DEF Whole
  <1>3. ASSUME NEW i \in 1..Len(blocks), NEW j \in 1..Len(blocks), i < j
        PROVE  blocks[i].kept \cap blocks[j].kept = {}
    <2>1. blocks[j].kept = Range(Events[blocks[j].id]) \ KeptTo(blocks, j - 1)
      BY <1>2, KeptAt DEF Sound, GoodTo
    <2>2. i \in 1..(j - 1)  BY <1>1, <1>3
    <2>3. blocks[i].kept \subseteq KeptTo(blocks, j - 1)  BY <2>2 DEF KeptTo
    <2> QED  BY <2>1, <2>3
  <1>4. \A i, j \in 1..Len(blocks) : i # j => i < j \/ j < i  BY <1>1
  <1> QED  BY <1>1, <1>2, <1>3, <1>4 DEF Sound

(* The chain is linked, no event counts twice and the index knows exactly  *)
(* the retained ones, and a complete history is covered to its head, once  *)
(* what tore it is gone.                                                   *)
THEOREM Consistency == Spec => []ChainConsistent
  <1>1. EngineInv => TypeOK  BY DEF EngineInv, Retained, ChainOK, TypeOK
  <1>2. EngineInv => ChainLinked /\ EventsOnce
    BY RetainedLinked, RetainedOnce DEF EngineInv
  <1>3. EngineInv => CoverageTracksHead
    <2> SUFFICES ASSUME EngineInv, Whole, blocks # <<>>
                 PROVE  /\ backfillStatus = "complete" => coverageThrough = Time[Last(blocks).id]
                        /\ backfillStatus # "running" => coverageThrough <= Time[Last(blocks).id]
      BY DEF CoverageTracksHead
    <2>1. GoodTo(blocks, Len(blocks))  BY WholeIsSound DEF Whole, EngineInv, Sound
    <2>2. blocks \in Seq(Envelope) /\ Len(blocks) \in Nat /\ Len(blocks) >= 1
      <3>1. blocks \in Seq(Envelope)  BY DEF EngineInv, Retained, ChainOK
      <3> QED  BY <3>1, EmptySeq
    <2>3. blocks[Len(blocks)] \in Envelope
      <3>1. Len(blocks) \in 1..Len(blocks)  BY <2>2
      <3> QED  BY <2>2, <3>1, ElementOfSeq
    <2>4. Time[Last(blocks).id] \in Nat  BY <2>3, TimeType DEF Last, Envelope
    <2>5. backfillStatus = "complete" => coverageThrough = Time[Last(blocks).id]
      BY <2>1, <2>2 DEF EngineInv, Covered, Last
    <2>6. backfillStatus # "complete" => coverageThrough = -1  BY DEF EngineInv, Covered
    <2> QED  BY <2>4, <2>5, <2>6
  <1>4. EngineInv => ChainConsistent  BY <1>1, <1>2, <1>3 DEF ChainConsistent
  <1> QED  BY <1>4, Invariance, PTL

(* Once every retained block applies, the views are of the retained blocks,*)
(* whatever branch they were made of before.                               *)
THEOREM ViewsExact == Spec => []ViewsMatchBlocks
  <1>1. EngineInv => ViewsMatchBlocks
    BY WholeIsSound DEF EngineInv, ViewsMatchBlocks, Whole, Sound
  <1> QED  BY <1>1, Invariance, PTL

(* ... and every retained block is recognised when it is delivered again.  *)
THEOREM Redelivery == Spec => []RedeliveryAccepted
  <1>1. EngineInv => RedeliveryAccepted
    <2> SUFFICES ASSUME EngineInv, Whole, NEW i \in DOMAIN blocks
                 PROVE  SamePayload(blocks[i].id)
      BY DEF RedeliveryAccepted
    <2> DEFINE b == blocks[i].id
               j == IndexOf(blocks, b)
    <2>1. blocks \in Seq(Envelope) /\ Len(blocks) \in Nat
      BY ChainLen DEF EngineInv, Retained, ChainOK
    <2>2. RetainedIn(blocks, b)  BY DEF RetainedIn
    <2>3. j \in 1..Len(blocks) /\ blocks[j].id = b  BY <2>1, <2>2, IndexFound
    <2> HIDE DEF j
    <2>4. CanonicalAt(blocks, j)
      BY <2>3, WholeIsSound DEF Whole, EngineInv, Sound, GoodTo
    <2>5. j - 1 \in 0..Len(blocks)  BY <2>1, <2>3
    <2>6. Identities(Prefix(blocks, j - 1)) = KeptTo(blocks, j - 1)  BY <2>1, <2>5, KeptPrefix
    <2>7. blocks[j] = Canonical(b, Identities(Prefix(blocks, j - 1)))
      BY <2>3, <2>4, <2>6 DEF CanonicalAt
    <2> QED  BY <2>7 DEF SamePayload, j
  <1> QED  BY <1>1, Invariance, PTL

(* A checkpoint of an engine whose views are of its blocks restores it.    *)
THEOREM Faithfulness == Spec => []RestoreFaithful
  <1>1. EngineInv => RestoreFaithful
    <2> SUFFICES ASSUME EngineInv, views = blocks
                 PROVE  Restorable(blocks) /\ Replayed(blocks) = blocks
      BY DEF RestoreFaithful
    <2>1. GoodTo(blocks, Len(blocks))  BY ViewsTell DEF EngineInv
    <2> QED  BY <2>1, RestorableGood DEF EngineInv, Retained
  <1> QED  BY <1>1, Invariance, PTL
=============================================================================
