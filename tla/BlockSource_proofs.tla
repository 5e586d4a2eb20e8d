------------------------- MODULE BlockSource_proofs -------------------------
(***************************************************************************)
(* Proofs of the safety of BlockSource for any page size, retention, depth *)
(* of confirmations and heights.                                           *)
(***************************************************************************)
EXTENDS BlockSource, FiniteSetTheorems, SequenceTheorems, TLAPS

-----------------------------------------------------------------------------
(* Paths and their prefixes.                                               *)

(* The ancestor of height n of a block.                                    *)
LEMMA AtPath ==
  ASSUME NEW p \in Path, NEW n \in 0..Len(p)
  PROVE  At(p, n) \in Path /\ Len(At(p, n)) = n /\ (\A i \in 1..n : At(p, n)[i] = p[i])
  <1>1. p \in Seq(0..MaxForks) /\ Len(p) \in Nat /\ Len(p) <= MaxHeight  BY DEF Path
  <1>2. 1 \in Int /\ n \in Int /\ \A i \in 1..n : p[i] \in 0..MaxForks
    <2>1. n \in Int /\ \A i \in 1..n : i \in 1..Len(p)  BY <1>1
    <2>2. \A i \in 1..Len(p) : p[i] \in 0..MaxForks  BY <1>1, ElementOfSeq
    <2> QED  BY <2>1, <2>2
  <1>3. /\ SubSeq(p, 1, n) \in Seq(0..MaxForks)
        /\ Len(SubSeq(p, 1, n)) = IF 1 <= n THEN n - 1 + 1 ELSE 0
        /\ \A i \in 1..(n - 1 + 1) : SubSeq(p, 1, n)[i] = p[1 + i - 1]
    BY <1>1, <1>2, SubSeqProperties
  <1>4. n - 1 + 1 = n /\ Len(SubSeq(p, 1, n)) = n /\ n <= MaxHeight
    BY <1>1, <1>3, SourceAssumption DEF SourceAssumption
  <1>5. \A i \in 1..n : SubSeq(p, 1, n)[i] = p[i]  BY <1>1, <1>3
  <1> QED  BY <1>3, <1>4, <1>5 DEF At, Path

(* Blocks of the same height with the same ancestors are the same.         *)
LEMMA SamePath ==
  ASSUME NEW p \in Path, NEW q \in Path, Len(p) = Len(q), \A i \in 1..Len(p) : p[i] = q[i]
  PROVE  p = q
  BY SMTT(20) DEF Path

(* A block is on the branch of another iff it is its ancestor of its own   *)
(* height.                                                                 *)
LEMMA PrefixIsAt ==
  ASSUME NEW p \in Path, NEW q \in Path
  PROVE  /\ Len(p) \in Nat /\ Len(p) <= MaxHeight
         /\ IsPrefix(p, q) <=> Len(p) <= Len(q) /\ p = At(q, Len(p))
  <1>1. p \in Seq(0..MaxForks) /\ Len(p) \in Nat /\ Len(p) <= MaxHeight  BY DEF Path
  <1>2. SubSeq(p, 1, Len(p)) = p  BY <1>1, SubSeqFull
  <1> QED  BY <1>1, <1>2 DEF IsPrefix, At

LEMMA AtAt ==
  ASSUME NEW p \in Path, NEW n \in 0..Len(p), NEW m \in 0..n
  PROVE  At(At(p, n), m) = At(p, m) /\ m \in 0..Len(p)
  <1>1. Len(p) \in Nat  BY DEF Path
  <1>2. At(p, n) \in Path /\ Len(At(p, n)) = n /\ (\A i \in 1..n : At(p, n)[i] = p[i])
    BY AtPath
  <1>3. m \in 0..Len(p) /\ m \in 0..Len(At(p, n))  BY <1>1, <1>2
  <1>4. At(p, m) \in Path /\ Len(At(p, m)) = m /\ (\A i \in 1..m : At(p, m)[i] = p[i])
    BY <1>3, AtPath
  <1>5. /\ At(At(p, n), m) \in Path /\ Len(At(At(p, n), m)) = m
        /\ \A i \in 1..m : At(At(p, n), m)[i] = At(p, n)[i]
    BY <1>2, <1>3, AtPath
  <1>6. \A i \in 1..m : At(At(p, n), m)[i] = At(p, m)[i]  BY <1>1, <1>2, <1>4, <1>5
  <1> QED  BY <1>3, <1>4, <1>5, <1>6, SamePath

LEMMA AtSelf ==
  ASSUME NEW p \in Path
  PROVE  At(p, Len(p)) = p /\ IsPrefix(p, p)
  <1>1. p \in Seq(0..MaxForks)  BY DEF Path
  <1>2. At(p, Len(p)) = p  BY <1>1, SubSeqFull DEF At
  <1> QED  BY <1>2, PrefixIsAt

(* Ancestors of one block are on one branch.                               *)
LEMMA Ancestors ==
  ASSUME NEW p \in Path, NEW n \in 0..Len(p), NEW m \in 0..n
  PROVE  IsPrefix(At(p, m), At(p, n)) /\ IsPrefix(At(p, n), p)
  <1>1. Len(p) \in Nat  BY DEF Path
  <1>2. m \in 0..Len(p)  BY <1>1
  <1>3. /\ At(p, n) \in Path /\ Len(At(p, n)) = n
        /\ At(p, m) \in Path /\ Len(At(p, m)) = m
    BY <1>2, AtPath
  <1>4. At(At(p, n), m) = At(p, m)  BY AtAt
  <1>5. n <= Len(p) /\ m <= n  BY <1>1
  <1> QED  BY <1>3, <1>4, <1>5, PrefixIsAt

LEMMA PrefixTransitive ==
  ASSUME NEW p \in Path, NEW q \in Path, NEW r \in Path, IsPrefix(p, q), IsPrefix(q, r)
  PROVE  IsPrefix(p, r)
  <1>1. /\ Len(p) <= Len(q) /\ p = At(q, Len(p)) /\ Len(q) <= Len(r) /\ q = At(r, Len(q))
        /\ Len(p) \in Nat /\ Len(q) \in Nat /\ Len(r) \in Nat
    BY PrefixIsAt
  <1>2. Len(q) \in 0..Len(r) /\ Len(p) \in 0..Len(q)  BY <1>1
  <1>3. At(At(r, Len(q)), Len(p)) = At(r, Len(p))  BY <1>2, AtAt
  <1> QED  BY <1>1, <1>3, PrefixIsAt

(* Of two blocks on a branch, the lower is an ancestor of the higher.      *)
LEMMA OneOfTwo ==
  ASSUME NEW p \in Path, NEW q \in Path, NEW r \in Path,
         IsPrefix(p, r), IsPrefix(q, r), Len(p) <= Len(q)
  PROVE  IsPrefix(p, q) /\ (Len(p) = Len(q) => p = q)
  <1>1. /\ p = At(r, Len(p)) /\ Len(q) <= Len(r) /\ q = At(r, Len(q))
        /\ Len(p) \in Nat /\ Len(q) \in Nat /\ Len(r) \in Nat
    BY PrefixIsAt
  <1>2. Len(q) \in 0..Len(r) /\ Len(p) \in 0..Len(q)  BY <1>1
  <1>3. At(At(r, Len(q)), Len(p)) = At(r, Len(p))  BY <1>2, AtAt
  <1> QED  BY <1>1, <1>3, PrefixIsAt

(* The parent of a block.                                                  *)
LEMMA FrontAt ==
  ASSUME NEW p \in Path, p # <<>>
  PROVE  /\ Len(p) \in 1..MaxHeight /\ Len(p) - 1 \in 0..Len(p)
         /\ Front(p) = At(p, Len(p) - 1) /\ Front(p) \in Path
         /\ IsPrefix(Front(p), p)
  <1>1. p \in Seq(0..MaxForks) /\ Len(p) \in Nat /\ Len(p) <= MaxHeight /\ Len(p) # 0
    BY EmptySeq DEF Path
  <1>2. Len(p) - 1 \in 0..Len(p) /\ Len(p) \in 1..MaxHeight
    BY <1>1, SourceAssumption DEF SourceAssumption
  <1>3. Front(p) = At(p, Len(p) - 1)  BY DEF Front, At
  <1>4. 0 \in 0..(Len(p) - 1)  BY <1>1
  <1> QED  BY <1>2, <1>3, <1>4, AtPath, Ancestors

(* The chain grows.                                                        *)
LEMMA PrefixAppend ==
  ASSUME NEW p \in Path, NEW q \in Path, NEW f \in 0..MaxForks, Len(q) < MaxHeight, IsPrefix(p, q)
  PROVE  Append(q, f) \in Path /\ Len(Append(q, f)) = Len(q) + 1 /\ IsPrefix(p, Append(q, f))
  <1> DEFINE r == Append(q, f)
  <1>1. q \in Seq(0..MaxForks) /\ Len(q) \in Nat  BY DEF Path
  <1>2. r \in Seq(0..MaxForks) /\ Len(r) = Len(q) + 1 /\ \A i \in 1..Len(q) : r[i] = q[i]
    BY <1>1, AppendProperties
  <1>3. r \in Path  BY <1>1, <1>2, SourceAssumption DEF Path, SourceAssumption
  <1>4. p = At(q, Len(p)) /\ Len(p) <= Len(q) /\ Len(p) \in Nat  BY PrefixIsAt
  <1>5. Len(p) \in 0..Len(q) /\ Len(p) \in 0..Len(r)  BY <1>1, <1>2, <1>4
  <1>6. \A i \in 1..Len(p) : At(q, Len(p))[i] = q[i] /\ At(r, Len(p))[i] = r[i]
    BY <1>3, <1>5, AtPath
  <1>7. At(r, Len(p)) \in Path /\ Len(At(r, Len(p))) = Len(p)  BY <1>3, <1>5, AtPath
  <1>8. \A i \in 1..Len(p) : At(r, Len(p))[i] = p[i]  BY <1>1, <1>2, <1>4, <1>6
  <1>9. p = At(r, Len(p))  BY <1>7, <1>8, SamePath
  <1> HIDE DEF r
  <1>10. IsPrefix(p, r)  BY <1>3, <1>1, <1>2, <1>4, <1>9, PrefixIsAt
  <1> QED  BY <1>2, <1>3, <1>10 DEF r


-----------------------------------------------------------------------------
(* The inductive invariant.                                                *)

Snapshot == {s \in [path : Path, fresh : SUBSET Nat] : s.fresh \subseteq 1..Len(s.path)}
Checkpoint ==
  {s \in [path : Path, fresh : SUBSET Nat, cursor : 0..(MaxHeight + 1)] :
     s.fresh \subseteq 1..Len(s.path)}

Typed ==
  /\ chain \in Path /\ Len(chain) > Confirmations
  /\ forks \in 0..MaxForks /\ faults \in 0..MaxFaults
  /\ proc \in {"down", "backfill", "live"}
  /\ retained \in Snapshot /\ stored \in Checkpoint
  /\ cursor \in 0..(MaxHeight + 1)
  /\ refresh \in BOOLEAN /\ first \in BOOLEAN
  /\ fetch \in FetchSet \cup {None} /\ page \in PageSet \cup {None}

(* The cache is an interval of the heights of one branch.                  *)
Branch(c, lo, hi) ==
  /\ DOMAIN c = lo..hi
  /\ \A n \in lo..hi :
       c[n] \in Path /\ Len(c[n]) = n /\ \A m \in lo..n : IsPrefix(c[m], c[n])
IsCache(c) == \E lo \in 1..(MaxHeight + 1), hi \in 0..MaxHeight : Branch(c, lo, hi)

(* A process that is down has no state, a first page is the first thing    *)
(* fetched, and a page is applied before the next is fetched.              *)
Idle == proc = "down" => fetch = None /\ page = None
Started ==
  /\ first => cursor = 0 /\ DOMAIN cache = {}
  /\ ~first /\ page = None => cursor # 0
Exclusive == fetch = None \/ page = None

(* The next page follows a cached block.                                   *)
CursorCached ==
  page = None /\ (fetch # None => fetch.pc = "probe") /\ cursor # 0
    => cursor - 1 \in DOMAIN cache

(* The engine has the blocks of a cache.                                   *)
Held(c, path) == \A n \in DOMAIN c : IsPrefix(c[n], path)
QuietHeld == page = None => Held(cache, retained.path)

(* A fork since a block was read has a higher number.                      *)
Unreorged(path, since) == since <= forks /\ (since = forks => IsPrefix(path, chain))

(* A fetch continues the cache.                                            *)
FetchInv ==
  fetch # None =>
    /\ fetch.target # <<>> /\ Unreorged(fetch.target, fetch.since)
    /\ fetch.pc = "probe" => fetch.probe \in Overlapping(fetch.target)
    /\ fetch.pc # "probe" =>
         /\ fetch.rewindTo = None
         /\ fetch.start \in Nat \ {0}
         /\ fetch.start = 1 => DOMAIN cache = {}
         /\ fetch.start > 1 => fetch.start - 1 \in DOMAIN cache
         /\ fetch.start \notin DOMAIN cache
    /\ fetch.pc = "headers" => fetch.start <= fetch.end /\ fetch.end <= Len(fetch.target)
    /\ fetch.pc = "logs" =>
         /\ fetch.start <= Len(fetch.headers) /\ Len(fetch.headers) <= Len(fetch.target)
         /\ fetch.start > 1 => cache[fetch.start - 1] = At(fetch.headers, fetch.start - 1)
         /\ fetch.since = forks => IsPrefix(fetch.headers, chain)

(* What an operation of a page is to the cache: a rewind not below it, a   *)
(* block on its branch.                                                    *)
Fits(op, c) ==
  /\ op.path # <<>>
  /\ op.rewind => \A n \in DOMAIN c : n <= Len(op.path)
  /\ ~op.rewind => \A n \in DOMAIN c :
       IF n <= Len(op.path) THEN IsPrefix(c[n], op.path) ELSE IsPrefix(op.path, c[n])
  /\ op.fresh => Pools
(* Each operation builds on the one before it.                             *)
Base(op) == IF op.rewind THEN op.path ELSE Front(op.path)
Linked(ops, path) ==
  \A i \in DOMAIN ops : IsPrefix(Base(ops[i]), IF i = 1 THEN path ELSE ops[i - 1].path)
(* The engine has the blocks of a cache, or is about to have them.         *)
Delivered(c, ops, path) ==
  \A n \in DOMAIN c :
    \/ IsPrefix(c[n], path)
    \/ \E i \in DOMAIN ops : ~ops[i].rewind /\ IsPrefix(c[n], ops[i].path)

GoodPage(p, c, path) ==
  /\ p.next - 1 \in DOMAIN c
  /\ \A i \in DOMAIN p.ops : Fits(p.ops[i], c)
  /\ Delivered(c, p.ops, path)
  /\ p.since <= forks
  /\ p.since = forks => Linked(p.ops, path)
PageInv == page # None => GoodPage(page, cache, retained.path) /\ ~first

(* Without pools no payload is fresh.                                      *)
Bare == ~Pools => retained.fresh = {} /\ stored.fresh = {}

SourceInv ==
  /\ Typed
  /\ IsCache(cache) /\ Cardinality(DOMAIN cache) <= Retention
  /\ Idle /\ Started /\ Exclusive
  /\ CursorCached /\ QuietHeld
  /\ FetchInv /\ PageInv
  /\ NothingSkipped
  /\ Bare

-----------------------------------------------------------------------------
(* The cache.                                                              *)

LEMMA CacheFacts ==
  ASSUME NEW c, IsCache(c)
  PROVE  /\ DOMAIN c \subseteq 1..MaxHeight
         /\ \A n \in DOMAIN c : c[n] \in Path /\ Len(c[n]) = n /\ c[n] # <<>>
         /\ \A m, n \in DOMAIN c : m <= n => IsPrefix(c[m], c[n])
         /\ \A m, n \in DOMAIN c, k \in Nat : m <= k /\ k <= n => k \in DOMAIN c
         /\ \A m, n \in DOMAIN c : n = m + 1 => Front(c[n]) = c[m]
  <1>1. PICK lo \in 1..(MaxHeight + 1), hi \in 0..MaxHeight : Branch(c, lo, hi)
    BY DEF IsCache
  <1>2. lo \in Nat /\ hi \in Nat /\ 1 <= lo /\ hi <= MaxHeight /\ MaxHeight \in Nat
    BY SourceAssumption DEF SourceAssumption
  <1>3. DOMAIN c = lo..hi  BY <1>1 DEF Branch
  <1>4. DOMAIN c \subseteq 1..MaxHeight  BY <1>2, <1>3
  <1>5. \A n \in DOMAIN c : c[n] \in Path /\ Len(c[n]) = n
    BY <1>1, <1>3 DEF Branch
  <1>6. \A n \in DOMAIN c : c[n] # <<>>
    <2>1. Len(<<>>) = 0  OBVIOUS
    <2> QED  BY <1>4, <1>5, <2>1
  <1>7. \A m, n \in DOMAIN c : m <= n => IsPrefix(c[m], c[n])
    <2> SUFFICES ASSUME NEW m \in DOMAIN c, NEW n \in DOMAIN c, m <= n
                 PROVE IsPrefix(c[m], c[n])  OBVIOUS
    <2>1. n \in lo..hi /\ m \in lo..n  BY <1>2, <1>3
    <2> QED  BY <1>1, <2>1 DEF Branch
  <1>8. \A m, n \in DOMAIN c, k \in Nat : m <= k /\ k <= n => k \in DOMAIN c
    BY <1>2, <1>3
  <1>9. \A m, n \in DOMAIN c : n = m + 1 => Front(c[n]) = c[m]
    <2> SUFFICES ASSUME NEW m \in DOMAIN c, NEW n \in DOMAIN c, n = m + 1
                 PROVE Front(c[n]) = c[m]  OBVIOUS
    <2>1. m \in Nat /\ n - 1 = m /\ m <= n  BY <1>4
    <2>2. c[n] \in Path /\ Len(c[n]) = n /\ c[n] # <<>> /\ c[m] \in Path /\ Len(c[m]) = m
      BY <1>5, <1>6
    <2>3. Front(c[n]) = At(c[n], m)  BY <2>1, <2>2, FrontAt
    <2>4. c[m] = At(c[n], m)  BY <1>7, <2>1, <2>2, PrefixIsAt
    <2> QED  BY <2>3, <2>4
  <1> QED  BY <1>4, <1>5, <1>6, <1>7, <1>8, <1>9

(* What a cache has below a height is a cache.                             *)
LEMMA CacheCut ==
  ASSUME NEW c, IsCache(c), NEW k \in Nat
  PROVE  LET cut == [n \in {m \in DOMAIN c : m < k} |-> c[n]] IN
         /\ IsCache(cut)
         /\ Cardinality(DOMAIN cut) <= Cardinality(DOMAIN c)
         /\ DOMAIN cut = {m \in DOMAIN c : m < k}
         /\ \A n \in DOMAIN cut : cut[n] = c[n]
  <1> DEFINE cut == [n \in {m \in DOMAIN c : m < k} |-> c[n]]
  <1>1. PICK lo \in 1..(MaxHeight + 1), hi \in 0..MaxHeight : Branch(c, lo, hi)
    BY DEF IsCache
  <1>2. lo \in Nat /\ hi \in Nat /\ 1 <= lo /\ hi <= MaxHeight /\ MaxHeight \in Nat
    BY SourceAssumption DEF SourceAssumption
  <1>3. DOMAIN c = lo..hi  BY <1>1 DEF Branch
  <1>4. DOMAIN cut = {m \in DOMAIN c : m < k} /\ \A n \in DOMAIN cut : cut[n] = c[n]
    OBVIOUS
  <1>5. Cardinality(DOMAIN cut) <= Cardinality(DOMAIN c)
    <2>1. IsFiniteSet(DOMAIN c)  BY <1>2, <1>3, FS_Interval
    <2>2. DOMAIN cut \subseteq DOMAIN c  BY <1>4
    <2> QED  BY <2>1, <2>2, FS_Subset
  <1>6. PICK h \in 0..MaxHeight : h = IF k > hi THEN hi ELSE IF k = 0 THEN 0 ELSE k - 1
    BY <1>2
  <1>7. DOMAIN cut = lo..h /\ lo..h \subseteq lo..hi  BY <1>2, <1>3, <1>4, <1>6
  <1>8. Branch(cut, lo, h)  BY <1>1, <1>3, <1>4, <1>7, <1>2 DEF Branch
  <1> HIDE DEF cut
  <1>9. IsCache(cut)  BY <1>8 DEF IsCache
  <1> QED  BY <1>4, <1>5, <1>9 DEF cut

LEMMA MaxOfTwo ==
  ASSUME NEW lo \in Nat, NEW hi \in Nat, lo <= hi
  PROVE  Max(lo..hi) = hi
  <1>1. hi \in lo..hi /\ \A y \in lo..hi : hi >= y  OBVIOUS
  <1>2. \A x \in lo..hi : (\A y \in lo..hi : x >= y) => x = hi  OBVIOUS
  <1> QED  BY <1>1, <1>2 DEF Max

LEMMA MinOfTwo ==
  ASSUME NEW a \in Nat, NEW b \in Nat
  PROVE  Min({a, b}) = IF a <= b THEN a ELSE b
  <1> DEFINE m == IF a <= b THEN a ELSE b
  <1>1. m \in {a, b} /\ \A y \in {a, b} : m <= y  OBVIOUS
  <1>2. \A x \in {a, b} : (\A y \in {a, b} : x <= y) => x = m  OBVIOUS
  <1> HIDE DEF m
  <1>3. Min({a, b}) = m  BY <1>1, <1>2 DEF Min
  <1> QED  BY <1>3 DEF m

(* The newest of an interval are its upper end.                            *)
LEMMA NewestInterval ==
  ASSUME NEW lo \in Nat \ {0}, NEW hi \in Nat, lo <= hi
  PROVE  \E a \in lo..hi : /\ Newest(lo..hi) = a..hi
                           /\ Cardinality(a..hi) <= Retention
  <1>0. Retention \in Nat \ {0}  BY SourceAssumption DEF SourceAssumption
  <1>1. \A n \in lo..hi : {m \in lo..hi : m > n} = (n + 1)..hi /\ Cardinality((n + 1)..hi) = hi - n
    <2> SUFFICES ASSUME NEW n \in lo..hi
                 PROVE {m \in lo..hi : m > n} = (n + 1)..hi /\ Cardinality((n + 1)..hi) = hi - n
      OBVIOUS
    <2>1. {m \in lo..hi : m > n} = (n + 1)..hi  OBVIOUS
    <2>2. n + 1 \in Int /\ hi \in Int  OBVIOUS
    <2>3. Cardinality((n + 1)..hi) = IF n + 1 > hi THEN 0 ELSE hi - (n + 1) + 1
      BY <2>2, FS_Interval
    <2> QED  BY <2>1, <2>3
  <1>2. Newest(lo..hi) = {n \in lo..hi : hi - n < Retention}  BY <1>1 DEF Newest
  <1>3. PICK a \in lo..hi : a = IF hi - Retention + 1 > lo THEN hi - Retention + 1 ELSE lo
    <2>1. CASE hi - Retention + 1 > lo
      <3>1. hi - Retention + 1 \in lo..hi  BY <1>0, <2>1
      <3> QED  BY <2>1, <3>1
    <2>2. CASE ~(hi - Retention + 1 > lo)
      <3>1. lo \in lo..hi  OBVIOUS
      <3> QED  BY <2>2, <3>1
    <2> QED  BY <2>1, <2>2
  <1>4. {n \in lo..hi : hi - n < Retention} = a..hi  BY <1>0, <1>3
  <1>5. Cardinality(a..hi) <= Retention
    <2>1. a \in Int /\ hi \in Int /\ a <= hi  OBVIOUS
    <2>2. Cardinality(a..hi) = IF a > hi THEN 0 ELSE hi - a + 1  BY <2>1, FS_Interval
    <2> QED  BY <1>0, <1>3, <2>1, <2>2
  <1> QED  BY <1>2, <1>4, <1>5

-----------------------------------------------------------------------------
(* The steps of the chain and the end and start of a process.              *)

LEMMA Bounds ==
  /\ MaxHeight \in Nat /\ MaxForks \in Nat /\ MaxFaults \in Nat /\ Confirmations \in Nat
  /\ PageSize \in Nat \ {0} /\ Retention \in Nat \ {0} /\ MaxHeight > Confirmations
  BY SourceAssumption DEF SourceAssumption

LEMMA EmptyCache ==
  ASSUME NEW c, DOMAIN c = {}
  PROVE  IsCache(c) /\ Cardinality(DOMAIN c) <= Retention
  <1>1. 1 \in 1..(MaxHeight + 1) /\ 0 \in 0..MaxHeight /\ 1..0 = {}  BY Bounds
  <1>2. Branch(c, 1, 0)  BY <1>1 DEF Branch
  <1>3. Cardinality(DOMAIN c) = 0  BY FS_EmptySet
  <1> QED  BY <1>1, <1>2, <1>3, Bounds DEF IsCache

LEMMA EmptyPath == <<>> \in Path /\ Len(<<>>) = 0
  BY Bounds, EmptySeq DEF Path

LEMMA InitSourceInv == Init => SourceInv
  <1> SUFFICES ASSUME Init PROVE SourceInv  OBVIOUS
  <1> USE DEF Init
  <1>1. Typed
    <2>1. /\ Confirmations + 1 \in Nat /\ 0 \in 0..MaxForks /\ 0 \in 0..MaxFaults
          /\ 0 \in 0..(MaxHeight + 1) /\ Confirmations + 1 <= MaxHeight
      BY Bounds
    <2>2. chain \in Seq(0..MaxForks) /\ Len(chain) = Confirmations + 1
      <3>1. chain \in [1..(Confirmations + 1) -> 0..MaxForks]  BY <2>1
      <3>2. chain \in Seq(0..MaxForks)  BY <2>1, <3>1, SeqDef
      <3>3. DOMAIN chain = 1..(Confirmations + 1)  BY <3>1
      <3>4. DOMAIN chain = 1..Len(chain) /\ Len(chain) \in Nat  BY <3>2, LenProperties
      <3> QED  BY <2>1, <3>2, <3>3, <3>4
    <2>3. chain \in Path /\ Len(chain) > Confirmations  BY <2>1, <2>2, Bounds DEF Path
    <2>4. retained \in Snapshot /\ stored \in Checkpoint
      BY <2>1, EmptyPath DEF Snapshot, Checkpoint, Nothing
    <2> QED  BY <2>1, <2>3, <2>4 DEF Typed
  <1>2. DOMAIN cache = {}  OBVIOUS
  <1>3. IsCache(cache) /\ Cardinality(DOMAIN cache) <= Retention  BY <1>2, EmptyCache
  <1>4. Idle /\ Started /\ Exclusive /\ CursorCached /\ FetchInv /\ PageInv
    BY <1>2 DEF Idle, Started, Exclusive, CursorCached, FetchInv, PageInv
  <1>5. QuietHeld  BY <1>2 DEF QuietHeld, Held
  <1>6. NothingSkipped /\ Bare  BY DEF NothingSkipped, Bare, Nothing
  <1> QED  BY <1>1, <1>3, <1>4, <1>5, <1>6 DEF SourceInv

LEMMA EndsInv ==
  ASSUME SourceInv, NEW save, Ends(save), UNCHANGED env, faults' \in 0..MaxFaults
  PROVE  SourceInv'
  <1> USE DEF Ends, env
  <1>1. Typed'
    <2>1. retained' \in Snapshot  BY EmptyPath DEF Snapshot, Nothing
    <2>2. stored' \in Checkpoint
      <3>1. retained \in Snapshot /\ stored \in Checkpoint /\ cursor \in 0..(MaxHeight + 1)
        BY DEF SourceInv, Typed
      <3> QED  BY <3>1 DEF Snapshot, Checkpoint
    <2>3. cursor' \in 0..(MaxHeight + 1)  BY Bounds
    <2>4. chain' \in Path /\ Len(chain') > Confirmations /\ forks' \in 0..MaxForks
      BY DEF SourceInv, Typed
    <2> QED  BY <2>1, <2>2, <2>3, <2>4 DEF Typed
  <1>2. DOMAIN cache' = {}  OBVIOUS
  <1>3. IsCache(cache)' /\ (Cardinality(DOMAIN cache) <= Retention)'  BY <1>2, EmptyCache
  <1>4. Idle' /\ Started' /\ Exclusive' /\ CursorCached' /\ FetchInv' /\ PageInv'
    BY <1>2 DEF Idle, Started, Exclusive, CursorCached, FetchInv, PageInv
  <1>5. QuietHeld'  BY <1>2 DEF QuietHeld, Held
  <1>6. NothingSkipped' /\ Bare'  BY DEF NothingSkipped, SourceInv, Bare, Nothing
  <1> QED  BY <1>1, <1>3, <1>4, <1>5, <1>6 DEF SourceInv

LEMMA ThrowsInv == ASSUME SourceInv, Throws PROVE SourceInv'
  <1>1. Ends(TRUE) /\ UNCHANGED env /\ faults' \in 0..MaxFaults
    BY DEF Throws, SourceInv, Typed
  <1> QED  BY <1>1, EndsInv

LEMMA FaultInv == ASSUME SourceInv, Crash \/ RequestFails PROVE SourceInv'
  <1>0. faults \in 0..MaxFaults  BY DEF SourceInv, Typed
  <1>1. faults' \in 0..MaxFaults
    <2>1. faults < MaxFaults /\ faults' = faults + 1  BY Zenon DEF Crash, RequestFails
    <2> QED  BY <1>0, <2>1, Bounds
  <1>2. UNCHANGED env /\ \E save \in BOOLEAN : Ends(save)  BY DEF Crash, RequestFails
  <1> QED  BY <1>1, <1>2, EndsInv

(* The invariant of the process says of the chain only that what was read  *)
(* since the last fork is on it.                                           *)
LEMMA ChainInv ==
  ASSUME SourceInv,
         UNCHANGED <<proc, stored, retained, source, fetch, page, faults>>,
         chain' \in Path, Len(chain') > Confirmations, forks' \in 0..MaxForks, forks' >= forks,
         \A p \in Path : forks' = forks /\ IsPrefix(p, chain) => IsPrefix(p, chain')
  PROVE  SourceInv'
  <1> USE DEF source
  <1>0. forks \in Nat /\ forks' \in Nat  BY Bounds DEF SourceInv, Typed
  <1>1. Typed'  BY DEF SourceInv, Typed
  <1>2. /\ IsCache(cache)' /\ (Cardinality(DOMAIN cache) <= Retention)' /\ Idle' /\ Started'
        /\ Exclusive' /\ CursorCached' /\ QuietHeld' /\ NothingSkipped' /\ Bare'
    BY DEF SourceInv, IsCache, Branch, Idle, Started, Exclusive, CursorCached, QuietHeld, Held,
           NothingSkipped, RequestedStart, Bare
  <1>3. FetchInv'
    <2> SUFFICES ASSUME fetch # None PROVE FetchInv'  BY DEF FetchInv
    <2>1. FetchInv /\ fetch \in FetchSet  BY DEF SourceInv, Typed
    <2>2. fetch.target \in Path /\ fetch.since \in Nat
      BY <2>1 DEF FetchSet
    <2>3. Unreorged(fetch.target, fetch.since)'
      BY <1>0, <2>1, <2>2 DEF FetchInv, Unreorged
    <2>4. fetch.pc = "logs" => (fetch.since = forks => IsPrefix(fetch.headers, chain))'
      <3> SUFFICES ASSUME fetch.pc = "logs", fetch.since = forks'
                   PROVE IsPrefix(fetch.headers, chain')  OBVIOUS
      <3>1. fetch.headers \in Path  BY <2>1 DEF FetchSet
      <3>2. fetch.since = forks /\ forks' = forks
        BY <1>0, <2>1, <2>2 DEF FetchInv, Unreorged
      <3> QED  BY <2>1, <3>1, <3>2 DEF FetchInv
    <2> QED  BY <2>1, <2>3, <2>4 DEF FetchInv, Overlapping
  <1>4. PageInv'
    <2> SUFFICES ASSUME page # None PROVE GoodPage(page, cache, retained.path)' /\ ~first'
      BY DEF PageInv
    <2>1. GoodPage(page, cache, retained.path) /\ ~first /\ page \in PageSet
      BY DEF SourceInv, PageInv, Typed
    <2>2. page.since \in Nat  BY <2>1 DEF PageSet
    <2>3. page.since <= forks' /\ (page.since = forks' => page.since = forks)
      BY <1>0, <2>1, <2>2 DEF GoodPage
    <2> QED  BY <2>1, <2>3 DEF GoodPage
  <1> QED  BY <1>1, <1>2, <1>3, <1>4 DEF SourceInv

LEMMA MineInv == ASSUME SourceInv, Mine PROVE SourceInv'
  <1>1. chain \in Path /\ forks \in 0..MaxForks /\ Len(chain) > Confirmations
    BY DEF SourceInv, Typed
  <1>2. Len(chain) < MaxHeight /\ chain' = Append(chain, forks) /\ forks' = forks
    BY DEF Mine
  <1>3. \A p \in Path : IsPrefix(p, chain) => IsPrefix(p, chain')
    BY <1>1, <1>2, PrefixAppend
  <1>4. IsPrefix(chain, chain)  BY <1>1, AtSelf
  <1>5. chain' \in Path /\ Len(chain') = Len(chain) + 1
    BY <1>1, <1>2, <1>4, PrefixAppend
  <1>6. Len(chain') > Confirmations  BY <1>1, <1>5, Bounds, PrefixIsAt
  <1> QED  BY <1>1, <1>2, <1>3, <1>5, <1>6, ChainInv, Bounds DEF Mine

LEMMA ReorganiseInv == ASSUME SourceInv, Reorganise PROVE SourceInv'
  <1>1. chain \in Path /\ forks \in 0..MaxForks /\ Len(chain) \in Nat
    BY PrefixIsAt DEF SourceInv, Typed
  <1>2. PICK n \in (Confirmations + 1)..(Len(chain) - 1) : chain' = At(chain, n)
    BY DEF Reorganise
  <1>3. forks' = forks + 1 /\ forks < MaxForks  BY DEF Reorganise
  <1>4. n \in 0..Len(chain) /\ n > Confirmations  BY <1>1, Bounds
  <1>5. chain' \in Path /\ Len(chain') > Confirmations
    BY <1>1, <1>2, <1>4, AtPath
  <1>6. forks' \in 0..MaxForks /\ forks' >= forks /\ forks' # forks  BY <1>1, <1>3, Bounds
  <1> QED  BY <1>5, <1>6, ChainInv DEF Reorganise

LEMMA SingleCache ==
  ASSUME NEW p \in Path, p # <<>>
  PROVE  LET c == [n \in {Len(p)} |-> p] IN
         IsCache(c) /\ Cardinality(DOMAIN c) <= Retention
  <1> DEFINE c == [n \in {Len(p)} |-> p]
  <1>1. Len(p) \in 1..MaxHeight  BY FrontAt
  <1>2. Len(p) \in 1..(MaxHeight + 1) /\ Len(p) \in 0..MaxHeight /\ Len(p)..Len(p) = {Len(p)}
    BY <1>1, Bounds
  <1>3. DOMAIN c = {Len(p)} /\ c[Len(p)] = p  OBVIOUS
  <1>4. Cardinality(DOMAIN c) = 1  BY <1>3, FS_Singleton
  <1>5. IsPrefix(p, p)  BY AtSelf
  <1> HIDE DEF c
  <1>6. Branch(c, Len(p), Len(p))
    <2>1. \A n \in Len(p)..Len(p) : n = Len(p) /\ Len(p)..n = {Len(p)}  BY <1>2
    <2> QED  BY <1>2, <1>3, <1>5, <2>1 DEF Branch
  <1>7. IsCache(c)  BY <1>2, <1>6 DEF IsCache
  <1>8. Cardinality(DOMAIN c) <= Retention  BY <1>4, Bounds
  <1> QED  BY <1>7, <1>8 DEF c

LEMMA StartInv == ASSUME SourceInv, Start PROVE SourceInv'
  <1>0. fetch = None /\ page = None /\ stored \in Checkpoint
    BY DEF SourceInv, Idle, Start, Typed
  <1>1. stored.path \in Path /\ stored.fresh \subseteq 1..Len(stored.path)
    BY <1>0 DEF Checkpoint
  <1>2. retained' = [path |-> stored.path, fresh |-> stored.fresh] /\ proc' = "backfill"
        /\ chain' = chain /\ forks' = forks /\ stored' = stored /\ fetch' = None /\ page' = None
        /\ faults' = faults
    BY <1>0 DEF Start, env
  <1>3. retained' \in Snapshot  BY <1>0, <1>1, <1>2 DEF Snapshot, Checkpoint
  <1>4. Idle' /\ Exclusive' /\ FetchInv' /\ PageInv'
    BY <1>2 DEF Idle, Exclusive, FetchInv, PageInv
  <1>5. Bare'  BY <1>2 DEF SourceInv, Bare
  <1>6. CASE Resumes
    <2>1. stored.path # <<>> /\ cache' = [n \in {Len(stored.path)} |-> stored.path]
          /\ cursor' = Len(stored.path) + 1 /\ first' = FALSE /\ refresh' = TRUE
      BY <1>6 DEF Start, Resumes
    <2>2. Len(stored.path) \in 1..MaxHeight  BY <1>1, <2>1, FrontAt
    <2>3. cursor' \in 0..(MaxHeight + 1) /\ cursor' # 0 /\ cursor' - 1 = Len(stored.path)
      BY <2>1, <2>2, Bounds
    <2>4. Typed'  BY <1>2, <1>3, <2>1, <2>3 DEF Typed, SourceInv
    <2>5. IsCache(cache)' /\ (Cardinality(DOMAIN cache) <= Retention)'
      BY <1>1, <2>1, SingleCache
    <2>6. Started' /\ CursorCached'  BY <2>1, <2>3 DEF Started, CursorCached
    <2>7. QuietHeld'
      <3>1. IsPrefix(stored.path, stored.path)  BY <1>1, AtSelf
      <3> QED  BY <1>2, <2>1, <3>1 DEF QuietHeld, Held
    <2>8. NothingSkipped'
      BY <1>2, <2>1, <2>2, <2>3 DEF NothingSkipped, RequestedStart
    <2> QED  BY <1>4, <1>5, <2>4, <2>5, <2>6, <2>7, <2>8 DEF SourceInv
  <1>7. CASE ~Resumes
    <2>1. cache' = <<>> /\ cursor' = 0 /\ first' = TRUE /\ refresh' = FALSE
      BY <1>7 DEF Start
    <2>2. DOMAIN cache' = {} /\ cursor' \in 0..(MaxHeight + 1)  BY <2>1, Bounds
    <2>3. Typed'  BY <1>2, <1>3, <2>1, <2>2 DEF Typed, SourceInv
    <2>4. IsCache(cache)' /\ (Cardinality(DOMAIN cache) <= Retention)'
      BY <2>2, EmptyCache
    <2>5. Started' /\ CursorCached'  BY <2>1, <2>2 DEF Started, CursorCached
    <2>6. QuietHeld'  BY <2>2 DEF QuietHeld, Held
    <2>7. NothingSkipped'
      <3>1. Len(stored.path) \in Nat  BY <1>1, PrefixIsAt
      <3> QED  BY <1>2, <2>1, <3>1 DEF NothingSkipped, RequestedStart
    <2> QED  BY <1>4, <1>5, <2>3, <2>4, <2>5, <2>6, <2>7 DEF SourceInv
  <1> QED  BY <1>6, <1>7

-----------------------------------------------------------------------------
(* The steps of a page.                                                    *)

LEMMA PageDoneInv == ASSUME SourceInv, PageDone PROVE SourceInv'
  <1>1. CASE Throws  BY <1>1, ThrowsInv
  <1>2. CASE ~Throws
    <2>1. /\ page # None /\ page.ops = <<>> /\ cursor' = page.next /\ page' = None
          /\ UNCHANGED <<retained, cache, refresh, first, fetch, env, faults>>
          /\ \/ /\ proc = "backfill" /\ proc' = "live"
                /\ stored' = [path |-> retained.path, fresh |-> retained.fresh,
                              cursor |-> page.next]
             \/ UNCHANGED <<proc, stored>>
      BY <1>2 DEF PageDone
    <2>2. /\ GoodPage(page, cache, retained.path) /\ ~first /\ fetch = None
          /\ IsCache(cache) /\ page \in PageSet /\ retained \in Snapshot
      BY <2>1 DEF SourceInv, PageInv, Exclusive, Typed
    <2>3. page.next \in Nat /\ page.next - 1 \in DOMAIN cache
      BY <2>2 DEF PageSet, GoodPage
    <2>4. page.next - 1 \in 1..MaxHeight  BY <2>2, <2>3, CacheFacts
    <2>5. cursor' \in 0..(MaxHeight + 1) /\ cursor' # 0  BY <2>1, <2>3, <2>4, Bounds
    <2>6. Typed'
      <3>1. stored' \in Checkpoint
        <4>1. CASE stored' = stored  BY <4>1 DEF SourceInv, Typed
        <4>2. CASE stored' = [path |-> retained.path, fresh |-> retained.fresh,
                              cursor |-> page.next]
          BY <2>1, <2>2, <2>5, <4>2 DEF Snapshot, Checkpoint
        <4> QED  BY <2>1, <4>1, <4>2
      <3> QED  BY <2>1, <2>5, <3>1 DEF SourceInv, Typed, env
    <2>7. Held(cache, retained.path)
      <3>1. DOMAIN page.ops = {}  BY <2>1
      <3> QED  BY <2>2, <3>1 DEF GoodPage, Delivered, Held
    <2>8. NothingSkipped'
      <3>1. IsPrefix(cache[page.next - 1], retained.path)  BY <2>3, <2>7 DEF Held
      <3>2. cache[page.next - 1] \in Path /\ Len(cache[page.next - 1]) = page.next - 1
        BY <2>2, <2>3, CacheFacts
      <3>3. retained.path \in Path  BY <2>2 DEF Snapshot
      <3>4. page.next - 1 <= Len(retained.path) /\ Len(retained.path) \in Nat
        BY <3>1, <3>2, <3>3, PrefixIsAt
      <3>5. page.next <= Len(retained.path) + 1  BY <2>3, <3>4
      <3> QED  BY <2>1, <2>2, <2>5, <3>5 DEF NothingSkipped, RequestedStart
    <2>9. IsCache(cache)' /\ (Cardinality(DOMAIN cache) <= Retention)'
      BY <2>1 DEF SourceInv, IsCache, Branch
    <2>10. Idle' /\ Started' /\ Exclusive' /\ FetchInv' /\ PageInv'
      BY <2>1, <2>2, <2>5 DEF SourceInv, Idle, Started, Exclusive, FetchInv, PageInv
    <2>11. QuietHeld' /\ CursorCached'
      BY <2>1, <2>3, <2>7 DEF QuietHeld, Held, CursorCached
    <2>12. Bare'  BY <2>1 DEF SourceInv, Bare
    <2> QED  BY <2>6, <2>8, <2>9, <2>10, <2>11, <2>12 DEF SourceInv
  <1> QED  BY <1>1, <1>2

(* A good page stays good when its first operation is accepted.            *)
LEMMA NextOp ==
  ASSUME NEW p \in PageSet, NEW c, IsCache(c), retained \in Snapshot,
         GoodPage(p, c, retained.path), p.ops # <<>>, Accepts(Head(p.ops))
  PROVE  /\ GoodPage([p EXCEPT !.ops = Tail(@)], c, Result(Head(p.ops)).path)
         /\ [p EXCEPT !.ops = Tail(@)] \in PageSet
         /\ Result(Head(p.ops)) \in Snapshot
         /\ ~Pools /\ retained.fresh = {} => Result(Head(p.ops)).fresh = {}
  <1> DEFINE ops == p.ops
             op == Head(ops)
             rest == Tail(ops)
             path == retained.path
             new == Result(op).path
  <1>1. ops \in Seq(Op)  BY DEF PageSet
  <1>2. /\ rest \in Seq(Op) /\ Len(rest) = Len(ops) - 1 /\ Len(ops) \in Nat /\ Len(ops) # 0
        /\ DOMAIN ops = 1..Len(ops) /\ DOMAIN rest = 1..Len(rest)
        /\ \A i \in 1..Len(rest) : rest[i] = ops[i + 1]
    BY <1>1, HeadTailProperties, LenProperties, EmptySeq
  <1>3. op = ops[1] /\ 1 \in DOMAIN ops /\ op \in Op  BY <1>1, <1>2, ElementOfSeq
  <1>4. /\ op.path \in Path /\ op.path # <<>> /\ path \in Path
        /\ retained.fresh \subseteq 1..Len(path) /\ Fits(op, c)
    BY <1>3 DEF Op, GoodPage, Snapshot, Fits
  <1>5. Len(op.path) \in 1..MaxHeight /\ Len(path) \in Nat
    BY <1>4, FrontAt, PrefixIsAt
  <1>6. new \in Path /\ Result(op) \in Snapshot
        /\ \/ new = path /\ ~op.rewind /\ IsPrefix(op.path, path)
           \/ new = op.path /\ (op.rewind => IsPrefix(op.path, path))
                            /\ (~op.rewind => ~IsPrefix(op.path, path))
    <2>1. CASE op.rewind
      <3>1. Result(op) = Rewound(op) /\ IsPrefix(op.path, path)
        BY <2>1 DEF Result, Accepts, Known
      <3>2. Below(retained.fresh, Len(op.path) + 1) \subseteq 1..Len(op.path)
        BY <1>4, <1>5 DEF Below
      <3>3. 1..Len(op.path) \subseteq Nat  OBVIOUS
      <3> QED  BY <1>4, <2>1, <3>1, <3>2, <3>3 DEF Rewound, Snapshot
    <2>2. CASE ~op.rewind /\ Known(op.path)
      <3>1. Result(op) = retained /\ IsPrefix(op.path, path)
        BY <2>2 DEF Result, Ingested, Known
      <3> QED  BY <1>4, <2>2, <3>1
    <2>3. CASE ~op.rewind /\ ~Known(op.path)
      <3> DEFINE f == Below(retained.fresh, Len(op.path)) \cup (IF op.fresh THEN {Len(op.path)} ELSE {})
      <3>1. Result(op) = [path |-> op.path, fresh |-> f] /\ ~IsPrefix(op.path, path)
        BY <2>3 DEF Result, Ingested, Known
      <3>2. f \subseteq 1..Len(op.path) /\ f \subseteq Nat  BY <1>4, <1>5 DEF Below
      <3> HIDE DEF f
      <3>3. Result(op).path = op.path /\ Result(op).fresh = f  BY <3>1
      <3>4. Result(op) \in [path : Path, fresh : SUBSET Nat]
        <4>1. f \in SUBSET Nat /\ op.path \in Path  BY <1>4, <3>2
        <4>2. \A a \in Path, b \in SUBSET Nat :
                [path |-> a, fresh |-> b] \in [path : Path, fresh : SUBSET Nat]
          OBVIOUS
        <4> QED  BY <3>1, <4>1, <4>2
      <3>5. Result(op) \in Snapshot  BY <3>2, <3>3, <3>4 DEF Snapshot
      <3> QED  BY <1>4, <2>3, <3>1, <3>3, <3>5
    <2> QED  BY <2>1, <2>2, <2>3
  <1>7. ~Pools /\ retained.fresh = {} => Result(op).fresh = {}
    <2> SUFFICES ASSUME ~Pools, retained.fresh = {} PROVE Result(op).fresh = {}  OBVIOUS
    <2>1. ~op.fresh  BY <1>4 DEF Fits
    <2> QED  BY <2>1 DEF Result, Rewound, Ingested, Below
  <1> HIDE DEF rest, op, ops, new, path
  <1> DEFINE q == [p EXCEPT !.ops = Tail(@)]
  <1>8. q \in PageSet /\ q.ops = rest /\ q.next = p.next /\ q.since = p.since
    BY <1>2 DEF PageSet, rest, ops
  <1>9. \A n \in DOMAIN c : c[n] \in Path /\ Len(c[n]) = n /\ n \in Nat
    BY CacheFacts
  <1>10. Delivered(c, rest, new)
    <2> SUFFICES ASSUME NEW n \in DOMAIN c
                 PROVE \/ IsPrefix(c[n], new)
                       \/ \E i \in DOMAIN rest : ~rest[i].rewind /\ IsPrefix(c[n], rest[i].path)
      BY DEF Delivered
    <2>1. CASE IsPrefix(c[n], path)
      <3>1. CASE new = path  BY <2>1, <3>1
      <3>2. CASE op.rewind
        <4>1. n <= Len(op.path) /\ new = op.path /\ IsPrefix(op.path, path)
          BY <1>4, <1>6, <3>2 DEF Fits
        <4> QED  BY <1>4, <1>9, <2>1, <4>1, OneOfTwo
      <3>3. CASE ~op.rewind /\ new = op.path /\ ~IsPrefix(op.path, path)
        <4>1. CASE n <= Len(op.path)  BY <1>4, <3>3, <4>1 DEF Fits
        <4>2. CASE ~(n <= Len(op.path))
          <5>1. IsPrefix(op.path, c[n])  BY <1>4, <3>3, <4>2 DEF Fits
          <5>2. IsPrefix(op.path, path)  BY <1>4, <1>9, <2>1, <5>1, PrefixTransitive
          <5> QED  BY <3>3, <5>2
        <4> QED  BY <4>1, <4>2
      <3> QED  BY <1>6, <3>1, <3>2, <3>3
    <2>2. CASE ~IsPrefix(c[n], path)
      <3>1. PICK i \in DOMAIN ops : ~ops[i].rewind /\ IsPrefix(c[n], ops[i].path)
        BY <2>2 DEF GoodPage, Delivered, ops, path
      <3>2. CASE i = 1
        <4>1. ~op.rewind /\ IsPrefix(c[n], op.path)  BY <1>3, <3>1, <3>2
        <4>2. CASE new = op.path  BY <4>1, <4>2
        <4>3. CASE IsPrefix(op.path, path)
          <5>1. IsPrefix(c[n], path)  BY <1>4, <1>9, <4>1, <4>3, PrefixTransitive
          <5> QED  BY <2>2, <5>1
        <4> QED  BY <1>6, <4>2, <4>3
      <3>3. CASE i # 1
        <4>1. i - 1 \in DOMAIN rest /\ rest[i - 1] = ops[i]  BY <1>2, <3>3
        <4> QED  BY <3>1, <4>1
      <3> QED  BY <3>2, <3>3
    <2> QED  BY <2>1, <2>2
  <1>11. \A i \in DOMAIN rest : Fits(rest[i], c)
    <2>1. \A i \in DOMAIN rest : i + 1 \in DOMAIN ops /\ rest[i] = ops[i + 1]  BY <1>2
    <2>2. \A i \in DOMAIN ops : Fits(ops[i], c)  BY DEF GoodPage, ops
    <2> QED  BY <2>1, <2>2
  <1>12. p.since = forks => Linked(rest, new)
    <2> SUFFICES ASSUME p.since = forks, NEW i \in DOMAIN rest
                 PROVE IsPrefix(Base(rest[i]), IF i = 1 THEN new ELSE rest[i - 1].path)
      BY DEF Linked
    <2>1. i + 1 \in DOMAIN ops /\ rest[i] = ops[i + 1] /\ i + 1 # 1 /\ (i + 1) - 1 = i
          /\ i \in DOMAIN ops
      BY <1>2
    <2>2. IsPrefix(Base(rest[i]), ops[i].path)
      <3>1. IsPrefix(Base(ops[i + 1]), IF i + 1 = 1 THEN path ELSE ops[(i + 1) - 1].path)
        BY <2>1 DEF GoodPage, Linked, ops, path
      <3> QED  BY <2>1, <3>1
    <2>3. CASE i = 1
      <3>1. IsPrefix(Base(rest[1]), op.path)  BY <1>3, <2>2, <2>3
      <3>2. rest[1] \in Op  BY <1>2, <2>3, ElementOfSeq
      <3>3. rest[1].path # <<>>  BY <1>11, <2>3 DEF Fits
      <3>4. Base(rest[1]) \in Path  BY <3>2, <3>3, FrontAt DEF Base, Op
      <3>5. IsPrefix(op.path, new)  BY <1>4, <1>6, AtSelf
      <3>6. IsPrefix(Base(rest[1]), new)  BY <1>4, <1>6, <3>1, <3>4, <3>5, PrefixTransitive
      <3> QED  BY <2>3, <3>6
    <2>4. CASE i # 1
      <3>1. i - 1 \in DOMAIN rest /\ rest[i - 1] = ops[i]
        <4>1. i - 1 \in 1..Len(rest) /\ (i - 1) + 1 = i  BY <1>2, <2>4
        <4> QED  BY <1>2, <4>1
      <3> QED  BY <2>2, <2>4, <3>1
    <2> QED  BY <2>3, <2>4
  <1> HIDE DEF q
  <1>13. GoodPage(q, c, new)
    BY <1>8, <1>10, <1>11, <1>12 DEF GoodPage
  <1> QED  BY <1>6, <1>7, <1>8, <1>13 DEF q, new, op, ops, path

LEMMA ApplyOpInv == ASSUME SourceInv, ApplyOp PROVE SourceInv'
  <1> DEFINE op == Head(page.ops)
  <1>1. CASE ~Accepts(op)
    <2>1. Throws  BY <1>1 DEF ApplyOp
    <2> QED  BY <2>1, ThrowsInv
  <1>2. CASE Accepts(op)
    <2>1. /\ page # None /\ page.ops # <<>> /\ retained' = Result(op)
          /\ page' = [page EXCEPT !.ops = Tail(@)]
          /\ UNCHANGED <<proc, source, fetch, env, faults>>
          /\ \/ stored' = [stored EXCEPT !.path = Result(op).path, !.fresh = Result(op).fresh]
             \/ stored' = stored
      BY <1>2 DEF ApplyOp
    <2>2. /\ page \in PageSet /\ IsCache(cache) /\ retained \in Snapshot /\ stored \in Checkpoint
          /\ GoodPage(page, cache, retained.path) /\ ~first
      BY <2>1 DEF SourceInv, Typed, PageInv
    <2>3. /\ GoodPage(page', cache, retained'.path) /\ page' \in PageSet /\ retained' \in Snapshot
          /\ ~Pools /\ retained.fresh = {} => retained'.fresh = {}
      BY <1>2, <2>1, <2>2, NextOp
    <2> HIDE DEF op
    <2>4. page' # None /\ fetch = None  BY <2>1, <2>3, NoneAssumption DEF SourceInv, Exclusive
    <2>5. stored' \in Checkpoint
      <3>1. CASE stored' = stored  BY <2>2, <3>1
      <3>2. CASE stored' = [stored EXCEPT !.path = retained'.path, !.fresh = retained'.fresh]
        BY <2>2, <2>3, <3>2 DEF Snapshot, Checkpoint
      <3> QED  BY <2>1, <3>1, <3>2
    <2>6. Typed'  BY <2>1, <2>3, <2>5 DEF SourceInv, Typed, env, source
    <2>7. IsCache(cache)' /\ (Cardinality(DOMAIN cache) <= Retention)'
      BY <2>1 DEF SourceInv, IsCache, Branch, source
    <2>8. Idle' /\ Started' /\ Exclusive' /\ CursorCached' /\ QuietHeld' /\ FetchInv' /\ NothingSkipped'
      BY <2>1, <2>2, <2>4 DEF SourceInv, Idle, Started, Exclusive, CursorCached, QuietHeld, FetchInv,
                              NothingSkipped, source
    <2>9. PageInv'
      BY <2>1, <2>2, <2>3 DEF PageInv, GoodPage, Delivered, source, env
    <2>10. Bare'
      <3>1. stored'.fresh = retained'.fresh \/ stored'.fresh = stored.fresh
        BY <2>1, <2>2 DEF Checkpoint
      <3> QED  BY <2>3, <3>1 DEF SourceInv, Bare
    <2> QED  BY <2>6, <2>7, <2>8, <2>9, <2>10 DEF SourceInv
  <1> QED  BY <1>1, <1>2

-----------------------------------------------------------------------------
(* The operations of a page.                                               *)

LEMMA FunctionSeq ==
  ASSUME NEW S, NEW k \in Nat, NEW f \in [1..k -> S]
  PROVE  f \in Seq(S) /\ Len(f) = k /\ DOMAIN f = 1..k
  <1>1. f \in Seq(S)  BY SeqDef
  <1>2. DOMAIN f = 1..Len(f) /\ Len(f) \in Nat  BY <1>1, LenProperties
  <1>3. DOMAIN f = 1..k  OBVIOUS
  <1> QED  BY <1>1, <1>2, <1>3

(* The blocks of a page: the heights start..end, in order.                 *)
IsRun(blocks, start, end) ==
  /\ blocks \in Seq(Op) /\ Len(blocks) = end + 1 - start
  /\ \A i \in 1..Len(blocks) :
       ~blocks[i].rewind /\ blocks[i].path # <<>> /\ Len(blocks[i].path) = start + i - 1

LEMMA Singleton ==
  ASSUME NEW S, NEW x \in S
  PROVE  <<x>> \in Seq(S) /\ Len(<<x>>) = 1 /\ <<x>>[1] = x
  OBVIOUS

LEMMA ConcatThree ==
  ASSUME NEW S, NEW a \in Seq(S), NEW b \in Seq(S), NEW c \in Seq(S)
  PROVE  /\ a \o b \o c \in Seq(S)
         /\ DOMAIN (a \o b \o c) = 1..(Len(a) + Len(b) + Len(c))
         /\ Len(a) \in Nat /\ Len(b) \in Nat /\ Len(c) \in Nat
         /\ \A i \in 1..Len(a) : (a \o b \o c)[i] = a[i]
         /\ \A i \in 1..Len(b) : (a \o b \o c)[Len(a) + i] = b[i]
         /\ \A i \in 1..Len(c) : (a \o b \o c)[Len(a) + Len(b) + i] = c[i]
  <1> DEFINE ab == a \o b
             abc == ab \o c
  <1>1. Len(a) \in Nat /\ Len(b) \in Nat /\ Len(c) \in Nat  BY LenProperties
  <1>2. /\ ab \in Seq(S) /\ Len(ab) = Len(a) + Len(b)
        /\ \A i \in 1..(Len(a) + Len(b)) : ab[i] = IF i <= Len(a) THEN a[i] ELSE b[i - Len(a)]
    BY ConcatProperties
  <1> HIDE DEF ab
  <1>3. /\ abc \in Seq(S) /\ Len(abc) = Len(ab) + Len(c)
        /\ \A i \in 1..(Len(ab) + Len(c)) : abc[i] = IF i <= Len(ab) THEN ab[i] ELSE c[i - Len(ab)]
    <2>1. ab \in Seq(S)  BY <1>2
    <2> QED  BY <2>1, ConcatProperties
  <1>4. DOMAIN abc = 1..(Len(a) + Len(b) + Len(c))  BY <1>1, <1>2, <1>3, LenProperties
  <1> HIDE DEF abc
  <1>5. \A i \in 1..Len(a) : abc[i] = a[i]
    <2> SUFFICES ASSUME NEW i \in 1..Len(a) PROVE abc[i] = a[i]  OBVIOUS
    <2>1. i \in 1..(Len(ab) + Len(c)) /\ i <= Len(ab) /\ i \in 1..(Len(a) + Len(b)) /\ i <= Len(a)
      BY <1>1, <1>2
    <2> QED  BY <1>2, <1>3, <2>1
  <1>6. \A i \in 1..Len(b) : abc[Len(a) + i] = b[i]
    <2> SUFFICES ASSUME NEW i \in 1..Len(b) PROVE abc[Len(a) + i] = b[i]  OBVIOUS
    <2>1. /\ Len(a) + i \in 1..(Len(ab) + Len(c)) /\ Len(a) + i <= Len(ab)
          /\ Len(a) + i \in 1..(Len(a) + Len(b)) /\ ~(Len(a) + i <= Len(a))
          /\ (Len(a) + i) - Len(a) = i
      BY <1>1, <1>2
    <2>2. abc[Len(a) + i] = ab[Len(a) + i]  BY <1>3, <2>1
    <2>3. ab[Len(a) + i] = b[(Len(a) + i) - Len(a)]  BY <1>2, <2>1
    <2> QED  BY <2>1, <2>2, <2>3
  <1>7. \A i \in 1..Len(c) : abc[Len(a) + Len(b) + i] = c[i]
    <2> SUFFICES ASSUME NEW i \in 1..Len(c) PROVE abc[Len(a) + Len(b) + i] = c[i]  OBVIOUS
    <2> DEFINE n == Len(a) + Len(b) + i
    <2>1. n \in 1..(Len(ab) + Len(c)) /\ ~(n <= Len(ab)) /\ n - Len(ab) = i
      BY <1>1, <1>2
    <2> HIDE DEF n
    <2>2. abc[n] = c[n - Len(ab)]  BY <1>3, <2>1
    <2> QED  BY <2>1, <2>2 DEF n
  <1> QED  BY <1>1, <1>3, <1>4, <1>5, <1>6, <1>7 DEF abc, ab

(* Where the blocks of a page begin among its operations.                  *)
Shift(rewindTo) == IF rewindTo = None THEN 0 ELSE 1

(* What a page is made of: perhaps a rewind to the target, and the blocks  *)
(* of the heights from start to end.                                       *)
Parts(target, rewindTo, blocks, start, end, since) ==
  /\ target \in Path /\ target # <<>> /\ rewindTo \in Path \cup {None} /\ since \in Nat
  /\ start \in Nat \ {0} /\ end \in Nat /\ start <= end + 1 /\ end <= Len(target)
  /\ start = end + 1 => end = Len(target)
  /\ IsRun(blocks, start, end)
(* Its operations: the rewind or none, the blocks, and the target that is  *)
(* attested with the last page.                                            *)
Shaped(p, target, rewindTo, blocks, end, since) ==
  LET d == Shift(rewindTo) IN
  /\ p \in PageSet /\ p.next = end + 1 /\ p.since = since
  /\ Len(blocks) \in Nat
  /\ DOMAIN p.ops = IF end = Len(target) THEN 1..(d + Len(blocks) + 1) ELSE 1..(d + Len(blocks))
  /\ rewindTo # None => p.ops[1] = Rewinding(rewindTo)
  /\ \A i \in 1..Len(blocks) : p.ops[d + i] = blocks[i]
  /\ end = Len(target) => p.ops[d + Len(blocks) + 1] = Rewinding(target)

LEMMA PageShape ==
  ASSUME NEW target, NEW rewindTo, NEW blocks, NEW start, NEW end, NEW since,
         Parts(target, rewindTo, blocks, start, end, since)
  PROVE  Shaped(Page(target, rewindTo, blocks, since), target, rewindTo, blocks, end, since)
  <1> DEFINE p == Page(target, rewindTo, blocks, since)
             d == Shift(rewindTo)
  <1> USE DEF Parts
  <1> SUFFICES
         /\ p \in PageSet /\ p.next = end + 1 /\ p.since = since
         /\ Len(blocks) \in Nat
         /\ DOMAIN p.ops = IF end = Len(target) THEN 1..(d + Len(blocks) + 1) ELSE 1..(d + Len(blocks))
         /\ rewindTo # None => p.ops[1] = Rewinding(rewindTo)
         /\ \A i \in 1..Len(blocks) : p.ops[d + i] = blocks[i]
         /\ end = Len(target) => p.ops[d + Len(blocks) + 1] = Rewinding(target)
    BY DEF Shaped
  <1> DEFINE k == Len(blocks)
             pre == IF rewindTo = None THEN <<>> ELSE <<Rewinding(rewindTo)>>
             next == IF blocks = <<>> THEN Len(target) + 1 ELSE Len(Last(blocks).path) + 1
             more == next <= Len(target)
             post == IF more THEN <<>> ELSE <<Rewinding(target)>>
  <1>1. k \in Nat /\ k = end + 1 - start /\ Len(target) \in Nat /\ blocks \in Seq(Op)
        /\ (blocks = <<>> <=> k = 0)
    BY PrefixIsAt, LenProperties, EmptySeq DEF IsRun
  <1>2. next = end + 1
    <2>1. CASE blocks = <<>>  BY <1>1, <2>1
    <2>2. CASE blocks # <<>>
      <3>1. Last(blocks) = blocks[k] /\ k \in 1..k  BY <1>1, <2>2 DEF Last
      <3>2. Len(blocks[k].path) = start + k - 1  BY <3>1 DEF IsRun
      <3> QED  BY <1>1, <2>2, <3>1, <3>2
    <2> QED  BY <2>1, <2>2
  <1>3. p = [ops |-> pre \o blocks \o post, next |-> next, more |-> more, since |-> since]
    BY DEF Page
  <1> HIDE DEF next
  <1>4. more <=> end # Len(target)  BY <1>1, <1>2
  <1>5. next \in Nat /\ more \in BOOLEAN  BY <1>2
  <1> HIDE DEF more
  <1>6. \A q \in Path : Rewinding(q) \in Op  BY DEF Op, Rewinding
  <1>7. /\ pre \in Seq(Op) /\ Len(pre) = d
        /\ rewindTo # None => d = 1 /\ pre[1] = Rewinding(rewindTo)
    <2>1. CASE rewindTo = None  BY <2>1, EmptySeq DEF Shift
    <2>2. CASE rewindTo # None
      <3>1. pre = <<Rewinding(rewindTo)>> /\ d = 1 /\ Rewinding(rewindTo) \in Op
        BY <1>6, <2>2 DEF Shift
      <3> QED  BY <3>1, Singleton
    <2> QED  BY <2>1, <2>2
  <1>8. /\ post \in Seq(Op)
        /\ end = Len(target) => Len(post) = 1 /\ post[1] = Rewinding(target)
        /\ end # Len(target) => Len(post) = 0
    <2>1. CASE more  BY <1>4, <2>1, EmptySeq
    <2>2. CASE ~more
      <3>1. post = <<Rewinding(target)>> /\ Rewinding(target) \in Op  BY <1>6, <2>2
      <3> QED  BY <1>4, <2>2, <3>1, Singleton
    <2> QED  BY <2>1, <2>2
  <1> HIDE DEF pre, post
  <1> DEFINE ops == pre \o blocks \o post
  <1>9. /\ ops \in Seq(Op)
        /\ DOMAIN ops = 1..(Len(pre) + Len(blocks) + Len(post))
        /\ Len(pre) \in Nat /\ Len(blocks) \in Nat /\ Len(post) \in Nat
        /\ \A i \in 1..Len(pre) : ops[i] = pre[i]
        /\ \A i \in 1..Len(blocks) : ops[Len(pre) + i] = blocks[i]
        /\ \A i \in 1..Len(post) : ops[Len(pre) + Len(blocks) + i] = post[i]
    <2>1. pre \in Seq(Op) /\ blocks \in Seq(Op) /\ post \in Seq(Op)  BY <1>1, <1>7, <1>8
    <2> QED  BY <2>1, ConcatThree
  <1> HIDE DEF ops, k
  <1>10. DOMAIN ops = IF end = Len(target) THEN 1..(d + Len(blocks) + 1) ELSE 1..(d + Len(blocks))
    <2>1. CASE end = Len(target)
      <3>1. Len(post) = 1 /\ Len(pre) = d  BY <1>7, <1>8, <2>1
      <3> QED  BY <1>9, <2>1, <3>1
    <2>2. CASE end # Len(target)
      <3>1. Len(post) = 0 /\ Len(pre) = d  BY <1>7, <1>8, <2>2
      <3>2. DOMAIN ops = 1..(d + Len(blocks) + 0)  BY <1>9, <3>1
      <3>3. d + Len(blocks) + 0 = d + Len(blocks)  BY <1>9, <3>1
      <3> QED  BY <2>2, <3>2, <3>3
    <2> QED  BY <2>1, <2>2
  <1>11. rewindTo # None => ops[1] = Rewinding(rewindTo)
    <2>1. rewindTo # None => 1 \in 1..Len(pre)  BY <1>7
    <2> QED  BY <1>7, <1>9, <2>1
  <1>12. \A i \in 1..Len(blocks) : ops[d + i] = blocks[i]  BY <1>7, <1>9
  <1>13. end = Len(target) => ops[d + Len(blocks) + 1] = Rewinding(target)
    <2>1. end = Len(target) => 1 \in 1..Len(post)  BY <1>8
    <2> QED  BY <1>7, <1>8, <1>9, <2>1
  <1>14. p \in PageSet /\ p.ops = ops /\ p.next = end + 1 /\ p.since = since
    BY <1>2, <1>3, <1>5, <1>9 DEF PageSet, ops
  <1> QED  BY <1>9, <1>10, <1>11, <1>12, <1>13, <1>14

(* The parts build on each other, and the first on path.                   *)
Chained(target, rewindTo, blocks, end, path) ==
  LET from == IF rewindTo = None THEN path ELSE rewindTo
      last == IF blocks = <<>> THEN from ELSE blocks[Len(blocks)].path
  IN
  /\ rewindTo # None => IsPrefix(rewindTo, path)
  /\ blocks # <<>> => IsPrefix(Front(blocks[1].path), from)
  /\ \A i \in 1..(Len(blocks) - 1) : IsPrefix(Front(blocks[i + 1].path), blocks[i].path)
  /\ end = Len(target) => IsPrefix(target, last)
(* They are on the branch of a cache up to end, of which they bring what   *)
(* path lacks.                                                             *)
Bring(c, target, rewindTo, blocks, end, path) ==
  /\ end \in DOMAIN c /\ \A n \in DOMAIN c : n \in Nat /\ n <= Len(target)
  /\ rewindTo # None => Len(rewindTo) = Len(target) /\ rewindTo # <<>>
  /\ \A i \in 1..Len(blocks) : Fits(blocks[i], c)
  /\ \A n \in DOMAIN c : IsPrefix(c[n], path)
                      \/ \E i \in 1..Len(blocks) : IsPrefix(c[n], blocks[i].path)

(* A page that covers the new part of a cache, whose operations build on   *)
(* each other, is good.                                                    *)
LEMMA PageGood ==
  ASSUME NEW target, NEW rewindTo, NEW blocks, NEW start, NEW end, NEW since, NEW c, NEW path,
         Parts(target, rewindTo, blocks, start, end, since),
         Bring(c, target, rewindTo, blocks, end, path),
         since <= forks, since = forks => Chained(target, rewindTo, blocks, end, path)
  PROVE  GoodPage(Page(target, rewindTo, blocks, since), c, path)
  <1> DEFINE p == Page(target, rewindTo, blocks, since)
             d == Shift(rewindTo)
             k == Len(blocks)
  <1>1. /\ p \in PageSet /\ p.next = end + 1 /\ p.since = since
        /\ Len(blocks) \in Nat
        /\ DOMAIN p.ops = IF end = Len(target) THEN 1..(d + Len(blocks) + 1) ELSE 1..(d + Len(blocks))
        /\ rewindTo # None => p.ops[1] = Rewinding(rewindTo)
        /\ \A i \in 1..Len(blocks) : p.ops[d + i] = blocks[i]
        /\ end = Len(target) => p.ops[d + Len(blocks) + 1] = Rewinding(target)
    <2>1. Shaped(p, target, rewindTo, blocks, end, since)  BY PageShape
    <2> HIDE DEF p
    <2> QED  BY <2>1 DEF Shaped
  <1> USE DEF Parts, Bring
  <1>2. d \in {0, 1} /\ (d = 1 <=> rewindTo # None)  BY DEF Shift
  <1>3. blocks = <<>> <=> k = 0  BY EmptySeq DEF IsRun
  <1>4. \A i \in 1..k : ~blocks[i].rewind  BY DEF IsRun
  <1>5. k \in Nat /\ (\A i \in 1..k : p.ops[d + i] = blocks[i])
        /\ (d = 1 => p.ops[1] = Rewinding(rewindTo))
        /\ (end = Len(target) => p.ops[d + k + 1] = Rewinding(target))
        /\ (end = Len(target) => DOMAIN p.ops = 1..(d + k + 1))
        /\ (end # Len(target) => DOMAIN p.ops = 1..(d + k))
    BY <1>1, <1>2
  <1> HIDE DEF p, d, k
  <1>6. /\ \A j \in 1..k : d + j \in DOMAIN p.ops
        /\ \A i \in DOMAIN p.ops :
             \/ d = 1 /\ i = 1
             \/ \E j \in 1..k : i = d + j
             \/ end = Len(target) /\ i = d + k + 1
    <2>1. k \in Nat /\ d \in {0, 1}  BY <1>2, <1>5
    <2>2. DOMAIN p.ops = 1..(d + k + 1) \/ (DOMAIN p.ops = 1..(d + k) /\ end # Len(target))
      <3>1. CASE end = Len(target)  BY <1>5, <3>1
      <3>2. CASE end # Len(target)  BY <1>5, <3>2
      <3> QED  BY <3>1, <3>2
    <2>3. DOMAIN p.ops = 1..(d + k + 1) => end = Len(target)
      <3>1. d + k + 1 \in 1..(d + k + 1) /\ d + k + 1 \notin 1..(d + k)  BY <2>1
      <3> QED  BY <1>5, <3>1
    <2>4. \A j \in 1..k : d + j \in 1..(d + k + 1) /\ d + j \in 1..(d + k)  BY <2>1
    <2>5. \A i \in 1..(d + k + 1) :
             (d = 1 /\ i = 1) \/ i = d + k + 1 \/ (i - d \in 1..k /\ i = d + (i - d))
      BY <2>1
    <2>6. \A i \in 1..(d + k) :
             (d = 1 /\ i = 1) \/ (i - d \in 1..k /\ i = d + (i - d))
      BY <2>1
    <2> QED  BY <2>2, <2>3, <2>4, <2>5, <2>6
  <1>7. p.next - 1 \in DOMAIN c
    <2>1. p.next - 1 = end  BY <1>1
    <2> QED  BY <2>1
  <1>8. \A i \in DOMAIN p.ops : Fits(p.ops[i], c)
    <2>1. rewindTo # None => Fits(Rewinding(rewindTo), c)
      BY DEF Fits, Rewinding
    <2>2. Fits(Rewinding(target), c)  BY DEF Fits, Rewinding
    <2>3. \A j \in 1..k : Fits(p.ops[d + j], c)  BY <1>5 DEF k
    <2> QED  BY <1>2, <1>5, <1>6, <2>1, <2>2, <2>3
  <1>9. Delivered(c, p.ops, path)
    <2> SUFFICES ASSUME NEW n \in DOMAIN c, ~IsPrefix(c[n], path)
                 PROVE \E i \in DOMAIN p.ops : ~p.ops[i].rewind /\ IsPrefix(c[n], p.ops[i].path)
      BY DEF Delivered
    <2>1. PICK j \in 1..k : IsPrefix(c[n], blocks[j].path)  BY DEF k
    <2> QED  BY <1>4, <1>5, <1>6, <2>1
  <1>10. p.since = forks => Linked(p.ops, path)
    <2> SUFFICES ASSUME since = forks, NEW i \in DOMAIN p.ops
                 PROVE IsPrefix(Base(p.ops[i]), IF i = 1 THEN path ELSE p.ops[i - 1].path)
      BY <1>1 DEF Linked
    <2> DEFINE from == IF rewindTo = None THEN path ELSE rewindTo
               last == IF blocks = <<>> THEN from ELSE blocks[k].path
    <2>1. /\ rewindTo # None => IsPrefix(rewindTo, path)
          /\ blocks # <<>> => IsPrefix(Front(blocks[1].path), from)
          /\ \A j \in 1..(k - 1) : IsPrefix(Front(blocks[j + 1].path), blocks[j].path)
          /\ end = Len(target) => IsPrefix(target, last)
      BY DEF k, Chained
    <2>2. \A q : Rewinding(q).path = q /\ Base(Rewinding(q)) = q  BY DEF Rewinding, Base
    <2>3. \A j \in 1..k : Base(p.ops[d + j]) = Front(blocks[j].path) /\ p.ops[d + j].path = blocks[j].path
      BY <1>4, <1>5 DEF Base
    <2>4. IF d = 1 THEN p.ops[1].path = from ELSE path = from  BY <1>2, <1>5, <2>2
    <2>5. CASE d = 1 /\ i = 1  BY <1>2, <1>5, <2>1, <2>2, <2>5
    <2>6. CASE \E j \in 1..k : i = d + j
      <3>1. PICK j \in 1..k : i = d + j  BY <2>6
      <3>2. CASE j = 1
        <4>1. blocks # <<>>  BY <1>3, <1>5, <3>2
        <4>2. IsPrefix(Base(p.ops[i]), from)  BY <2>1, <2>3, <3>1, <3>2, <4>1
        <4>3. IF d = 1 THEN i # 1 /\ i - 1 = 1 ELSE i = 1  BY <1>2, <3>1, <3>2
        <4> QED  BY <1>2, <2>4, <4>2, <4>3
      <3>3. CASE j # 1
        <4>1. j - 1 \in 1..(k - 1) /\ j - 1 \in 1..k /\ (j - 1) + 1 = j /\ i # 1 /\ i - 1 = d + (j - 1)
          BY <1>2, <1>5, <3>1, <3>3
        <4>2. IsPrefix(Front(blocks[j].path), blocks[j - 1].path)  BY <2>1, <4>1
        <4> QED  BY <2>3, <3>1, <4>1, <4>2
      <3> QED  BY <3>2, <3>3
    <2>7. CASE end = Len(target) /\ i = d + k + 1
      <3>1. IsPrefix(Base(p.ops[i]), last)  BY <1>5, <2>1, <2>2, <2>7
      <3>2. CASE k = 0
        <4>1. last = from  BY <1>3, <3>2
        <4>2. IF d = 1 THEN i # 1 /\ i - 1 = 1 ELSE i = 1  BY <1>2, <2>7, <3>2
        <4> QED  BY <1>2, <2>4, <3>1, <4>1, <4>2
      <3>3. CASE k # 0
        <4>1. last = blocks[k].path /\ k \in 1..k /\ i # 1 /\ i - 1 = d + k
          BY <1>2, <1>3, <1>5, <2>7, <3>3
        <4> QED  BY <2>3, <3>1, <4>1
      <3> QED  BY <3>2, <3>3
    <2> QED  BY <1>6, <2>5, <2>6, <2>7
  <1>11. p.since <= forks  BY <1>1
  <1>12. GoodPage(p, c, path)  BY <1>7, <1>8, <1>9, <1>10, <1>11 DEF GoodPage
  <1> QED  BY <1>12 DEF p

-----------------------------------------------------------------------------
(* The steps of a fetch.                                                   *)

(* What a fetch step that ends in a page, or goes on, must keep.           *)
LEMMA NewPage ==
  ASSUME SourceInv, proc # "down",
         page' \in PageSet, GoodPage(page', cache', retained.path),
         IsCache(cache'), Cardinality(DOMAIN cache') <= Retention,
         fetch' = None, first' = FALSE, refresh' \in BOOLEAN,
         UNCHANGED <<proc, stored, retained, cursor, env, faults>>
  PROVE  SourceInv'
  <1>1. page' # None  BY NoneAssumption
  <1>2. Typed'  BY DEF SourceInv, Typed, env
  <1>3. Idle' /\ Started' /\ Exclusive' /\ CursorCached' /\ QuietHeld' /\ FetchInv' /\ NothingSkipped'
    BY <1>1 DEF Idle, Started, Exclusive, CursorCached, QuietHeld, FetchInv, NothingSkipped
  <1>4. PageInv'  BY DEF PageInv, GoodPage, Delivered, env
  <1>5. IsCache(cache)' /\ (Cardinality(DOMAIN cache) <= Retention)'
    BY DEF IsCache, Branch
  <1> QED  BY <1>2, <1>3, <1>4, <1>5 DEF SourceInv, Bare

LEMMA NewFetch ==
  ASSUME SourceInv, proc # "down", page = None,
         fetch' \in FetchSet, FetchInv', CursorCached',
         IsCache(cache'), Cardinality(DOMAIN cache') <= Retention,
         Held(cache', retained.path), first => DOMAIN cache' = {},
         UNCHANGED <<proc, stored, retained, cursor, refresh, first, page, env, faults>>
  PROVE  SourceInv'
  <1>1. fetch' # None  BY NoneAssumption
  <1>2. Typed'  BY DEF SourceInv, Typed, env
  <1>3. Idle' /\ Started' /\ Exclusive' /\ QuietHeld' /\ PageInv'
    BY <1>1 DEF SourceInv, Idle, Started, Exclusive, QuietHeld, Held, PageInv
  <1>4. NothingSkipped'  BY DEF SourceInv, NothingSkipped, RequestedStart
  <1>5. IsCache(cache)' /\ (Cardinality(DOMAIN cache) <= Retention)'
    BY DEF IsCache, Branch
  <1> QED  BY <1>2, <1>3, <1>4, <1>5 DEF SourceInv, Bare

LEMMA LoadHeadersInv == ASSUME SourceInv, LoadHeaders PROVE SourceInv'
  <1>1. CASE Throws  BY <1>1, ThrowsInv
  <1>2. CASE ~Throws
    <2>1. /\ fetch # None /\ fetch.pc = "headers"
          /\ fetch.end <= Len(chain) /\ Pinned(chain, fetch.start)
          /\ fetch' = [pc |-> "logs", target |-> fetch.target, start |-> fetch.start,
                       headers |-> At(chain, fetch.end), rewindTo |-> fetch.rewindTo,
                       since |-> fetch.since]
          /\ UNCHANGED <<proc, stored, retained, source, page, env, faults>>
      BY <1>2 DEF LoadHeaders
    <2>2. /\ fetch \in FetchSet /\ FetchInv /\ page = None /\ proc # "down" /\ chain \in Path
          /\ IsCache(cache) /\ Held(cache, retained.path)
      BY <2>1 DEF SourceInv, Typed, Exclusive, Idle, QuietHeld
    <2>3. /\ fetch.target \in Path /\ fetch.start \in Nat /\ fetch.end \in Nat
          /\ fetch.rewindTo \in Path \cup {None} /\ fetch.since \in Nat
      BY <2>1, <2>2 DEF FetchSet
    <2>4. fetch.end \in 0..Len(chain) /\ Len(chain) \in Nat  BY <2>1, <2>2, <2>3, PrefixIsAt
    <2> DEFINE h == At(chain, fetch.end)
    <2>5. h \in Path /\ Len(h) = fetch.end  BY <2>2, <2>4, AtPath
    <2>6. IsPrefix(h, chain)
      <3>1. 0 \in 0..fetch.end  BY <2>3
      <3> QED  BY <2>2, <2>4, <3>1, Ancestors
    <2>7. fetch.start > 1 => cache[fetch.start - 1] = At(h, fetch.start - 1)
      <3> SUFFICES ASSUME fetch.start > 1 PROVE cache[fetch.start - 1] = At(h, fetch.start - 1)
        OBVIOUS
      <3>1. fetch.start - 1 \in 0..fetch.end
        BY <2>1, <2>2, <2>3 DEF FetchInv
      <3>2. At(h, fetch.start - 1) = At(chain, fetch.start - 1)  BY <2>2, <2>4, <3>1, AtAt
      <3> QED  BY <2>1, <3>2 DEF Pinned
    <2> HIDE DEF h
    <2>8. fetch' = [pc |-> "logs", target |-> fetch.target, start |-> fetch.start,
                    headers |-> h, rewindTo |-> fetch.rewindTo, since |-> fetch.since]
      BY <2>1 DEF h
    <2>9. fetch' \in FetchSet  BY <2>3, <2>5, <2>8 DEF FetchSet
    <2>10. cache' = cache /\ chain' = chain /\ forks' = forks /\ page' = page /\ cursor' = cursor
      BY <2>1 DEF source, env
    <2>11. FetchInv'
      <3>1. /\ fetch'.pc = "logs" /\ fetch'.target = fetch.target /\ fetch'.start = fetch.start
            /\ fetch'.headers = h /\ fetch'.rewindTo = fetch.rewindTo /\ fetch'.since = fetch.since
        BY <2>8
      <3>2. /\ fetch.target # <<>> /\ Unreorged(fetch.target, fetch.since)
            /\ fetch.rewindTo = None /\ fetch.start \in Nat \ {0}
            /\ fetch.start = 1 => DOMAIN cache = {}
            /\ fetch.start > 1 => fetch.start - 1 \in DOMAIN cache
            /\ fetch.start \notin DOMAIN cache
            /\ fetch.start <= fetch.end /\ fetch.end <= Len(fetch.target)
        BY <2>1, <2>2 DEF FetchInv
      <3>3. Unreorged(fetch.target, fetch.since)'  BY <2>8, <2>10, <3>2 DEF Unreorged
      <3> QED  BY <2>5, <2>6, <2>7, <2>10, <3>1, <3>2, <3>3 DEF FetchInv
    <2>12. CursorCached'
      <3>1. fetch' # None /\ fetch'.pc = "logs"  BY <2>8, <2>9, NoneAssumption
      <3> QED  BY <3>1 DEF CursorCached
    <2>13. first => DOMAIN cache' = {}  BY <2>10 DEF SourceInv, Started
    <2>14. IsCache(cache') /\ Cardinality(DOMAIN cache') <= Retention /\ Held(cache', retained.path)
      BY <2>2, <2>10 DEF SourceInv
    <2> QED  BY <2>1, <2>2, <2>9, <2>11, <2>12, <2>13, <2>14, NewFetch DEF source
  <1> QED  BY <1>1, <1>2

(* The cache and the headers read after it are one branch.                 *)
LEMMA Continued ==
  ASSUME NEW c, IsCache(c), NEW h \in Path, NEW s \in Nat \ {0}, s <= Len(h),
         s = 1 => DOMAIN c = {},
         s > 1 => s - 1 \in DOMAIN c /\ c[s - 1] = At(h, s - 1),
         s \notin DOMAIN c
  PROVE  \E lo \in 1..s :
           /\ DOMAIN c \cup (s..Len(h)) = lo..Len(h)
           /\ \A n \in DOMAIN c : n < s /\ c[n] = At(h, n)
  <1>0. Len(h) \in Nat /\ Len(h) <= MaxHeight  BY PrefixIsAt
  <1>1. CASE s = 1
    <2>1. DOMAIN c \cup (s..Len(h)) = 1..Len(h) /\ 1 \in 1..s  BY <1>1
    <2> QED  BY <1>1, <2>1
  <1>2. CASE s > 1
    <2>1. PICK lo \in 1..(MaxHeight + 1), hi \in 0..MaxHeight : Branch(c, lo, hi)
      BY DEF IsCache
    <2>2. DOMAIN c = lo..hi  BY <2>1 DEF Branch
    <2>3. lo \in Nat /\ hi \in Nat /\ 1 <= lo /\ MaxHeight \in Nat  BY Bounds
    <2>4. s - 1 \in DOMAIN c /\ s \notin DOMAIN c  BY <1>2
    <2>5. hi = s - 1 /\ lo <= s - 1  BY <2>2, <2>3, <2>4
    <2>6. lo \in 1..s /\ (lo..hi) \cup (s..Len(h)) = lo..Len(h)
      BY <1>0, <2>3, <2>5
    <2>7. \A n \in DOMAIN c : n < s /\ c[n] = At(h, n)
      <3> SUFFICES ASSUME NEW n \in DOMAIN c PROVE n < s /\ c[n] = At(h, n)  OBVIOUS
      <3>1. n \in Nat /\ n <= s - 1 /\ s - 1 \in 0..Len(h) /\ n \in 0..(s - 1)
        BY <1>0, <2>2, <2>3, <2>5
      <3>2. /\ c[n] \in Path /\ Len(c[n]) = n /\ c[s - 1] \in Path
            /\ IsPrefix(c[n], c[s - 1])
        BY <2>4, <3>1, CacheFacts
      <3>3. c[n] = At(c[s - 1], n)  BY <3>2, PrefixIsAt
      <3>4. At(At(h, s - 1), n) = At(h, n)  BY <3>1, AtAt
      <3>5. n < s  BY <3>1
      <3> QED  BY <1>2, <3>3, <3>4, <3>5
    <2> QED  BY <2>2, <2>6, <2>7
  <1> QED  BY <1>1, <1>2

(* The ancestors of a block from a height on are a cache.                  *)
LEMMA AncestorCache ==
  ASSUME NEW h \in Path, NEW a \in 1..Len(h), NEW c,
         DOMAIN c = a..Len(h), \A n \in DOMAIN c : c[n] = At(h, n)
  PROVE  IsCache(c)
  <1>1. Len(h) \in Nat /\ Len(h) <= MaxHeight  BY PrefixIsAt
  <1>2. a \in 1..(MaxHeight + 1) /\ Len(h) \in 0..MaxHeight  BY <1>1, Bounds
  <1>3. Branch(c, a, Len(h))
    <2> SUFFICES ASSUME NEW n \in a..Len(h)
                 PROVE /\ c[n] \in Path /\ Len(c[n]) = n
                       /\ \A m \in a..n : IsPrefix(c[m], c[n])
      BY DEF Branch
    <2>1. n \in 0..Len(h) /\ c[n] = At(h, n)  BY <1>1
    <2>2. c[n] \in Path /\ Len(c[n]) = n  BY <2>1, AtPath
    <2>3. ASSUME NEW m \in a..n PROVE IsPrefix(c[m], c[n])
      <3>1. m \in 0..n /\ m \in DOMAIN c /\ c[m] = At(h, m)  BY <1>1
      <3> QED  BY <2>1, <3>1, Ancestors
    <2> QED  BY <2>2, <2>3
  <1> QED  BY <1>2, <1>3 DEF IsCache

LEMMA AtZero ==
  ASSUME NEW p \in Path, NEW q \in Path
  PROVE  IsPrefix(At(p, 0), q)
  <1>1. Len(p) \in Nat /\ Len(q) \in Nat  BY PrefixIsAt
  <1>2. 0 \in 0..Len(p) /\ 0 \in 0..Len(q)  BY <1>1
  <1>3. /\ At(p, 0) \in Path /\ Len(At(p, 0)) = 0
        /\ At(q, 0) \in Path /\ Len(At(q, 0)) = 0
    BY <1>2, AtPath
  <1>4. \A i \in 1..Len(At(p, 0)) : At(p, 0)[i] = At(q, 0)[i]  BY <1>3
  <1>5. At(p, 0) = At(q, 0)  BY <1>3, <1>4, SamePath
  <1> QED  BY <1>1, <1>3, <1>5, PrefixIsAt

LEMMA LoadLogsInv == ASSUME SourceInv, LoadLogs PROVE SourceInv'
  <1>1. CASE Throws  BY <1>1, ThrowsInv
  <1>2. CASE ~Throws
    <2> DEFINE h == fetch.headers
               s == fetch.start
               e == Len(h)
               target == fetch.target
               path == retained.path
               numbers == s..e
               loaded == [n \in DOMAIN cache \cup numbers |->
                            IF n \in numbers THEN At(h, n) ELSE cache[n]]
               blocks == [i \in 1..Cardinality(numbers) |->
                            Block(At(h, s + i - 1), refresh /\ Pools /\ i = 1)]
    <2>1. /\ fetch # None /\ fetch.pc = "logs"
          /\ cache' = [n \in Newest(DOMAIN loaded) |-> loaded[n]]
          /\ page' = Page(target, fetch.rewindTo, blocks, fetch.since)
          /\ fetch' = None /\ first' = FALSE /\ refresh' = FALSE
          /\ UNCHANGED <<proc, stored, retained, cursor, env, faults>>
      BY <1>2 DEF LoadLogs
    <2>2. /\ fetch \in FetchSet /\ FetchInv /\ page = None /\ proc # "down" /\ chain \in Path
          /\ IsCache(cache) /\ Held(cache, path) /\ retained \in Snapshot /\ refresh \in BOOLEAN
      BY <2>1 DEF SourceInv, Typed, Exclusive, Idle, QuietHeld
    <2>3. h \in Path /\ target \in Path /\ fetch.since \in Nat /\ path \in Path
      BY <2>1, <2>2 DEF FetchSet, Snapshot
    <2>4. /\ target # <<>> /\ Unreorged(target, fetch.since) /\ fetch.rewindTo = None
          /\ s \in Nat \ {0} /\ s <= e /\ e <= Len(target)
          /\ s = 1 => DOMAIN cache = {}
          /\ s > 1 => s - 1 \in DOMAIN cache /\ cache[s - 1] = At(h, s - 1)
          /\ s \notin DOMAIN cache
          /\ fetch.since = forks => IsPrefix(h, chain)
      BY <2>1, <2>2 DEF FetchInv
    <2>5. e \in Nat /\ e <= MaxHeight /\ Len(target) \in Nat  BY <2>3, PrefixIsAt
    <2> HIDE DEF h, s, target, path
    <2>6. PICK lo \in 1..s : /\ DOMAIN cache \cup numbers = lo..e
                             /\ \A n \in DOMAIN cache : n < s /\ cache[n] = At(h, n)
      BY <2>2, <2>3, <2>4, Continued
    <2>7. DOMAIN loaded = lo..e /\ \A n \in lo..e : loaded[n] = At(h, n)
      BY <2>6
    <2> HIDE DEF loaded
    <2>8. PICK a \in lo..e : Newest(lo..e) = a..e /\ Cardinality(a..e) <= Retention
      <3>1. lo \in Nat \ {0} /\ lo <= e  BY <2>4, <2>5
      <3> QED  BY <2>5, <3>1, NewestInterval
    <2>9. DOMAIN cache' = a..e /\ \A n \in DOMAIN cache' : cache'[n] = At(h, n)
      <3>1. cache' = [n \in a..e |-> loaded[n]]  BY <2>1, <2>7, <2>8
      <3>2. \A n \in a..e : n \in lo..e  BY <2>4, <2>5
      <3> QED  BY <2>7, <3>1, <3>2
    <2>10. a \in 1..e /\ e \in DOMAIN cache'  BY <2>4, <2>5, <2>9
    <2>11. IsCache(cache') /\ Cardinality(DOMAIN cache') <= Retention
      BY <2>3, <2>8, <2>9, <2>10, AncestorCache
    <2>12. Cardinality(numbers) = e + 1 - s /\ e + 1 - s \in Nat
      <3>1. s \in Int /\ e \in Int /\ ~(s > e)  BY <2>4, <2>5
      <3>2. Cardinality(numbers) = IF s > e THEN 0 ELSE e - s + 1  BY <3>1, FS_Interval
      <3> QED  BY <2>4, <2>5, <3>1, <3>2
    <2>13. \A i \in 1..(e + 1 - s) :
             /\ s + i - 1 \in s..e /\ s + i - 1 \in 0..e
             /\ At(h, s + i - 1) \in Path /\ Len(At(h, s + i - 1)) = s + i - 1
             /\ At(h, s + i - 1) # <<>>
      <3> SUFFICES ASSUME NEW i \in 1..(e + 1 - s)
                   PROVE /\ s + i - 1 \in s..e /\ s + i - 1 \in 0..e
                         /\ At(h, s + i - 1) \in Path /\ Len(At(h, s + i - 1)) = s + i - 1
                         /\ At(h, s + i - 1) # <<>>
        OBVIOUS
      <3>1. s + i - 1 \in s..e /\ s + i - 1 \in 0..e /\ s + i - 1 # 0  BY <2>4, <2>5
      <3>2. At(h, s + i - 1) \in Path /\ Len(At(h, s + i - 1)) = s + i - 1
        BY <2>3, <3>1, AtPath
      <3>3. At(h, s + i - 1) # <<>>  BY <3>1, <3>2, EmptyPath
      <3> QED  BY <3>1, <3>2, <3>3
    <2>14. /\ Len(blocks) = e + 1 - s /\ blocks \in Seq(Op)
           /\ \A i \in 1..(e + 1 - s) : /\ blocks[i].path = At(h, s + i - 1)
                                        /\ ~blocks[i].rewind
                                        /\ blocks[i].fresh => Pools
      <3>1. blocks = [i \in 1..(e + 1 - s) |->
                        Block(At(h, s + i - 1), refresh /\ Pools /\ i = 1)]
        BY <2>12
      <3>2. \A i \in 1..(e + 1 - s) : Block(At(h, s + i - 1), refresh /\ Pools /\ i = 1) \in Op
        BY <2>13 DEF Op, Block
      <3>3. blocks \in [1..(e + 1 - s) -> Op]  BY <3>1, <3>2
      <3>4. \A i \in 1..(e + 1 - s) : /\ blocks[i].path = At(h, s + i - 1)
                                      /\ ~blocks[i].rewind
                                      /\ blocks[i].fresh => Pools
        BY <3>1 DEF Block
      <3> HIDE DEF blocks
      <3> QED  BY <2>12, <3>3, <3>4, FunctionSeq
    <2> HIDE DEF blocks
    <2>15. IsRun(blocks, s, e)  BY <2>13, <2>14 DEF IsRun
    <2>16. \A i \in 1..Len(blocks) : Fits(blocks[i], cache')
      <3> SUFFICES ASSUME NEW i \in 1..(e + 1 - s), NEW n \in DOMAIN cache'
                   PROVE IF n <= s + i - 1 THEN IsPrefix(At(h, n), At(h, s + i - 1))
                                           ELSE IsPrefix(At(h, s + i - 1), At(h, n))
        BY <2>9, <2>13, <2>14 DEF Fits
      <3>1. n \in 0..e /\ s + i - 1 \in 0..e /\ n \in Nat /\ s + i - 1 \in Nat
        BY <2>5, <2>9, <2>10, <2>13
      <3>2. CASE n <= s + i - 1
        <4>1. n \in 0..(s + i - 1)  BY <3>1, <3>2
        <4> QED  BY <2>3, <3>1, <3>2, <4>1, Ancestors
      <3>3. CASE ~(n <= s + i - 1)
        <4>1. s + i - 1 \in 0..n  BY <3>1, <3>3
        <4> QED  BY <2>3, <3>1, <3>3, <4>1, Ancestors
      <3> QED  BY <3>2, <3>3
    <2>17. \A n \in DOMAIN cache' : IsPrefix(cache'[n], path)
                                 \/ \E i \in 1..Len(blocks) : IsPrefix(cache'[n], blocks[i].path)
      <3> SUFFICES ASSUME NEW n \in DOMAIN cache', ~IsPrefix(cache'[n], path)
                   PROVE \E i \in 1..Len(blocks) : IsPrefix(cache'[n], blocks[i].path)
        OBVIOUS
      <3>1. n \in lo..e /\ n \in Nat /\ cache'[n] = At(h, n)
        BY <2>4, <2>5, <2>9, <2>10
      <3>2. n \notin DOMAIN cache  BY <2>2, <2>6, <3>1 DEF Held
      <3>3. n \in numbers  BY <2>6, <3>1, <3>2
      <3>4. n - s + 1 \in 1..(e + 1 - s) /\ s + (n - s + 1) - 1 = n  BY <2>4, <2>5, <3>1, <3>3
      <3>5. blocks[n - s + 1].path = At(h, n)  BY <2>14, <3>4
      <3>6. n \in 0..e  BY <2>5, <3>1
      <3>7. At(h, n) \in Path  BY <2>3, <3>6, AtPath
      <3>8. IsPrefix(At(h, n), At(h, n))  BY <3>7, AtSelf
      <3> QED  BY <2>14, <3>1, <3>4, <3>5, <3>8
    <2>18. fetch.since = forks => Chained(target, None, blocks, e, path)
      <3>0. blocks # <<>>  BY <2>4, <2>5, <2>14
      <3> SUFFICES ASSUME fetch.since = forks
                   PROVE /\ IsPrefix(Front(blocks[1].path), path)
                         /\ \A i \in 1..(Len(blocks) - 1) :
                              IsPrefix(Front(blocks[i + 1].path), blocks[i].path)
                         /\ e = Len(target) => IsPrefix(target, blocks[Len(blocks)].path)
        BY <3>0 DEF Chained
      <3>1. \A i \in 1..(e + 1 - s) : Front(blocks[i].path) = At(h, s + i - 1 - 1)
        <4> SUFFICES ASSUME NEW i \in 1..(e + 1 - s)
                     PROVE Front(blocks[i].path) = At(h, s + i - 1 - 1)
          OBVIOUS
        <4> DEFINE k == s + i - 1
        <4>1. k \in 0..e /\ At(h, k) \in Path /\ Len(At(h, k)) = k /\ At(h, k) # <<>>
              /\ blocks[i].path = At(h, k)
          BY <2>13, <2>14
        <4>2. k - 1 \in 0..k  BY <2>4, <2>5
        <4> HIDE DEF k
        <4>3. Front(At(h, k)) = At(At(h, k), k - 1)  BY <4>1, FrontAt
        <4>4. At(At(h, k), k - 1) = At(h, k - 1)  BY <2>3, <4>1, <4>2, AtAt
        <4>5. Front(blocks[i].path) = At(h, k - 1)  BY <4>1, <4>3, <4>4
        <4>6. k - 1 = s + i - 1 - 1  BY <2>4, <2>5 DEF k
        <4> QED  BY <4>5, <4>6
      <3>2. IsPrefix(Front(blocks[1].path), path)
        <4>1. 1 \in 1..(e + 1 - s) /\ s + 1 - 1 - 1 = s - 1  BY <2>4, <2>5
        <4>2. Front(blocks[1].path) = At(h, s - 1)  BY <3>1, <4>1
        <4>3. CASE s = 1
          <5>1. s - 1 = 0  BY <4>3
          <5>2. IsPrefix(At(h, 0), path)  BY <2>3, AtZero
          <5> QED  BY <4>2, <5>1, <5>2
        <4>4. CASE s > 1
          <5>1. s - 1 \in DOMAIN cache /\ cache[s - 1] = At(h, s - 1)  BY <2>4, <4>4
          <5> QED  BY <2>2, <4>2, <5>1 DEF Held
        <4> QED  BY <2>4, <4>3, <4>4
      <3>3. \A i \in 1..(Len(blocks) - 1) : IsPrefix(Front(blocks[i + 1].path), blocks[i].path)
        <4> SUFFICES ASSUME NEW i \in 1..(Len(blocks) - 1)
                     PROVE IsPrefix(Front(blocks[i + 1].path), blocks[i].path)
          OBVIOUS
        <4>0. Len(blocks) = e + 1 - s  BY <2>14
        <4>1. /\ i \in 1..(e + 1 - s) /\ i + 1 \in 1..(e + 1 - s)
              /\ s + (i + 1) - 1 - 1 = s + i - 1
          BY <2>4, <2>5, <4>0
        <4>2. Front(blocks[i + 1].path) = At(h, s + i - 1) /\ blocks[i].path = At(h, s + i - 1)
          BY <2>14, <3>1, <4>1
        <4>3. At(h, s + i - 1) \in Path  BY <2>13, <4>1
        <4> QED  BY <4>2, <4>3, AtSelf
      <3>4. e = Len(target) => IsPrefix(target, blocks[Len(blocks)].path)
        <4> SUFFICES ASSUME e = Len(target) PROVE IsPrefix(target, blocks[e + 1 - s].path)
          BY <2>14
        <4>1. e + 1 - s \in 1..(e + 1 - s) /\ s + (e + 1 - s) - 1 = e  BY <2>4, <2>5
        <4>2. blocks[e + 1 - s].path = At(h, e)  BY <2>14, <4>1
        <4>3. At(h, e) = h  BY <2>3, AtSelf
        <4>4. IsPrefix(target, chain) /\ IsPrefix(h, chain)  BY <2>4 DEF Unreorged
        <4>5. Len(target) <= Len(h)  BY <2>5
        <4> QED  BY <2>2, <2>3, <4>2, <4>3, <4>4, <4>5, OneOfTwo
      <3> QED  BY <3>2, <3>3, <3>4
    <2>19. Parts(target, None, blocks, s, e, fetch.since)
      <3>1. s <= e + 1 /\ s # e + 1  BY <2>4, <2>5
      <3> QED  BY <2>3, <2>4, <2>5, <2>15, <3>1 DEF Parts
    <2>20. Bring(cache', target, None, blocks, e, path)
      <3>1. \A n \in DOMAIN cache' : n \in Nat /\ n <= Len(target)  BY <2>4, <2>5, <2>9, <2>10
      <3> QED  BY <2>10, <2>16, <2>17, <3>1 DEF Bring
    <2>21. page' = Page(target, None, blocks, fetch.since)  BY <2>1, <2>4
    <2>22. fetch.since <= forks  BY <2>4 DEF Unreorged
    <2> HIDE DEF e
    <2>23. GoodPage(page', cache', path)  BY <2>18, <2>19, <2>20, <2>21, <2>22, PageGood
    <2>24. page' \in PageSet  BY <2>19, <2>21, PageShape DEF Shaped
    <2> QED  BY <2>1, <2>2, <2>11, <2>23, <2>24, NewPage DEF path
  <1> QED  BY <1>1, <1>2

-----------------------------------------------------------------------------
(* The plan of a page.                                                     *)

(* With an empty cache the headers are read from the first block.          *)
LEMMA PlanEmpty ==
  ASSUME SourceInv, proc # "down", page = None, fetch = None,
         NEW target \in Path, target # <<>>, NEW since \in Nat, Unreorged(target, since),
         DOMAIN cache = {}, Plan(target, None, since)
  PROVE  SourceInv'
  <1> DEFINE L == Len(target)
             start == RequestedStart
             end == Min({L, start + PageSize - 1})
             whole == start..end \subseteq DOMAIN cache
  <1>1. L \in Nat \ {0} /\ L <= MaxHeight  BY FrontAt, Bounds
  <1>2. start = 1
    <2>1. first \/ cursor = 0
      BY DEF SourceInv, CursorCached
    <2> QED  BY <2>1 DEF RequestedStart
  <1>3. end \in Nat /\ 1 <= end /\ end <= L
    <2>1. start + PageSize - 1 = PageSize  BY <1>2, Bounds
    <2>2. end = IF L <= PageSize THEN L ELSE PageSize
      BY <1>1, <2>1, Bounds, MinOfTwo
    <2> QED  BY <1>1, <2>2, Bounds
  <1>4. None # 0  BY NoneAssumption
  <1>5. CASE Throws  BY <1>5, ThrowsInv
  <1>6. CASE ~Throws
    <2> HIDE DEF end
    <2>1. ~whole
      <3>1. 1 \in start..end  BY <1>2, <1>3
      <3> QED  BY <3>1
    <2>2. ~(start > L)  BY <1>1, <1>2
    <2>3. /\ fetch' = [pc |-> "headers", target |-> target, start |-> start, end |-> end,
                       rewindTo |-> None, since |-> since]
          /\ cache' = cache
          /\ UNCHANGED <<proc, stored, retained, cursor, refresh, first, page, env, faults>>
      BY <1>6, <2>1, <2>2 DEF Plan, Trimmed, end
    <2>4. fetch' \in FetchSet  BY <1>2, <1>3, <2>3 DEF FetchSet
    <2>5. FetchInv'
      <3>1. /\ fetch'.pc = "headers" /\ fetch'.target = target /\ fetch'.start = 1
            /\ fetch'.end = end /\ fetch'.rewindTo = None /\ fetch'.since = since
        BY <1>2, <2>3
      <3>2. Unreorged(target, since)'  BY <2>3 DEF Unreorged, env
      <3> QED  BY <1>3, <2>3, <3>1, <3>2 DEF FetchInv
    <2>6. CursorCached'
      <3>1. fetch' # None /\ fetch'.pc = "headers"  BY <2>3, <2>4, NoneAssumption
      <3> QED  BY <3>1 DEF CursorCached
    <2>7. IsCache(cache') /\ Cardinality(DOMAIN cache') <= Retention
      BY <2>3 DEF SourceInv
    <2>8. Held(cache', retained.path)  BY <2>3 DEF Held
    <2> QED  BY <2>3, <2>4, <2>5, <2>6, <2>7, <2>8, NewFetch
  <1> QED  BY <1>5, <1>6

(* The heights a target has in the cache, and the highest of them.         *)
LEMMA OverlapFacts ==
  ASSUME IsCache(cache), NEW target \in Path
  PROVE  /\ \A n \in Overlapping(target) : n \in DOMAIN cache /\ n <= Len(target)
         /\ Overlapping(target) # {} =>
              /\ Max(Overlapping(target)) \in Overlapping(target)
              /\ \A n \in Overlapping(target) : n <= Max(Overlapping(target))
              /\ ~(OrphanedSuffix(target) /\ Max(Overlapping(target)) = Len(target)) =>
                   \A n \in DOMAIN cache : n <= Max(Overlapping(target))
  <1>1. PICK lo \in 1..(MaxHeight + 1), hi \in 0..MaxHeight : Branch(cache, lo, hi)
    BY DEF IsCache
  <1>2. DOMAIN cache = lo..hi  BY <1>1 DEF Branch
  <1>3. lo \in Nat /\ hi \in Nat /\ Len(target) \in Nat  BY Bounds, PrefixIsAt
  <1>4. PICK top \in Nat : top = IF hi <= Len(target) THEN hi ELSE Len(target)  BY <1>3
  <1>5. Overlapping(target) = lo..top  BY <1>2, <1>3, <1>4 DEF Overlapping
  <1>6. \A n \in Overlapping(target) : n \in DOMAIN cache /\ n <= Len(target)
    BY DEF Overlapping
  <1>7. ASSUME Overlapping(target) # {}
        PROVE /\ Max(Overlapping(target)) \in Overlapping(target)
              /\ \A n \in Overlapping(target) : n <= Max(Overlapping(target))
              /\ ~(OrphanedSuffix(target) /\ Max(Overlapping(target)) = Len(target)) =>
                   \A n \in DOMAIN cache : n <= Max(Overlapping(target))
    <2>1. lo <= top  BY <1>3, <1>5, <1>7
    <2>2. Max(Overlapping(target)) = top  BY <1>3, <1>5, <2>1, MaxOfTwo
    <2>3. top \in lo..top /\ \A n \in lo..top : n <= top  BY <1>3, <2>1
    <2>4. ~(OrphanedSuffix(target) /\ top = Len(target)) => \A n \in DOMAIN cache : n <= top
      <3>1. CASE hi <= Len(target)  BY <1>2, <1>3, <1>4, <3>1
      <3>2. CASE ~(hi <= Len(target))
        <4>1. hi \in DOMAIN cache /\ hi > Len(target)  BY <1>2, <1>3, <1>4, <2>1, <3>2
        <4>2. OrphanedSuffix(target) /\ top = Len(target)
          BY <1>4, <3>2, <4>1 DEF OrphanedSuffix
        <4> QED  BY <4>2
      <3> QED  BY <3>1, <3>2
    <2> QED  BY <1>5, <2>2, <2>3, <2>4
  <1> QED  BY <1>6, <1>7

(* Where a page starts and ends once the search has matched a height.      *)
IsPlan(target, match, rs, start, end, kept) ==
  /\ IsCache(kept) /\ Cardinality(DOMAIN kept) <= Retention
  /\ DOMAIN kept = {n \in DOMAIN cache : n <= match}
  /\ \A n \in DOMAIN kept : kept[n] = cache[n]
  /\ match \in DOMAIN kept /\ match <= Len(target) /\ match \in Nat
  /\ rs # None => rs = match + 1
  /\ start \in Nat \ {0} /\ start - 1 \in DOMAIN kept /\ start <= match + 1
  /\ end \in Nat /\ end <= Len(target) /\ start <= end + 1
  /\ start = end + 1 => end = Len(target)
  /\ ~first

LEMMA PlanRange ==
  ASSUME SourceInv, page = None, fetch # None => fetch.pc = "probe",
         NEW target \in Path, target # <<>>, NEW match \in Overlapping(target),
         NEW rs, rs = ReorgStart(target, match),
         NEW start, start = (IF rs = None THEN RequestedStart ELSE Min({RequestedStart, rs})),
         NEW end, end = Min({Len(target), start + PageSize - 1}),
         NEW kept, kept = Trimmed(rs)
  PROVE  IsPlan(target, match, rs, start, end, kept)
  <1> DEFINE L == Len(target)
             D == DOMAIN cache
  <1>1. L \in Nat  BY PrefixIsAt
  <1>2. IsCache(cache) /\ Cardinality(D) <= Retention  BY DEF SourceInv
  <1>3. match \in D /\ match <= L /\ Overlapping(target) # {}  BY <1>2, OverlapFacts
  <1>4. D \subseteq 1..MaxHeight  BY <1>2, CacheFacts
  <1>5. match \in Nat  BY <1>3, <1>4
  <1>6. rs = None \/ rs = match + 1  BY DEF ReorgStart
  <1>7. rs = match + 1 => rs # None  BY <1>5, NoneAssumption
  <1>8. rs = None => \A n \in D : n <= match
    <2> SUFFICES ASSUME rs = None PROVE \A n \in D : n <= match  OBVIOUS
    <2>1. match = Max(Overlapping(target)) /\ ~(OrphanedSuffix(target) /\ match = L)
      BY <1>7 DEF ReorgStart
    <2> QED  BY <1>2, <1>3, <2>1, OverlapFacts
  <1>9. /\ IsCache(kept) /\ Cardinality(DOMAIN kept) <= Retention
        /\ DOMAIN kept = {n \in DOMAIN cache : n <= match}
        /\ \A n \in DOMAIN kept : kept[n] = cache[n]
    <2>1. CASE rs = None
      <3>1. kept = cache  BY <2>1 DEF Trimmed
      <3> QED  BY <1>2, <1>8, <2>1, <3>1
    <2>2. CASE rs # None
      <3>1. kept = [n \in {m \in D : m < match + 1} |-> cache[n]]
        BY <1>6, <2>2 DEF Trimmed
      <3>2. {m \in D : m < match + 1} = {n \in D : n <= match}  BY <1>4, <1>5
      <3>3. match + 1 \in Nat  BY <1>5
      <3>4. IsCache(kept) /\ Cardinality(DOMAIN kept) <= Cardinality(D)
        BY <1>2, <3>1, <3>3, CacheCut
      <3>5. Cardinality(D) \in Nat /\ Cardinality(DOMAIN kept) \in Nat
        <4>1. IsFiniteSet(1..MaxHeight)  BY Bounds, FS_Interval
        <4>2. DOMAIN kept \subseteq 1..MaxHeight  BY <3>4, CacheFacts
        <4> QED  BY <1>4, <4>1, <4>2, FS_Subset, FS_CardinalityType
      <3>6. Cardinality(DOMAIN kept) <= Retention  BY <1>2, <3>4, <3>5, Bounds
      <3> QED  BY <3>1, <3>2, <3>4, <3>6
    <2> QED  BY <2>1, <2>2
  <1>10. ~first /\ cursor # 0 /\ cursor - 1 \in D /\ cursor \in Nat
    <2>1. ~first  BY <1>3 DEF SourceInv, Started
    <2>2. cursor # 0  BY <2>1 DEF SourceInv, Started
    <2>3. cursor - 1 \in D  BY <2>2 DEF SourceInv, CursorCached
    <2>4. cursor \in Nat  BY Bounds DEF SourceInv, Typed
    <2> QED  BY <2>1, <2>2, <2>3, <2>4
  <1>11. RequestedStart = cursor  BY <1>10 DEF RequestedStart
  <1>12. start = IF cursor <= match + 1 THEN cursor ELSE match + 1
    <2>1. CASE rs = None
      <3>1. cursor - 1 <= match  BY <1>8, <1>10, <2>1
      <3> QED  BY <1>5, <1>10, <1>11, <2>1, <3>1
    <2>2. CASE rs # None
      <3>1. rs = match + 1 /\ rs \in Nat  BY <1>5, <1>6, <2>2
      <3>2. start = Min({cursor, rs})  BY <1>11, <2>2
      <3> QED  BY <1>10, <3>1, <3>2, MinOfTwo
    <2> QED  BY <2>1, <2>2
  <1>13. start \in Nat \ {0} /\ start <= match + 1  BY <1>5, <1>10, <1>12
  <1>14. start - 1 \in DOMAIN kept
    <2>1. CASE cursor <= match + 1
      <3>1. start - 1 = cursor - 1 /\ cursor - 1 <= match  BY <1>5, <1>10, <1>12, <2>1
      <3> QED  BY <1>9, <1>10, <3>1
    <2>2. CASE ~(cursor <= match + 1)
      <3>1. start - 1 = match /\ match <= match  BY <1>5, <1>12, <2>2
      <3> QED  BY <1>3, <1>9, <3>1
    <2> QED  BY <2>1, <2>2
  <1>15. end = IF L <= start + PageSize - 1 THEN L ELSE start + PageSize - 1
    <2>1. start + PageSize - 1 \in Nat  BY <1>13, Bounds
    <2> QED  BY <1>1, <2>1, MinOfTwo
  <1>16. /\ end \in Nat /\ end <= L /\ start <= end + 1
         /\ start = end + 1 => end = L
    BY <1>1, <1>3, <1>5, <1>13, <1>15, Bounds
  <1>17. match \in DOMAIN kept  BY <1>3, <1>5, <1>9
  <1> QED  BY <1>3, <1>5, <1>6, <1>9, <1>10, <1>13, <1>14, <1>16, <1>17 DEF IsPlan

(* The blocks of a page that is answered from the cache.                   *)
RunOf(kept, start, end) ==
  [i \in 1..(end + 1 - start) |-> Block(kept[start + i - 1], FALSE)]

IsCachedRun(blocks, kept, start, end) ==
  /\ IsRun(blocks, start, end) /\ Len(blocks) = end + 1 - start
  /\ blocks = <<>> <=> end + 1 = start
  /\ \A i \in 1..Len(blocks) : /\ start + i - 1 \in start..end
                               /\ blocks[i].path = kept[start + i - 1]
                               /\ Fits(blocks[i], kept)

LEMMA CachedRun ==
  ASSUME NEW kept, IsCache(kept), NEW start \in Nat \ {0}, NEW end \in Nat, start <= end + 1,
         start..end \subseteq DOMAIN kept,
         NEW blocks, blocks = RunOf(kept, start, end)
  PROVE  IsCachedRun(blocks, kept, start, end)
  <1>1. end + 1 - start \in Nat  BY Bounds
  <1>2. \A i \in 1..(end + 1 - start) : start + i - 1 \in start..end  BY Bounds
  <1>3. \A i \in 1..(end + 1 - start) :
          /\ start + i - 1 \in DOMAIN kept /\ kept[start + i - 1] \in Path
          /\ Len(kept[start + i - 1]) = start + i - 1 /\ kept[start + i - 1] # <<>>
    BY <1>2, CacheFacts
  <1>4. \A i \in 1..(end + 1 - start) : Block(kept[start + i - 1], FALSE) \in Op
    BY <1>3 DEF Op, Block
  <1>5. \A i \in 1..(end + 1 - start) : /\ blocks[i].path = kept[start + i - 1]
                                        /\ ~blocks[i].rewind /\ ~blocks[i].fresh
    BY DEF Block, RunOf
  <1>6. blocks \in Seq(Op) /\ Len(blocks) = end + 1 - start
    <2>1. blocks \in [1..(end + 1 - start) -> Op]  BY <1>4 DEF RunOf
    <2>2. \A f \in [1..(end + 1 - start) -> Op] : f \in Seq(Op) /\ Len(f) = end + 1 - start
      BY <1>1, FunctionSeq
    <2> QED  BY <2>1, <2>2
  <1>7. blocks = <<>> <=> end + 1 = start
    <2>1. blocks = <<>> <=> Len(blocks) = 0  BY <1>6, EmptySeq
    <2>2. end + 1 - start = 0 <=> end + 1 = start  OBVIOUS
    <2> QED  BY <1>6, <2>1, <2>2
  <1>8. \A i \in 1..(end + 1 - start) : Fits(blocks[i], kept)
    <2> SUFFICES ASSUME NEW i \in 1..(end + 1 - start), NEW n \in DOMAIN kept
                 PROVE IF n <= start + i - 1 THEN IsPrefix(kept[n], kept[start + i - 1])
                                             ELSE IsPrefix(kept[start + i - 1], kept[n])
      BY <1>3, <1>5 DEF Fits
    <2>1. start + i - 1 \in DOMAIN kept /\ start + i - 1 \in Nat /\ n \in Nat
      BY <1>2, <1>3, CacheFacts
    <2> DEFINE m == start + i - 1
    <2> HIDE DEF m
    <2>2. m \in DOMAIN kept /\ m \in Nat  BY <2>1 DEF m
    <2>3. CASE n <= m
      <3>1. IsPrefix(kept[n], kept[m])  BY <2>2, <2>3, CacheFacts
      <3> QED  BY <2>3, <3>1 DEF m
    <2>4. CASE ~(n <= m)
      <3>1. m <= n  BY <2>1, <2>2, <2>4
      <3>2. IsPrefix(kept[m], kept[n])  BY <2>2, <3>1, CacheFacts
      <3> QED  BY <2>4, <3>2 DEF m
    <2> QED  BY <2>3, <2>4
  <1>9. IsRun(blocks, start, end)  BY <1>3, <1>5, <1>6 DEF IsRun
  <1> QED  BY <1>2, <1>5, <1>6, <1>7, <1>8, <1>9 DEF IsCachedRun

(* A page answered from the cache is good.                                 *)
LEMMA CachedPage ==
  ASSUME SourceInv, Held(cache, retained.path),
         NEW target \in Path, target # <<>>, NEW since \in Nat, Unreorged(target, since),
         NEW match \in DOMAIN cache, match \in Nat, match <= Len(target),
         since = forks => IsPrefix(cache[match], chain),
         NEW kept, IsCache(kept), match \in DOMAIN kept,
         DOMAIN kept = {n \in DOMAIN cache : n <= match}, \A n \in DOMAIN kept : kept[n] = cache[n],
         NEW start \in Nat \ {0}, start - 1 \in DOMAIN kept, start <= match + 1,
         NEW end \in Nat, end <= Len(target), start <= end + 1,
         start = end + 1 => end = Len(target),
         start..end \subseteq DOMAIN kept,
         NEW rewindTo \in {None, target},
         rewindTo = target => match = Len(target) /\ cache[match] = target,
         NEW blocks, blocks = RunOf(kept, start, end),
         NEW p, p = Page(target, rewindTo, blocks, since)
  PROVE  p \in PageSet /\ GoodPage(p, kept, retained.path)
  <1> DEFINE L == Len(target)
             path == retained.path
  <1>1. L \in Nat /\ path \in Path /\ chain \in Path /\ forks \in Nat /\ target # None
    BY Bounds, PrefixIsAt, NoneAssumption DEF SourceInv, Typed, Snapshot
  <1>2. /\ IsRun(blocks, start, end) /\ Len(blocks) = end + 1 - start
        /\ blocks = <<>> <=> end + 1 = start
        /\ \A i \in 1..Len(blocks) : /\ start + i - 1 \in start..end
                                     /\ blocks[i].path = kept[start + i - 1]
                                     /\ Fits(blocks[i], kept)
    <2>1. IsCachedRun(blocks, kept, start, end)  BY CachedRun
    <2> QED  BY <2>1 DEF IsCachedRun
  <1>6. Len(blocks) = end + 1 - start /\ (blocks # <<>> => start <= end /\ Len(blocks) \in Nat \ {0})
    <2>1. end + 1 # start => start <= end /\ end + 1 - start \in Nat \ {0}  OBVIOUS
    <2> QED  BY <1>2, <2>1
  <1>3. \A n \in DOMAIN kept : /\ n \in Nat /\ n <= L /\ n <= match
                               /\ IsPrefix(kept[n], path) /\ kept[n] \in Path
    <2>1. \A n \in DOMAIN kept : n \in DOMAIN cache /\ n <= match /\ n \in Nat /\ kept[n] \in Path
      BY CacheFacts
    <2>2. \A n \in DOMAIN kept : n <= L  BY <1>1, <2>1
    <2> QED  BY <2>1, <2>2 DEF Held
  <1>4. end \in DOMAIN kept
    <2>1. CASE start <= end
      <3>1. end \in start..end  BY <2>1
      <3> QED  BY <3>1
    <2>2. CASE ~(start <= end)
      <3>1. end = start - 1  BY <2>2
      <3> QED  BY <3>1
    <2> QED  BY <2>1, <2>2
  <1>5. since = forks /\ end = L => target = cache[match] /\ match = end
    <2> SUFFICES ASSUME since = forks, end = L PROVE target = cache[match] /\ match = end  OBVIOUS
    <2>1. match = L  BY <1>1, <1>3, <1>4
    <2>2. cache[match] \in Path /\ Len(cache[match]) = match
      BY CacheFacts DEF SourceInv
    <2>3. IsPrefix(target, chain) /\ IsPrefix(cache[match], chain)  BY DEF Unreorged
    <2>4. Len(target) <= Len(cache[match]) /\ Len(target) = Len(cache[match])
      BY <1>1, <2>1, <2>2
    <2>5. target = cache[match]  BY <1>1, <2>2, <2>3, <2>4, OneOfTwo
    <2> QED  BY <2>1, <2>5
  <1>7. since = forks => Chained(target, rewindTo, blocks, end, path)
    <2> SUFFICES ASSUME since = forks PROVE Chained(target, rewindTo, blocks, end, path)
      OBVIOUS
    <2> DEFINE from == IF rewindTo = None THEN path ELSE rewindTo
               last == IF blocks = <<>> THEN from ELSE blocks[Len(blocks)].path
    <2>1. rewindTo # None => IsPrefix(rewindTo, path)  BY DEF Held
    <2>2. \A n \in DOMAIN kept : IsPrefix(kept[n], from)
      <3>1. CASE rewindTo = None  BY <1>3, <3>1
      <3>2. CASE rewindTo # None
        <4>1. from = target /\ target = kept[match]  BY <3>2
        <4>2. \A n \in DOMAIN kept : IsPrefix(kept[n], kept[match])  BY <1>3, CacheFacts
        <4> QED  BY <4>1, <4>2
      <3> QED  BY <3>1, <3>2
    <2>3. blocks # <<>> => IsPrefix(Front(blocks[1].path), from)
      <3> SUFFICES ASSUME blocks # <<>> PROVE IsPrefix(Front(blocks[1].path), from)  OBVIOUS
      <3>1. 1 \in 1..Len(blocks) /\ start + 1 - 1 = start  BY <1>6
      <3>2. start \in DOMAIN kept /\ blocks[1].path = kept[start]  BY <1>2, <3>1
      <3>3. start = (start - 1) + 1  OBVIOUS
      <3>4. Front(kept[start]) = kept[start - 1]  BY <3>2, <3>3, CacheFacts
      <3> QED  BY <2>2, <3>2, <3>4
    <2>4. \A i \in 1..(Len(blocks) - 1) : IsPrefix(Front(blocks[i + 1].path), blocks[i].path)
      <3> SUFFICES ASSUME NEW i \in 1..(Len(blocks) - 1)
                   PROVE IsPrefix(Front(blocks[i + 1].path), blocks[i].path)
        OBVIOUS
      <3> DEFINE m == start + i - 1
                 n == start + (i + 1) - 1
      <3>1. i \in 1..Len(blocks) /\ i + 1 \in 1..Len(blocks) /\ n = m + 1  BY <1>2
      <3>2. /\ m \in DOMAIN kept /\ n \in DOMAIN kept
            /\ blocks[i].path = kept[m] /\ blocks[i + 1].path = kept[n]
        BY <1>2, <3>1
      <3> HIDE DEF m, n
      <3>3. Front(kept[n]) = kept[m]  BY <3>1, <3>2, CacheFacts
      <3> QED  BY <1>3, <3>2, <3>3, AtSelf
    <2>5. end = Len(target) => IsPrefix(target, last)
      <3> SUFFICES ASSUME end = Len(target) PROVE IsPrefix(target, last)  OBVIOUS
      <3>1. target = kept[match] /\ match = end  BY <1>5
      <3>2. CASE blocks = <<>>  BY <2>2, <3>1, <3>2
      <3>3. CASE blocks # <<>>
        <4>1. Len(blocks) \in 1..Len(blocks) /\ start + Len(blocks) - 1 = end  BY <1>6, <3>3
        <4>2. blocks[Len(blocks)].path = kept[end]  BY <1>2, <4>1
        <4> QED  BY <3>1, <3>3, <4>2, AtSelf
      <3> QED  BY <3>2, <3>3
    <2> QED  BY <2>1, <2>3, <2>4, <2>5 DEF Chained
  <1>8. rewindTo # None => Len(rewindTo) = Len(target) /\ rewindTo # <<>>  OBVIOUS
  <1>9. since <= forks  BY DEF Unreorged
  <1>10. rewindTo \in Path \cup {None}  OBVIOUS
  <1>11. Parts(target, rewindTo, blocks, start, end, since)
    BY <1>2, <1>10 DEF Parts
  <1>12. Bring(kept, target, rewindTo, blocks, end, path)
    BY <1>2, <1>3, <1>4, <1>8 DEF Bring
  <1>13. p \in PageSet  BY <1>11, PageShape DEF Shaped
  <1>14. GoodPage(p, kept, path)  BY <1>7, <1>9, <1>11, <1>12, PageGood
  <1> QED  BY <1>13, <1>14

(* With a cache the page starts at the cursor, or where the search has     *)
(* matched.                                                                *)
LEMMA PlanCached ==
  ASSUME SourceInv, proc # "down", page = None, fetch # None => fetch.pc = "probe",
         NEW target \in Path, target # <<>>, NEW since \in Nat, Unreorged(target, since),
         NEW match \in Overlapping(target),
         since = forks => IsPrefix(cache[match], chain),
         NEW rs, rs = ReorgStart(target, match), Plan(target, rs, since)
  PROVE  SourceInv'
  <1> DEFINE L == Len(target)
             start == IF rs = None THEN RequestedStart ELSE Min({RequestedStart, rs})
             end == Min({L, start + PageSize - 1})
             kept == Trimmed(rs)
             rolledBack == rs # None /\ rs > L
             rewindTo == IF rolledBack THEN cache[L] ELSE None
             whole == start..end \subseteq DOMAIN kept
             blocks == [i \in 1..(end + 1 - start) |-> Block(kept[start + i - 1], FALSE)]
  <1>1. /\ IsCache(kept) /\ Cardinality(DOMAIN kept) <= Retention
        /\ DOMAIN kept = {n \in DOMAIN cache : n <= match}
        /\ \A n \in DOMAIN kept : kept[n] = cache[n]
        /\ match \in DOMAIN kept /\ match <= Len(target) /\ match \in Nat
        /\ rs # None => rs = match + 1
        /\ start \in Nat \ {0} /\ start - 1 \in DOMAIN kept /\ start <= match + 1
        /\ end \in Nat /\ end <= Len(target) /\ start <= end + 1
        /\ start = end + 1 => end = Len(target)
        /\ ~first
    <2>1. /\ start = (IF rs = None THEN RequestedStart ELSE Min({RequestedStart, rs}))
          /\ end = Min({Len(target), start + PageSize - 1})
          /\ kept = Trimmed(rs)
      OBVIOUS
    <2> HIDE DEF start, end, kept
    <2>2. IsPlan(target, match, rs, start, end, kept)  BY <2>1, PlanRange
    <2> QED  BY <2>2 DEF IsPlan
  <1>2. \/ Throws
        \/ /\ ~(rolledBack /\ cache[L] # target)
           /\ start > L \/ whole
           /\ page' = Page(target, rewindTo, blocks, since)
           /\ fetch' = None /\ cache' = kept /\ first' = FALSE
           /\ UNCHANGED <<proc, stored, retained, cursor, refresh, env, faults>>
        \/ /\ ~(rolledBack /\ cache[L] # target)
           /\ ~(start > L \/ whole)
           /\ start \notin DOMAIN kept
           /\ fetch' = [pc |-> "headers", target |-> target, start |-> start, end |-> end,
                        rewindTo |-> rewindTo, since |-> since]
           /\ cache' = kept
           /\ UNCHANGED <<proc, stored, retained, cursor, refresh, first, page, env, faults>>
    BY DEF Plan
  <1>3. /\ L \in Nat /\ match \in DOMAIN cache /\ IsCache(cache)
        /\ Held(cache, retained.path) /\ Len(cache[match]) = match /\ target # None
    <2>1. IsCache(cache) /\ Held(cache, retained.path)  BY DEF SourceInv, QuietHeld
    <2>2. match \in DOMAIN cache  BY DEF Overlapping
    <2>3. L \in Nat /\ target # None  BY PrefixIsAt, NoneAssumption
    <2> QED  BY <2>1, <2>2, <2>3, CacheFacts
  <1>4. Held(kept, retained.path)  BY <1>1, <1>3 DEF Held
  <1>5. rolledBack => match = L
    <2>1. rolledBack => match + 1 > L /\ rs = match + 1  BY <1>1
    <2> QED  BY <1>1, <1>3, <2>1
  <1> HIDE DEF start, end, kept, rolledBack
  <1>6. CASE Throws  BY <1>6, ThrowsInv
  <1>7. CASE /\ ~(rolledBack /\ cache[L] # target)
             /\ start > L \/ whole
             /\ page' = Page(target, rewindTo, blocks, since)
             /\ fetch' = None /\ cache' = kept /\ first' = FALSE
             /\ UNCHANGED <<proc, stored, retained, cursor, refresh, env, faults>>
    <2>1. whole
      <3>1. CASE start > L
        <4>1. start = end + 1  BY <1>1, <1>3, <3>1
        <4>2. start..end = {}  BY <1>1, <4>1
        <4> QED  BY <4>2
      <3> QED  BY <1>7, <3>1
    <2>2. rewindTo \in {None, target} /\ (rewindTo = target => match = L /\ cache[match] = target)
      <3>1. CASE rolledBack  BY <1>3, <1>5, <1>7, <3>1
      <3>2. CASE ~rolledBack  BY <1>3, <3>2
      <3> QED  BY <3>1, <3>2
    <2>3. blocks = RunOf(kept, start, end)  BY DEF RunOf
    <2> HIDE DEF rewindTo, blocks
    <2> DEFINE p == Page(target, rewindTo, blocks, since)
    <2>4. p \in PageSet /\ GoodPage(p, kept, retained.path)
      <3> DEFINE q == p
      <3>1. q = Page(target, rewindTo, blocks, since)  OBVIOUS
      <3>2. start..end \subseteq DOMAIN kept  BY <2>1
      <3>3. match \in DOMAIN cache /\ match \in Nat /\ match <= Len(target)  BY <1>1, <1>3
      <3> HIDE DEF q
      <3>4. q \in PageSet /\ GoodPage(q, kept, retained.path)
        BY <1>1, <1>3, <2>2, <2>3, <3>1, <3>2, <3>3, CachedPage
      <3> QED  BY <3>4 DEF q
    <2>5. page' \in PageSet /\ GoodPage(page', cache', retained.path)  BY <1>7, <2>4
    <2>6. IsCache(cache') /\ Cardinality(DOMAIN cache') <= Retention  BY <1>1, <1>7
    <2>7. refresh' \in BOOLEAN  BY <1>7 DEF SourceInv, Typed
    <2> QED  BY <1>7, <2>5, <2>6, <2>7, NewPage
  <1>8. CASE /\ ~(rolledBack /\ cache[L] # target)
             /\ ~(start > L \/ whole)
             /\ start \notin DOMAIN kept
             /\ fetch' = [pc |-> "headers", target |-> target, start |-> start, end |-> end,
                          rewindTo |-> rewindTo, since |-> since]
             /\ cache' = kept
             /\ UNCHANGED <<proc, stored, retained, cursor, refresh, first, page, env, faults>>
    <2>1. start <= L /\ start <= end
      <3>1. start <= L  BY <1>1, <1>3, <1>8
      <3>2. start # end + 1  BY <1>1, <1>3, <3>1
      <3> QED  BY <1>1, <3>1, <3>2
    <2>2. ~rolledBack
      <3> SUFFICES ASSUME rolledBack PROVE start \in DOMAIN kept  BY <1>8
      <3>1. match = L  BY <1>5
      <3>2. start - 1 \in DOMAIN kept /\ match \in DOMAIN kept /\ start - 1 <= start /\ start <= match
        BY <1>1, <2>1, <3>1
      <3>3. start \in Nat  BY <1>1
      <3> QED  BY <1>1, <3>2, <3>3, CacheFacts
    <2>3. rewindTo = None  BY <2>2
    <2> HIDE DEF rewindTo
    <2>4. fetch' = [pc |-> "headers", target |-> target, start |-> start, end |-> end,
                    rewindTo |-> None, since |-> since]
      BY <1>8, <2>3
    <2>5. fetch' \in FetchSet  BY <1>1, <2>4 DEF FetchSet
    <2>6. FetchInv'
      <3>1. /\ fetch'.pc = "headers" /\ fetch'.target = target /\ fetch'.start = start
            /\ fetch'.end = end /\ fetch'.rewindTo = None /\ fetch'.since = since
        BY <2>4
      <3>2. Unreorged(target, since)'  BY <1>8 DEF Unreorged, env
      <3>3. start # 1
        <4>1. start - 1 \in 1..MaxHeight  BY <1>1, CacheFacts
        <4> QED  BY <1>1, <4>1
      <3> QED  BY <1>1, <1>8, <2>1, <3>1, <3>2, <3>3 DEF FetchInv
    <2>7. CursorCached'
      <3>1. fetch' # None /\ fetch'.pc = "headers"  BY <2>4, <2>5, NoneAssumption
      <3> QED  BY <3>1 DEF CursorCached
    <2>8. IsCache(cache') /\ Cardinality(DOMAIN cache') <= Retention /\ Held(cache', retained.path)
      BY <1>1, <1>4, <1>8
    <2> QED  BY <1>1, <1>8, <2>5, <2>6, <2>7, <2>8, NewFetch
  <1> QED  BY <1>2, <1>6, <1>7, <1>8

LEMMA ProbeInv == ASSUME SourceInv, Probe PROVE SourceInv'
  <1> DEFINE target == fetch.target
             probe == fetch.probe
             lower == {n \in DOMAIN cache : n < probe}
  <1>1. /\ fetch # None /\ fetch.pc = "probe" /\ fetch \in FetchSet /\ FetchInv
        /\ page = None /\ proc # "down" /\ IsCache(cache) /\ chain \in Path
    BY DEF Probe, SourceInv, Typed, Exclusive, Idle
  <1>2. target \in Path /\ fetch.since \in Nat /\ probe \in Nat  BY <1>1 DEF FetchSet
  <1>3. target # <<>> /\ Unreorged(target, fetch.since) /\ probe \in Overlapping(target)
    BY <1>1 DEF FetchInv
  <1>4. \/ /\ probe <= Len(chain) /\ At(chain, probe) = cache[probe]
           /\ Plan(target, ReorgStart(target, probe), fetch.since)
        \/ Throws
        \/ /\ lower # {} /\ fetch' = [fetch EXCEPT !.probe = Max(lower)]
           /\ UNCHANGED <<proc, stored, retained, source, page, env, faults>>
    BY DEF Probe
  <1>5. CASE Throws  BY <1>5, ThrowsInv
  <1>6. CASE /\ probe <= Len(chain) /\ At(chain, probe) = cache[probe]
             /\ Plan(target, ReorgStart(target, probe), fetch.since)
    <2>1. IsPrefix(cache[probe], chain)
      <3>1. probe \in 0..Len(chain) /\ 0 \in 0..probe  BY <1>1, <1>2, <1>6, PrefixIsAt
      <3> QED  BY <1>1, <1>6, <3>1, Ancestors
    <2> DEFINE rs == ReorgStart(target, probe)
               since == fetch.since
    <2>2. rs = ReorgStart(target, probe) /\ Plan(target, rs, since)  BY <1>6
    <2>3. since \in Nat /\ Unreorged(target, since)  BY <1>2, <1>3
    <2> HIDE DEF rs, target, probe, since
    <2> QED  BY <1>1, <1>2, <1>3, <2>1, <2>2, <2>3, PlanCached
  <1>7. CASE /\ lower # {} /\ fetch' = [fetch EXCEPT !.probe = Max(lower)]
             /\ UNCHANGED <<proc, stored, retained, source, page, env, faults>>
    <2>1. Max(lower) \in lower
      <3>1. PICK lo \in 1..(MaxHeight + 1), hi \in 0..MaxHeight : Branch(cache, lo, hi)
        BY <1>1 DEF IsCache
      <3>2. DOMAIN cache = lo..hi /\ lo \in Nat /\ hi \in Nat /\ 1 <= lo  BY <3>1, Bounds DEF Branch
      <3>3. probe \in lo..hi  BY <1>3, <3>2 DEF Overlapping
      <3>4. lower = lo..(probe - 1) /\ probe - 1 \in Nat  BY <1>2, <3>2, <3>3
      <3>5. lo <= probe - 1  BY <1>7, <3>2, <3>4
      <3>6. Max(lo..(probe - 1)) = probe - 1  BY <3>2, <3>4, <3>5, MaxOfTwo
      <3>7. probe - 1 \in lo..(probe - 1)  BY <3>2, <3>4, <3>5
      <3> QED  BY <3>4, <3>6, <3>7
    <2> DEFINE m == Max(lower)
    <2>2. m \in DOMAIN cache /\ m < probe  BY <2>1
    <2> HIDE DEF m
    <2>3. m \in Nat  BY <1>1, <2>2, CacheFacts
    <2>4. m \in Overlapping(target)
      <3>1. probe <= Len(target) /\ Len(target) \in Nat  BY <1>2, <1>3, PrefixIsAt DEF Overlapping
      <3>2. m <= Len(target)  BY <1>2, <2>2, <2>3, <3>1
      <3> QED  BY <2>2, <3>2 DEF Overlapping
    <2>5. fetch' = [fetch EXCEPT !.probe = m]  BY <1>7 DEF m
    <2>6. /\ fetch' \in FetchSet /\ fetch'.pc = "probe" /\ fetch'.target = target
          /\ fetch'.since = fetch.since /\ fetch'.probe = m
      BY <1>1, <2>3, <2>5 DEF FetchSet
    <2>7. cache' = cache /\ chain' = chain /\ forks' = forks /\ page' = page /\ cursor' = cursor
      BY <1>7 DEF source, env
    <2>8. FetchInv'
      <3>1. Unreorged(target, fetch.since)'  BY <1>3, <2>6, <2>7 DEF Unreorged
      <3> QED  BY <1>3, <2>4, <2>6, <2>7, <3>1 DEF FetchInv, Overlapping
    <2>9. CursorCached'
      BY <1>1, <2>7 DEF SourceInv, CursorCached
    <2>10. /\ IsCache(cache') /\ Cardinality(DOMAIN cache') <= Retention /\ Held(cache', retained.path)
           /\ first => DOMAIN cache' = {}
      BY <1>1, <2>7 DEF SourceInv, QuietHeld, Started
    <2> QED  BY <1>1, <1>7, <2>6, <2>8, <2>9, <2>10, NewFetch DEF source
  <1> QED  BY <1>4, <1>5, <1>6, <1>7

LEMMA FetchTargetInv == ASSUME SourceInv, FetchTarget PROVE SourceInv'
  <1> DEFINE target == At(chain, Len(chain) - Confirmations)
  <1>1. /\ fetch = None /\ page = None /\ proc # "down" /\ IsCache(cache) /\ chain \in Path
        /\ Len(chain) > Confirmations /\ forks \in Nat /\ Held(cache, retained.path)
    BY Bounds DEF FetchTarget, SourceInv, Typed, QuietHeld
  <1>2. /\ target \in Path /\ target # <<>> /\ IsPrefix(target, chain)
        /\ Unreorged(target, forks)
    <2> DEFINE n == Len(chain) - Confirmations
    <2>1. n \in 0..Len(chain) /\ n # 0 /\ 0 \in 0..n
      <3>1. Len(chain) \in Nat  BY <1>1, PrefixIsAt
      <3> QED  BY <1>1, <3>1, Bounds
    <2> HIDE DEF n
    <2>2. At(chain, n) \in Path /\ Len(At(chain, n)) = n  BY <1>1, <2>1, AtPath
    <2>3. IsPrefix(At(chain, n), chain)  BY <1>1, <2>1, Ancestors
    <2>4. At(chain, n) # <<>>  BY <2>1, <2>2, EmptyPath
    <2> QED  BY <1>1, <2>2, <2>3, <2>4 DEF n, Unreorged
  <1>3. \/ /\ Overlapping(target) # {}
           /\ fetch' = [pc |-> "probe", target |-> target, probe |-> Max(Overlapping(target)),
                        since |-> forks]
           /\ UNCHANGED <<proc, stored, retained, source, page, env, faults>>
        \/ Throws
        \/ Overlapping(target) = {} /\ ~OrphanedSuffix(target) /\ Plan(target, None, forks)
    BY DEF FetchTarget
  <1> HIDE DEF target
  <1>4. CASE Throws  BY <1>4, ThrowsInv
  <1>5. CASE Overlapping(target) = {} /\ ~OrphanedSuffix(target) /\ Plan(target, None, forks)
    <2>1. DOMAIN cache = {}
      <3> SUFFICES ASSUME NEW n \in DOMAIN cache PROVE FALSE  OBVIOUS
      <3>1. n \in Nat /\ Len(target) \in Nat  BY <1>1, <1>2, CacheFacts, PrefixIsAt
      <3>2. n <= Len(target) \/ n > Len(target)  BY <3>1
      <3> QED  BY <1>5, <3>2 DEF Overlapping, OrphanedSuffix
    <2> QED  BY <1>1, <1>2, <1>5, <2>1, PlanEmpty
  <1>6. CASE /\ Overlapping(target) # {}
             /\ fetch' = [pc |-> "probe", target |-> target, probe |-> Max(Overlapping(target)),
                          since |-> forks]
             /\ UNCHANGED <<proc, stored, retained, source, page, env, faults>>
    <2> DEFINE m == Max(Overlapping(target))
    <2>1. m \in Overlapping(target) /\ m \in DOMAIN cache  BY <1>1, <1>2, <1>6, OverlapFacts
    <2> HIDE DEF m
    <2>2. m \in Nat  BY <1>1, <2>1, CacheFacts
    <2>3. fetch' = [pc |-> "probe", target |-> target, probe |-> m, since |-> forks]
      BY <1>6 DEF m
    <2>4. fetch' \in FetchSet  BY <1>1, <1>2, <2>2, <2>3 DEF FetchSet
    <2>5. cache' = cache /\ chain' = chain /\ forks' = forks /\ page' = page /\ cursor' = cursor
      BY <1>6 DEF source, env
    <2>6. FetchInv'
      <3>1. /\ fetch'.pc = "probe" /\ fetch'.target = target /\ fetch'.probe = m
            /\ fetch'.since = forks
        BY <2>3
      <3>2. forks <= forks' /\ (forks = forks' => IsPrefix(target, chain'))
        BY <1>1, <1>2, <2>5
      <3> QED  BY <1>2, <2>1, <2>5, <3>1, <3>2 DEF FetchInv, Unreorged, Overlapping
    <2>7. CursorCached'  BY <1>1, <2>5 DEF SourceInv, CursorCached
    <2>8. /\ IsCache(cache') /\ Cardinality(DOMAIN cache') <= Retention /\ Held(cache', retained.path)
          /\ first => DOMAIN cache' = {}
      BY <1>1, <2>5 DEF SourceInv, Started
    <2> QED  BY <1>1, <1>6, <2>4, <2>6, <2>7, <2>8, NewFetch DEF source
  <1> QED  BY <1>3, <1>4, <1>5, <1>6

-----------------------------------------------------------------------------
(* The theorems.                                                           *)

LEMMA NextSourceInv == SourceInv /\ [Next]_vars => SourceInv'
  <1> SUFFICES ASSUME SourceInv, [Next]_vars PROVE SourceInv'  OBVIOUS
  <1>1. CASE Start  BY <1>1, StartInv
  <1>2. CASE FetchTarget  BY <1>2, FetchTargetInv
  <1>3. CASE Probe  BY <1>3, ProbeInv
  <1>4. CASE LoadHeaders  BY <1>4, LoadHeadersInv
  <1>5. CASE LoadLogs  BY <1>5, LoadLogsInv
  <1>6. CASE ApplyOp  BY <1>6, ApplyOpInv
  <1>7. CASE PageDone  BY <1>7, PageDoneInv
  <1>8. CASE Mine  BY <1>8, MineInv
  <1>9. CASE Reorganise  BY <1>9, ReorganiseInv
  <1>10. CASE Crash \/ RequestFails  BY <1>10, FaultInv
  <1>11. CASE UNCHANGED vars
    <2>1. /\ chain' = chain /\ forks' = forks /\ faults' = faults /\ proc' = proc
          /\ stored' = stored /\ retained' = retained /\ cache' = cache /\ cursor' = cursor
          /\ refresh' = refresh /\ first' = first /\ fetch' = fetch /\ page' = page
      BY <1>11 DEF vars, env, source
    <2>2. Typed'  BY <2>1 DEF SourceInv, Typed
    <2>3. IsCache(cache)' /\ (Cardinality(DOMAIN cache) <= Retention)'
      BY <2>1 DEF SourceInv, IsCache, Branch
    <2>4. Idle' /\ Started' /\ Exclusive' /\ CursorCached' /\ QuietHeld'
      BY <2>1 DEF SourceInv, Idle, Started, Exclusive, CursorCached, QuietHeld, Held
    <2>5. FetchInv'  BY <2>1 DEF SourceInv, FetchInv, Unreorged, Overlapping
    <2>6. PageInv'  BY <2>1 DEF SourceInv, PageInv, GoodPage, Delivered
    <2>7. NothingSkipped' /\ Bare'
      BY <2>1 DEF SourceInv, NothingSkipped, RequestedStart, Bare
    <2> QED  BY <2>2, <2>3, <2>4, <2>5, <2>6, <2>7 DEF SourceInv
  <1> QED  BY <1>1, <1>2, <1>3, <1>4, <1>5, <1>6, <1>7, <1>8, <1>9, <1>10, <1>11
           DEF Next, SourceNext

(* SourceInv is an invariant: the cache is always an interval of one       *)
(* branch that the engine has or is about to be given, a fetch continues   *)
(* it, and the operations of a page build on each other.                   *)
THEOREM Invariance == Spec => []SourceInv
  <1>1. Init => SourceInv  BY InitSourceInv
  <1>2. SourceInv /\ [Next]_vars => SourceInv'  BY NextSourceInv
  <1> QED  BY <1>1, <1>2, PTL DEF Spec

(* Every value has its type, the cache of delivered blocks is a contiguous *)
(* piece of one branch, and the next page begins at most right after the   *)
(* engine's head (canonical-block-source.mjs), whatever the chain does     *)
(* between the reads of a page.                                            *)
THEOREM NextPage == Spec => []SourceConsistent
  <1>1. SourceInv => SourceConsistent
    <2> SUFFICES ASSUME SourceInv PROVE SourceConsistent  OBVIOUS
    <2>1. IsCache(cache) /\ Typed /\ Cardinality(DOMAIN cache) <= Retention  BY DEF SourceInv
    <2>2. TypeOK
      <3>1. chain # <<>>
        <4>1. Len(chain) # 0  BY <2>1, Bounds, PrefixIsAt DEF Typed
        <4> QED  BY <4>1, EmptyPath
      <3>2. DOMAIN cache \subseteq 1..MaxHeight /\ Range(cache) \subseteq Path
        BY <2>1, CacheFacts DEF Range
      <3> QED  BY <2>1, <3>1, <3>2 DEF TypeOK, Typed, Snapshot, Checkpoint
    <2>3. OneBranch
      <3> SUFFICES ASSUME NEW n \in DOMAIN cache
                   PROVE /\ Len(cache[n]) = n
                         /\ \A m \in DOMAIN cache : m > n => (n + 1) \in DOMAIN cache
                         /\ (n + 1) \in DOMAIN cache => Front(cache[n + 1]) = cache[n]
        BY DEF OneBranch
      <3>1. Len(cache[n]) = n /\ n \in Nat  BY <2>1, CacheFacts
      <3>2. \A m \in DOMAIN cache : m > n => (n + 1) \in DOMAIN cache
        <4> SUFFICES ASSUME NEW m \in DOMAIN cache, m > n PROVE (n + 1) \in DOMAIN cache  OBVIOUS
        <4>1. m \in Nat  BY <2>1, CacheFacts
        <4>2. n + 1 \in Nat /\ n <= n + 1 /\ n + 1 <= m  BY <3>1, <4>1
        <4> QED  BY <2>1, <4>2, CacheFacts
      <3>3. (n + 1) \in DOMAIN cache => Front(cache[n + 1]) = cache[n]  BY <2>1, CacheFacts
      <3> QED  BY <3>1, <3>2, <3>3
    <2> QED  BY <2>2, <2>3 DEF SourceConsistent, SourceInv
  <1> QED  BY <1>1, Invariance, PTL

(* Without pools, the engine accepts every operation of a page whose fetch *)
(* no reorganisation overtook: the replay of a whole history included.     *)
(* With pools it does not (the run source_replay).                         *)
THEOREM Accepted ==
  ASSUME Pools = FALSE
  PROVE  Spec => []PagesAccepted
  <1>1. SourceInv => PagesAccepted
    <2> SUFFICES ASSUME SourceInv, page # None, page.ops # <<>>, page.since = forks
                 PROVE Accepts(Head(page.ops))
      BY DEF PagesAccepted
    <2> DEFINE op == page.ops[1]
    <2>1. page \in PageSet /\ GoodPage(page, cache, retained.path) /\ retained.fresh = {}
      BY DEF SourceInv, Typed, PageInv, Bare
    <2>2. page.ops \in Seq(Op)  BY <2>1 DEF PageSet
    <2>3. 1 \in DOMAIN page.ops /\ Head(page.ops) = op  BY <2>2, EmptySeq, LenProperties
    <2>4. Fits(op, cache) /\ IsPrefix(Base(op), retained.path)  BY <2>1, <2>3 DEF GoodPage, Linked
    <2>5. ~op.fresh  BY <2>4 DEF Fits
    <2>6. op.fresh = FALSE
      <3>1. op \in Op  BY <2>2, <2>3, ElementOfSeq, LenProperties
      <3> QED  BY <2>5, <3>1 DEF Op
    <2> HIDE DEF op
    <2>7. Accepts(op)
      <3>1. CASE op.rewind  BY <2>4, <3>1 DEF Accepts, Known, Base
      <3>2. CASE ~op.rewind
        <4>1. (Len(op.path) \in retained.fresh) = FALSE  BY <2>1
        <4>2. IsPrefix(Front(op.path), retained.path)  BY <2>4, <3>2 DEF Base
        <4>3. AcceptsBlock(op)  BY <2>6, <4>1, <4>2, Zenon DEF AcceptsBlock
        <4> QED  BY <3>2, <4>3 DEF Accepts
      <3> QED  BY <3>1, <3>2
    <2> QED  BY <2>3, <2>7
  <1> QED  BY <1>1, Invariance, PTL
=============================================================================
