---------------------- MODULE AnalyticsService_proofs ----------------------
(***************************************************************************)
(* Proofs about AnalyticsService, for any tree of blocks and any number of *)
(* pairs, browsers and faults, as long as no block throws in the engine:   *)
(* the durable state can be restored at every moment, readers see what is  *)
(* durable, a retried commit is the commit that was tried, followers end   *)
(* at the published candles, and the durable state is a DurableFeed.       *)
(***************************************************************************)
EXTENDS AnalyticsService, CanonicalEngine_proofs, FiniteSetTheorems

-----------------------------------------------------------------------------
(* No block of a chain that begins where a history may begin requires an   *)
(* event that the chain before it lacks.                                   *)

Begins(c) == c # <<>> => c[1].id \in Start

NothingThrows ==
  \A c \in Seq(Envelope) :
    /\ ChainOK(c) /\ Begins(c)
    /\ \A i \in 1..Len(c) : CanonicalAt(c, i)
    => GoodTo(c, Len(c))

-----------------------------------------------------------------------------
(* The inductive invariant.                                                *)

(* Rows that hold a chain: its blocks by number, each with at least what   *)
(* the chain keeps of it.                                                  *)
Holds(rows, c) ==
  /\ DOMAIN rows = {Number[c[i].id] : i \in 1..Len(c)}
  /\ \A i \in 1..Len(c) :
       LET row == rows[Number[c[i].id]] IN
       /\ row \in Envelope /\ row.id = c[i].id
       /\ c[i].kept \subseteq row.kept /\ row.kept \subseteq Range(Events[row.id])

(* Events that tell how the candles C became D.                            *)
Changes(E, C, D) ==
  /\ E \in Seq(Event)
  /\ \A i \in 1..Len(E) : E[i].topic \in Pairs /\ E[i].candle = D[E[i].topic]
  /\ \A i, j \in 1..Len(E) : E[i].topic = E[j].topic => i = j
  /\ \A p \in Pairs : C[p] # D[p] <=> \E i \in 1..Len(E) : E[i].topic = p
  /\ \A p \in Pairs : C[p] \subseteq D[p]
Tell(E, C, D) == E = <<ResetEvent>> \/ Changes(E, C, D)

(* A reader of p who holds x at cursor c arrives at C by reading on in L.  *)
Ahead(L, c, p) == {i \in 1..Len(L) : i > c /\ L[i].topic \in {p, Reset}}
Follow(L, C, c, p, x) ==
  /\ Ahead(L, c, p) = {} => x = C[p]
  /\ (\A i \in Ahead(L, c, p) : L[i].topic = p) => x \subseteq C[p]
  /\ \A i \in Ahead(L, c, p) :
       (\A j \in Ahead(L, c, p) : j <= i => L[j].topic = p)
         => L[i].candle \in Candles /\ x \subseteq L[i].candle
LogTells(L, C) ==
  \A i \in 1..Len(L) : \A p \in Pairs :
    L[i].topic = p => Follow(L, C, i, p, L[i].candle)

EngineOK ==
  /\ Retained(blocks, views, eventIndex) /\ Sound(blocks, views, eventIndex)
  /\ Begins(blocks)
  /\ reorgCount \in 0..MaxReorgs
  /\ backfillStatus \in {"unavailable", "running", "partial", "capped", "complete"}
  /\ coverageThrough \in {-1} \cup Range(Time)

Follower == [pair : Pairs, candle : Candles \cup {None}, base : Nat, cursor : Nat,
             state : {"refetch", "closed", "live"}, answer : Answer \cup {None},
             overtaken : BOOLEAN]
Shape ==
  /\ phase \in {"down", "backfill", "serving"}
  /\ flushing \in {"idle", "storing", "stored"}
  /\ pending \in Pending \cup {None}
  /\ loading \in Loading \cup {None}
  /\ phase = "backfill" <=> loading # None
  /\ phase = "down" => flushing = "idle" /\ log = <<>>
  /\ phase # "serving" => pending = None
  /\ phase = "serving" /\ flushing # "idle" => pending # None
  /\ loading # None => ~loading.failed
  /\ snapshot \in [Pairs -> Candles]
  /\ log \in Seq(Event)
  /\ browser \in [Browsers -> Follower]
  /\ \A k \in Browsers : browser[k].state = "live" => phase = "serving"
  /\ faults \in 0..MaxFaults

(* What is durable can be restored, as the chain Held.                     *)
Held(d) == Replayed(Loaded(d.rows))
Durable(d) ==
  /\ ChainOK(Held(d)) /\ GoodTo(Held(d), Len(Held(d))) /\ Begins(Held(d))
  /\ Holds(d.rows, Held(d)) /\ d.candles = CandlesOf(Held(d))
  /\ d.reorgs \in 0..MaxReorgs /\ d.coverage \in {-1} \cup Range(Time)
  /\ d.log \in Seq(Event) /\ (~DurableLog => d.log = <<>>)

(* What is durable is the engine with the events E, or what was published  *)
(* before its commit.                                                      *)
New(d, E) ==
  /\ Holds(d.rows, blocks) /\ d.candles = CandlesOf(blocks)
  /\ d.reorgs = reorgCount /\ d.status = backfillStatus /\ d.coverage = coverageThrough
  /\ DurableLog => d.log = log \o E
Old(d) == d.candles = snapshot /\ (DurableLog => d.log = log)

(* What the flush of a mutation, or of a backfill, starts from.            *)
Mutation ==
  /\ blocks # <<>>
  /\ pending.full => pending.events = <<ResetEvent>>
  /\ ~pending.full => /\ Changes(pending.events, snapshot, CandlesOf(blocks))
                      /\ Last(blocks).id = pending.block
  /\ \/ Old(db) /\ (~pending.full => Holds(db.rows, Prefix(blocks, Len(blocks) - 1)))
     \/ New(db, pending.events)
Loads ==
  /\ flushing # "stored" => Old(db)
  /\ ~loading.reset => \A p \in Pairs : snapshot[p] \subseteq Candle(blocks, p)

Flush ==
  /\ phase = "serving" /\ pending = None => New(db, <<>>) /\ snapshot = CandlesOf(blocks)
  /\ phase = "serving" /\ pending # None => Mutation
  /\ phase = "backfill" => Loads
  /\ flushing = "stored" => New(db, Commit.events)

Within == blocks # <<>> => coverageThrough <= Time[Last(blocks).id]
CoverageOK ==
  /\ phase = "serving" => backfillStatus = "complete" /\ Within
  /\ phase = "backfill" /\ flushing # "idle" => Within

(* Every browser can go on from what it shows, unless an answer overtook   *)
(* it, and from the answer that is on its way.                             *)
From(L, C, p, read) ==
  /\ read.cursor \in 0..Len(L) /\ read.candle \in Candles
  /\ Follow(L, C, read.cursor, p, read.candle)
GoesOnFrom(L, C, f) ==
  /\ f.state # "refetch" => /\ f.cursor \in 0..Len(L)
                            /\ ~f.overtaken => From(L, C, f.pair, f)
  /\ f.answer # None => From(L, C, f.pair, f.answer)
Served(L, C) ==
  /\ LogTells(L, C)
  /\ \A k \in Browsers : GoesOnFrom(L, C, browser[k])
Readers ==
  /\ Served(db.log, db.candles)
  /\ phase # "down" => Served(log, snapshot)

ServiceInv ==
  /\ EngineOK /\ Shape /\ Durable(db) /\ Flush /\ CoverageOK
  /\ DurableLog => Readers

-----------------------------------------------------------------------------
(* The chain that rows hold is the chain that is restored from them.       *)

LEMMA SoundRetained ==
  ASSUME NothingThrows, NEW c, NEW vs, NEW ix, Retained(c, vs, ix), Begins(c)
  PROVE  Sound(c, vs, ix)
  <1>1. c \in Seq(Envelope) /\ Len(c) \in Nat  BY ChainLen DEF Retained, ChainOK
  <1>2. ASSUME NEW k \in 1..Len(c), Stuck(c, vs, k) PROVE FALSE
    <2> DEFINE d == Prefix(c, k)
    <2>1. k \in 0..Len(c) /\ k \in Nat /\ k \in 1..k /\ 1 \in 1..k  BY <1>1
    <2>2. d \in Seq(Envelope) /\ Len(d) = k /\ (\A i \in 1..k : d[i] = c[i]) /\ ChainOK(d)
      BY <1>1, <2>1, PrefixSeq, PrefixOK DEF Retained
    <2>3. c # <<>> /\ d[1] = c[1]  BY <1>1, <2>1, <2>2, EmptySeq
    <2> HIDE DEF d
    <2>4. \A i \in 1..k : /\ CanonicalAt(c, i) <=> CanonicalAt(d, i)
                          /\ AppliesAt(c, i) <=> AppliesAt(d, i)
      <3>1. \A i \in 1..k : c[i] = d[i]  BY <2>2
      <3> QED  BY <2>1, <3>1, Agree
    <2>5. \A i \in 1..k : CanonicalAt(c, i)
      <3>1. \A i \in 1..k : i \in 1..(k - 1) \/ i = k  BY <2>1
      <3> QED  BY <1>2, <3>1 DEF Stuck, TornFrom, GoodTo
    <2>6. Begins(d)  BY <2>3 DEF Begins
    <2>7. GoodTo(d, k)  BY <2>2, <2>4, <2>5, <2>6 DEF NothingThrows
    <2>8. AppliesAt(c, k)  BY <2>1, <2>4, <2>7 DEF GoodTo
    <2> QED  BY <1>2, <2>8 DEF Stuck, TornFrom
  <1> QED  BY <1>2 DEF Retained, History

(* The numbers of a chain are an interval; the i-th is that of block i.    *)
LEMMA Interval ==
  ASSUME NEW a \in Nat, NEW n \in Nat, n >= 1, NEW D, D = a..(a + n - 1)
  PROVE  /\ Cardinality(D) = n
         /\ \A i \in 1..n : Nth(D, i) = a + i - 1
  <1>1. a \in Int /\ a + n - 1 \in Int  OBVIOUS
  <1>2. Cardinality(a..(a + n - 1)) = IF a > a + n - 1 THEN 0 ELSE (a + n - 1) - a + 1
    BY <1>1, FS_Interval
  <1>3. Cardinality(a..(a + n - 1)) = n  BY <1>2
  <1>4. ASSUME NEW x \in a..(a + n - 1) PROVE Cardinality({m \in D : m <= x}) = x - a + 1
    <2>1. x \in Int /\ a <= x  OBVIOUS
    <2>2. {m \in a..(a + n - 1) : m <= x} = a..x  BY <2>1
    <2>3. Cardinality(a..x) = IF a > x THEN 0 ELSE x - a + 1  BY <1>1, <2>1, FS_Interval
    <2>4. Cardinality(a..x) = x - a + 1  BY <2>1, <2>3
    <2> QED  BY <2>2, <2>4
  <1>5. ASSUME NEW i \in 1..n PROVE Nth(D, i) = a + i - 1
    <2> DEFINE P(x) == Cardinality({m \in D : m <= x}) = i
    <2>1. a + i - 1 \in a..(a + n - 1)  OBVIOUS
    <2>2. \A x \in a..(a + n - 1) : P(x) <=> x - a + 1 = i  BY <1>4
    <2>3. Nth(D, i) = CHOOSE x \in a..(a + n - 1) : P(x)  BY DEF Nth
    <2> HIDE DEF P
    <2>4. \A x \in a..(a + n - 1) : P(x) <=> x = a + i - 1  BY <2>2
    <2> QED  BY <2>1, <2>3, <2>4
  <1> QED  BY <1>3, <1>5

LEMMA NumbersOf ==
  ASSUME NEW c, ChainOK(c), NEW D, D = {Number[c[i].id] : i \in 1..Len(c)}
  PROVE  /\ Cardinality(D) = Len(c)
         /\ \A i \in 1..Len(c) : Nth(D, i) = Number[c[i].id]
  <1>1. Len(c) \in Nat /\ \A i \in 1..Len(c) : c[i] \in Envelope  BY ChainLen DEF ChainOK
  <1>2. CASE Len(c) = 0
    <2>1. D = {}  BY <1>2
    <2> QED  BY <1>2, <2>1, FS_EmptySet
  <1>3. CASE Len(c) # 0
    <2>1. PICK n : n = Len(c)  OBVIOUS
    <2>2. PICK a : a = Number[c[1].id]  OBVIOUS
    <2>3. n \in Nat /\ n >= 1 /\ 1 \in 1..n  BY <1>1, <1>3, <2>1
    <2>4. a \in Nat  BY <1>1, <2>1, <2>2, <2>3, BlockAssumption DEF BlockAssumption, Envelope
    <2>5. \A i \in 1..n : Number[c[i].id] = a + i - 1  BY <2>1, <2>2 DEF ChainOK, Heights
    <2>6. D = {a + i - 1 : i \in 1..n}  BY <2>1, <2>5
    <2>7. {a + i - 1 : i \in 1..n} = a..(a + n - 1)
      <3>1. \A x \in a..(a + n - 1) : x - a + 1 \in 1..n /\ x = a + (x - a + 1) - 1
        BY <2>3, <2>4
      <3>2. \A i \in 1..n : a + i - 1 \in a..(a + n - 1)  BY <2>3, <2>4
      <3> QED  BY <3>1, <3>2
    <2>8. D = a..(a + n - 1)  BY <2>6, <2>7
    <2> QED  BY <2>1, <2>3, <2>4, <2>5, <2>8, Interval
  <1> QED  BY <1>2, <1>3

LEMMA HoldsLoaded ==
  ASSUME NEW c, ChainOK(c), GoodTo(c, Len(c)), NEW rows, Holds(rows, c)
  PROVE  Restorable(Loaded(rows)) /\ Replayed(Loaded(rows)) = c
  <1> DEFINE n == Len(c)
             d == Loaded(rows)
  <1>1. c \in Seq(Envelope) /\ n \in Nat /\ \A i \in 1..n : c[i] \in Envelope
    BY ChainLen DEF ChainOK
  <1>2. Cardinality(DOMAIN rows) = n /\ \A i \in 1..n : Nth(DOMAIN rows, i) = Number[c[i].id]
    BY NumbersOf DEF Holds
  <1>3. d = [i \in 1..n |-> rows[Nth(DOMAIN rows, i)]]  BY <1>2 DEF Loaded
  <1>4. \A i \in 1..n : d[i] = rows[Number[c[i].id]]  BY <1>2, <1>3
  <1>5. \A i \in 1..n : /\ d[i] \in Envelope /\ d[i].id = c[i].id
                        /\ c[i].kept \subseteq d[i].kept
                        /\ d[i].kept \subseteq Range(Events[c[i].id])
    BY <1>4 DEF Holds
  <1>6. d \in Seq(Envelope) /\ Len(d) = n
    <2>1. d \in [1..n -> Envelope]  BY <1>3, <1>5
    <2> HIDE DEF d
    <2>2. d \in Seq(Envelope)  BY <1>1, <2>1, SeqDef
    <2> QED  BY <1>1, <2>1, <2>2, LenProperties
  <1> HIDE DEF d
  <1>7. \A m \in 0..n : KeptTo(d, m) = KeptTo(c, m)
    <2> SUFFICES ASSUME NEW m \in 0..n PROVE KeptTo(d, m) = KeptTo(c, m)  OBVIOUS
    <2>1. \A i \in 1..m : i \in 1..n  BY <1>1
    <2>2. KeptTo(c, m) \subseteq KeptTo(d, m)  BY <1>5, <2>1 DEF KeptTo
    <2>3. ASSUME NEW i \in 1..m PROVE d[i].kept \subseteq KeptTo(c, m)
      <3>1. c[i].kept = Range(Events[c[i].id]) \ KeptTo(c, i - 1)  BY <2>1, KeptAt DEF GoodTo
      <3>2. d[i].kept \subseteq c[i].kept \cup KeptTo(c, i - 1)  BY <1>5, <2>1, <3>1
      <3>3. \A j \in 1..(i - 1) : j \in 1..m  BY <1>1
      <3>4. KeptTo(c, i - 1) \subseteq KeptTo(c, m)  BY <3>3 DEF KeptTo
      <3>5. c[i].kept \subseteq KeptTo(c, m)  BY DEF KeptTo
      <3> QED  BY <3>2, <3>4, <3>5
    <2>4. KeptTo(d, m) \subseteq KeptTo(c, m)  BY <2>3 DEF KeptTo
    <2> QED  BY <2>2, <2>4
  <1>8. \A i \in 1..n : Replayed(d)[i] = c[i]
    <2> SUFFICES ASSUME NEW i \in 1..n PROVE Replayed(d)[i] = c[i]  OBVIOUS
    <2>1. i - 1 \in 0..n  BY <1>1
    <2>2. /\ Replayed(d)[i].id = c[i].id
          /\ Replayed(d)[i].kept = d[i].kept \ KeptTo(c, i - 1)
      BY <1>5, <1>6, <1>7, <2>1, ReplayedSeq
    <2>3. c[i].kept = Range(Events[c[i].id]) \ KeptTo(c, i - 1)  BY KeptAt DEF GoodTo
    <2>4. Replayed(d)[i].kept = c[i].kept  BY <1>5, <2>2, <2>3
    <2>5. Replayed(d)[i] \in Envelope /\ c[i] \in Envelope
      BY <1>1, <1>6, ReplayedSeq, ElementOfSeq
    <2> QED  BY <2>2, <2>4, <2>5 DEF Envelope
  <1>9. Replayed(d) = c
    <2>1. Replayed(d) \in Seq(Envelope) /\ Len(Replayed(d)) = n  BY <1>6, ReplayedSeq
    <2> QED  BY <1>1, <1>8, <2>1, SeqEqual
  <1>10. Linked(d)
    <2>1. n <= n  BY <1>1
    <2>2. ChainOK(d)  BY <1>5, <1>6, <2>1, SameBlocks
    <2> QED  BY <2>2, LinkedBlocks
  <1>11. Torn(c) = {}  BY <1>1, RebuiltWhole
  <1> QED  BY <1>9, <1>10, <1>11 DEF Restorable, d

LEMMA DistinctNumbers ==
  ASSUME NEW c, ChainOK(c), NEW i \in 1..Len(c), NEW j \in 1..Len(c),
         Number[c[i].id] = Number[c[j].id]
  PROVE  i = j
  <1>1. Len(c) \in Nat /\ \A m \in 1..Len(c) : c[m] \in Envelope  BY ChainLen DEF ChainOK
  <1>2. 1 \in 1..Len(c)  BY <1>1
  <1>3. Number[c[1].id] \in Nat  BY <1>1, <1>2, BlockAssumption DEF Envelope, BlockAssumption
  <1>4. Number[c[1].id] + i - 1 = Number[c[1].id] + j - 1  BY DEF ChainOK, Heights
  <1> QED  BY <1>1, <1>3, <1>4

(* save: the rows of a whole chain.                                        *)
LEMMA HoldsByNumber ==
  ASSUME NEW c, ChainOK(c), GoodTo(c, Len(c))
  PROVE  Holds(ByNumber(c), c)
  <1> DEFINE rows == ByNumber(c)
             at(m) == CHOOSE i \in 1..Len(c) : Number[c[i].id] = m
  <1>1. /\ Len(c) \in Nat /\ DOMAIN c = 1..Len(c)
        /\ \A i \in 1..Len(c) : c[i] \in Envelope
    BY ChainLen DEF ChainOK
  <1>2. rows = [m \in {Number[c[i].id] : i \in 1..Len(c)} |-> c[at(m)]]  BY <1>1 DEF ByNumber
  <1>3. \A i \in 1..Len(c) : at(Number[c[i].id]) = i  BY DistinctNumbers
  <1> HIDE DEF at
  <1>4. \A i \in 1..Len(c) : rows[Number[c[i].id]] = c[i]  BY <1>2, <1>3
  <1>5. \A i \in 1..Len(c) : c[i].kept \subseteq Range(Events[c[i].id])
    BY KeptAt DEF GoodTo
  <1> HIDE DEF rows
  <1>6. DOMAIN rows = {Number[c[i].id] : i \in 1..Len(c)}  BY <1>2
  <1> QED  BY <1>1, <1>4, <1>5, <1>6 DEF Holds, rows

(* append: the block as submitted, over rows with or without it.           *)
WithBlock(rows, b) ==
  [n \in DOMAIN rows \cup {Number[b]} |->
     IF n = Number[b] THEN [id |-> b, kept |-> Range(Events[b])] ELSE rows[n]]

LEMMA HoldsAppended ==
  ASSUME NEW c, ChainOK(c), GoodTo(c, Len(c)), Len(c) >= 1, NEW rows,
         Holds(rows, Prefix(c, Len(c) - 1)) \/ Holds(rows, c)
  PROVE  Holds(WithBlock(rows, c[Len(c)].id), c)
  <1> DEFINE n == Len(c)
             b == c[n].id
             front == Prefix(c, n - 1)
             new == WithBlock(rows, b)
  <1>1. /\ c \in Seq(Envelope) /\ n \in Nat /\ n \in 1..n
        /\ \A i \in 1..n : c[i] \in Envelope
    BY ChainLen DEF ChainOK
  <1>2. n - 1 \in 0..n /\ \A i \in 1..n : i \in 1..(n - 1) \/ i = n  BY <1>1
  <1>3. Len(front) = n - 1 /\ \A i \in 1..(n - 1) : front[i] = c[i]  BY <1>1, <1>2, PrefixSeq
  <1> HIDE DEF front
  <1>4. /\ DOMAIN rows \cup {Number[b]} = {Number[c[i].id] : i \in 1..n}
        /\ \A i \in 1..(n - 1) :
             LET row == rows[Number[c[i].id]] IN
             /\ row \in Envelope /\ row.id = c[i].id
             /\ c[i].kept \subseteq row.kept /\ row.kept \subseteq Range(Events[row.id])
    <2>1. \A i \in 1..(n - 1) : i \in 1..n  BY <1>1
    <2>2. CASE Holds(rows, c)
      <3>1. DOMAIN rows = {Number[c[i].id] : i \in 1..n}  BY <2>2 DEF Holds
      <3>2. Number[b] \in DOMAIN rows  BY <1>1, <3>1
      <3>3. DOMAIN rows \cup {Number[b]} = DOMAIN rows  BY <3>2
      <3> QED  BY <2>1, <2>2, <3>1, <3>3 DEF Holds
    <2>3. CASE Holds(rows, front)
      <3>0. DOMAIN rows = {Number[front[i].id] : i \in 1..(n - 1)}  BY <1>3, <2>3 DEF Holds
      <3>1. DOMAIN rows = {Number[c[i].id] : i \in 1..(n - 1)}  BY <1>3, <3>0
      <3>2. DOMAIN rows \cup {Number[b]} = {Number[c[i].id] : i \in 1..n}
        BY <1>1, <1>2, <2>1, <3>1
      <3> QED  BY <1>3, <2>3, <3>2 DEF Holds
    <2> QED  BY <2>2, <2>3 DEF front
  <1>5. b \in Blocks /\ Range(Events[b]) \subseteq EventIds
    <2>1. b \in Blocks  BY <1>1 DEF Envelope
    <2> QED  BY <2>1 DEF EventIds
  <1>6. c[n].kept \subseteq Range(Events[b])  BY <1>1, KeptAt DEF GoodTo
  <1>7. /\ DOMAIN new = {Number[c[i].id] : i \in 1..n}
        /\ \A i \in 1..(n - 1) : new[Number[c[i].id]] = rows[Number[c[i].id]]
        /\ new[Number[b]] = [id |-> b, kept |-> Range(Events[b])]
    <2>1. DOMAIN new = DOMAIN rows \cup {Number[b]}  BY DEF WithBlock
    <2>2. new[Number[b]] = [id |-> b, kept |-> Range(Events[b])]  BY DEF WithBlock
    <2>3. ASSUME NEW i \in 1..(n - 1) PROVE new[Number[c[i].id]] = rows[Number[c[i].id]]
      <3>1. i \in 1..n /\ i # n  BY <1>1
      <3>2. Number[c[i].id] # Number[b]  BY <1>1, <3>1, DistinctNumbers
      <3>3. Number[c[i].id] \in DOMAIN rows \cup {Number[b]}  BY <1>4, <3>1
      <3> QED  BY <3>2, <3>3 DEF WithBlock
    <2> QED  BY <1>4, <2>1, <2>2, <2>3
  <1> HIDE DEF new
  <1>8. ASSUME NEW i \in 1..n
        PROVE  LET row == new[Number[c[i].id]] IN
               /\ row \in Envelope /\ row.id = c[i].id
               /\ c[i].kept \subseteq row.kept /\ row.kept \subseteq Range(Events[row.id])
    <2>1. CASE i \in 1..(n - 1)  BY <1>4, <1>7, <2>1
    <2>2. CASE i = n
      <3> DEFINE row == [id |-> b, kept |-> Range(Events[b])]
      <3>1. row \in Envelope /\ row.id = b /\ row.kept = Range(Events[b])
        BY <1>5, <1>6 DEF Envelope
      <3>2. new[Number[c[i].id]] = row /\ c[i].id = b /\ c[i].kept \subseteq Range(Events[b])
        BY <1>5, <1>6, <1>7, <2>2
      <3> HIDE DEF row
      <3> QED  BY <3>1, <3>2
    <2> QED  BY <1>2, <2>1, <2>2
  <1> QED  BY <1>7, <1>8 DEF Holds, new

-----------------------------------------------------------------------------
(* Candles.                                                                *)

LEMMA CandleIs ==
  ASSUME NEW c \in Seq(Envelope), NEW p
  PROVE  /\ Candle(c, p) \in Candles
         /\ \A x : x \in Candle(c, p) <=>
              \E i \in 1..Len(c) : \E e \in c[i].kept : p \in PairsOf[e] /\ x = <<c[i].id, e>>
  <1>1. DOMAIN c = 1..Len(c) /\ \A i \in 1..Len(c) : c[i] \in Envelope  BY ChainLen
  <1>2. \A x : x \in Candle(c, p) <=>
          \E i \in 1..Len(c) : \E e \in c[i].kept : p \in PairsOf[e] /\ x = <<c[i].id, e>>
    BY <1>1 DEF Candle
  <1>3. \A i \in 1..Len(c) : \A e \in c[i].kept : <<c[i].id, e>> \in Blocks \X EventIds
    BY <1>1 DEF Envelope
  <1>4. Candle(c, p) \subseteq Blocks \X EventIds  BY <1>2, <1>3
  <1> QED  BY <1>2, <1>4 DEF Candles

LEMMA CandlesType ==
  ASSUME NEW c \in Seq(Envelope)
  PROVE  /\ CandlesOf(c) \in [Pairs -> Candles]
         /\ \A p \in Pairs : CandlesOf(c)[p] = Candle(c, p)
  BY CandleIs DEF CandlesOf

LEMMA NoCandle == CandlesOf(<<>>) = [p \in Pairs |-> {}]
  <1>1. DOMAIN <<>> = {}  OBVIOUS
  <1>2. \A p : Candle(<<>>, p) = {}  BY <1>1 DEF Candle
  <1> QED  BY <1>2 DEF CandlesOf

(* A block adds its events to the candles of the pairs it trades.          *)
LEMMA CandleGrows ==
  ASSUME NEW c \in Seq(Envelope), NEW env \in Envelope, NEW p \in Pairs
  PROVE  /\ Candle(c, p) \subseteq Candle(Append(c, env), p)
         /\ p \notin PairsIn(env) => Candle(c, p) = Candle(Append(c, env), p)
  <1> DEFINE d == Append(c, env)
  <1>1. /\ d \in Seq(Envelope) /\ Len(d) = Len(c) + 1 /\ Len(c) \in Nat
        /\ \A i \in 1..Len(c) : d[i] = c[i]
        /\ d[Len(c) + 1] = env
    BY AppendSeq, ChainLen
  <1> HIDE DEF d
  <1>2. \A i \in 1..Len(c) : i \in 1..Len(d)  BY <1>1
  <1>3. \A i \in 1..Len(d) : i \in 1..Len(c) \/ i = Len(c) + 1  BY <1>1
  <1>4. Candle(c, p) \subseteq Candle(d, p)
    <2> SUFFICES ASSUME NEW x \in Candle(c, p) PROVE x \in Candle(d, p)  OBVIOUS
    <2>1. PICK i \in 1..Len(c) : \E e \in c[i].kept : p \in PairsOf[e] /\ x = <<c[i].id, e>>
      BY CandleIs
    <2>2. i \in 1..Len(d) /\ d[i] = c[i]  BY <1>1, <1>2
    <2> QED  BY <1>1, <2>1, <2>2, CandleIs
  <1>5. ASSUME p \notin PairsIn(env) PROVE Candle(d, p) \subseteq Candle(c, p)
    <2> SUFFICES ASSUME NEW x \in Candle(d, p) PROVE x \in Candle(c, p)  OBVIOUS
    <2>1. PICK i \in 1..Len(d) : \E e \in d[i].kept : p \in PairsOf[e] /\ x = <<d[i].id, e>>
      BY <1>1, CandleIs
    <2>2. i # Len(c) + 1
      <3>1. \A f \in env.kept : p \notin PairsOf[f]  BY <1>5 DEF PairsIn
      <3> QED  BY <1>1, <2>1, <3>1
    <2>3. i \in 1..Len(c) /\ d[i] = c[i]  BY <1>1, <1>3, <2>2
    <2> QED  BY <2>1, <2>3, CandleIs
  <1> QED  BY <1>4, <1>5 DEF d

LEMMA PairsInType ==
  ASSUME NEW env \in Envelope
  PROVE  PairsIn(env) \subseteq Pairs
  BY ServiceAssumption DEF ServiceAssumption, PairsIn, Envelope

(* A candle that contains another is not of a lower revision.              *)
LEMMA CandleOrder ==
  ASSUME NEW x \in Candles, NEW y \in Candles, x \subseteq y
  PROVE  Cardinality(y) >= Cardinality(x)
  <1>1. IsFiniteSet(Blocks \X EventIds)  BY ServiceAssumption, FS_Product DEF ServiceAssumption
  <1>2. y \in SUBSET (Blocks \X EventIds)  BY DEF Candles
  <1>3. IsFiniteSet(y)  BY <1>1, <1>2, FS_Subset
  <1>4. IsFiniteSet(x) /\ Cardinality(x) <= Cardinality(y)  BY <1>3, FS_Subset
  <1>5. Cardinality(x) \in Nat /\ Cardinality(y) \in Nat  BY <1>3, <1>4, FS_CardinalityType
  <1> QED  BY <1>4, <1>5

-----------------------------------------------------------------------------
(* Change events.                                                          *)

LEMMA SetSeq ==
  ASSUME NEW S, IsFiniteSet(S)
  PROVE  /\ SetToSeq(S) \in Seq(S)
         /\ \A i, j \in 1..Len(SetToSeq(S)) : SetToSeq(S)[i] = SetToSeq(S)[j] => i = j
         /\ \A x \in S : \E i \in 1..Len(SetToSeq(S)) : SetToSeq(S)[i] = x
  <1> DEFINE n == Cardinality(S)
             f == SetToSeq(S)
  <1>1. n \in Nat /\ ExistsBijection(1..n, S)  BY FS_CardinalityType
  <1>2. f \in [1..n -> S] /\ IsInjective(f)
    <2>1. \E g \in [1..n -> S] : IsInjective(g)
      BY <1>1 DEF ExistsBijection, Bijection, Injection
    <2> QED  BY <2>1 DEF SetToSeq
  <1> HIDE DEF f
  <1>3. f \in Surjection(1..n, S)
    <2>1. f \in Injection(1..n, S)  BY <1>2 DEF Injection
    <2>2. Cardinality(1..n) = n
      <3>1. Cardinality(1..n) = IF 1 > n THEN 0 ELSE n - 1 + 1  BY <1>1, FS_Interval
      <3> QED  BY <1>1, <3>1
    <2> QED  BY <2>1, <2>2, FS_Injection
  <1>4. \A x \in S : \E i \in 1..n : f[i] = x  BY <1>3 DEF Surjection
  <1>5. f \in Seq(S) /\ Len(f) = n
    <2>1. f \in Seq(S)  BY <1>1, <1>2, SeqDef
    <2> QED  BY <1>1, <1>2, <2>1, LenProperties
  <1> QED  BY <1>2, <1>4, <1>5 DEF IsInjective, f

LEMMA ChangesTell ==
  ASSUME NEW chain \in Seq(Envelope), NEW pairs \in SUBSET Pairs,
         snapshot \in [Pairs -> Candles],
         \A p \in Pairs : snapshot[p] \subseteq Candle(chain, p),
         \A p \in Pairs \ pairs : snapshot[p] = Candle(chain, p)
  PROVE  Changes(ChangeEvents(pairs, chain), snapshot, CandlesOf(chain))
  <1> DEFINE D == {q \in pairs : Candle(chain, q) # snapshot[q]}
             of(p) == [topic |-> p, candle |-> Candle(chain, p)]
             S == {of(p) : p \in D}
             f == [p \in D |-> of(p)]
             E == ChangeEvents(pairs, chain)
  <1>1. E = SetToSeq(S)  BY DEF ChangeEvents
  <1>2. IsFiniteSet(S)
    <2>1. D \in SUBSET Pairs /\ IsFiniteSet(Pairs)  BY ServiceAssumption DEF ServiceAssumption
    <2>2. IsFiniteSet(D)  BY <2>1, FS_Subset
    <2>3. f \in Surjection(D, S)  BY DEF Surjection
    <2> QED  BY <2>2, <2>3, FS_Surjection
  <1>3. S \subseteq Event  BY CandleIs DEF Event
  <1>4. \A s \in S : s.topic \in D /\ s = of(s.topic)  OBVIOUS
  <1>5. \A p \in D : of(p) \in S /\ of(p).topic = p  OBVIOUS
  <1>6. \A p \in D : p \in Pairs /\ of(p).candle = CandlesOf(chain)[p]  BY CandlesType
  <1>7. \A p \in Pairs : p \in D <=> snapshot[p] # CandlesOf(chain)[p]  BY CandlesType
  <1> HIDE DEF S, D, of, E
  <1>8. /\ E \in Seq(S)
        /\ \A i, j \in 1..Len(E) : E[i] = E[j] => i = j
        /\ \A x \in S : \E i \in 1..Len(E) : E[i] = x
    BY <1>1, <1>2, SetSeq
  <1>9. \A i \in 1..Len(E) : E[i] \in S  BY <1>8, ElementOfSeq
  <1>10. \A i \in 1..Len(E) : E[i].topic \in Pairs /\ E[i].candle = CandlesOf(chain)[E[i].topic]
    BY <1>4, <1>6, <1>9
  <1>11. ASSUME NEW i \in 1..Len(E), NEW j \in 1..Len(E), E[i].topic = E[j].topic PROVE i = j
    <2>1. E[i] = of(E[i].topic) /\ E[j] = of(E[j].topic)  BY <1>4, <1>9
    <2>2. E[i] = E[j]  BY <1>11, <2>1 DEF of
    <2> QED  BY <1>8, <2>2
  <1>12. \A p \in Pairs : snapshot[p] # CandlesOf(chain)[p]
                            <=> \E i \in 1..Len(E) : E[i].topic = p
    BY <1>4, <1>5, <1>7, <1>8, <1>9
  <1>13. E \in Seq(Event)  BY <1>3, <1>8
  <1>14. \A p \in Pairs : snapshot[p] \subseteq CandlesOf(chain)[p]  BY CandlesType
  <1> QED  BY <1>10, <1>11, <1>12, <1>13, <1>14 DEF Changes, E

-----------------------------------------------------------------------------
(* Logs and their readers.                                                 *)

LEMMA Joined ==
  ASSUME NEW L \in Seq(Event), NEW E \in Seq(Event)
  PROVE  /\ L \o E \in Seq(Event) /\ Len(L \o E) = Len(L) + Len(E)
         /\ Len(L) \in Nat /\ Len(E) \in Nat
         /\ \A i \in 1..Len(L) : (L \o E)[i] = L[i]
         /\ \A i \in 1..Len(E) : (L \o E)[Len(L) + i] = E[i]
         /\ \A i \in 1..Len(L \o E) : i \in 1..Len(L) \/ i - Len(L) \in 1..Len(E)
  <1>1. Len(L) \in Nat /\ Len(E) \in Nat  BY LenProperties
  <1>2. /\ L \o E \in Seq(Event) /\ Len(L \o E) = Len(L) + Len(E)
        /\ \A i \in 1..Len(L) + Len(E) :
             (L \o E)[i] = IF i <= Len(L) THEN L[i] ELSE E[i - Len(L)]
    BY ConcatProperties
  <1>3. \A i \in 1..Len(L) : i <= Len(L) /\ i \in 1..Len(L) + Len(E)  BY <1>1
  <1>4. \A i \in 1..Len(E) : /\ Len(L) + i \in 1..Len(L) + Len(E) /\ ~(Len(L) + i <= Len(L))
                             /\ Len(L) + i - Len(L) = i
    BY <1>1
  <1>5. \A i \in 1..Len(L) + Len(E) : i \in 1..Len(L) \/ i - Len(L) \in 1..Len(E)  BY <1>1
  <1> QED  BY <1>1, <1>2, <1>3, <1>4, <1>5

LEMMA TellType ==
  ASSUME NEW E, NEW C, NEW D, Tell(E, C, D)
  PROVE  E \in Seq(Event)
  <1>1. ResetEvent \in Event  BY DEF ResetEvent, Event
  <1>2. <<ResetEvent>> \in Seq(Event)  BY <1>1
  <1> QED  BY <1>2 DEF Tell, Changes

(* What follows the old log up to C follows the longer one up to D.        *)
LEMMA FollowGrows ==
  ASSUME NEW L \in Seq(Event), NEW E, NEW C, NEW D \in [Pairs -> Candles], Tell(E, C, D),
         NEW p \in Pairs, NEW c \in 0..Len(L), NEW x, Follow(L, C, c, p, x)
  PROVE  Follow(L \o E, D, c, p, x)
  <1> DEFINE M == L \o E
             n == Len(L)
  <1>1. /\ E \in Seq(Event) /\ M \in Seq(Event) /\ Len(M) = n + Len(E)
        /\ n \in Nat /\ Len(E) \in Nat
        /\ \A i \in 1..n : M[i] = L[i]
        /\ \A i \in 1..Len(E) : M[n + i] = E[i]
        /\ \A i \in 1..Len(M) : i \in 1..n \/ i - n \in 1..Len(E)
    BY TellType, Joined
  <1>2. Reset \notin Pairs  BY ServiceAssumption DEF ServiceAssumption
  <1> HIDE DEF M
  <1>3. \A i \in Ahead(L, c, p) : i \in Ahead(M, c, p) /\ i \in 1..n  BY <1>1 DEF Ahead
  <1>4. \A i \in Ahead(M, c, p) : i \in 1..n => i \in Ahead(L, c, p) /\ M[i] = L[i]
    BY <1>1 DEF Ahead
  <1>5. \A i \in 1..Len(E) : E[i].topic \in {p, Reset} => n + i \in Ahead(M, c, p)
    BY <1>1 DEF Ahead
  <1>6. \A i \in Ahead(M, c, p) : i \in 1..Len(M)  BY DEF Ahead
  <1>7. CASE E = <<ResetEvent>>
    <2>1. Len(E) = 1 /\ 1 \in 1..Len(E) /\ E[1].topic = Reset  BY <1>7 DEF ResetEvent
    <2>2. n + 1 \in Ahead(M, c, p) /\ M[n + 1].topic = Reset  BY <1>1, <1>5, <2>1
    <2>3. Reset # p  BY <1>2
    <2>4. Ahead(M, c, p) # {} /\ ~(\A i \in Ahead(M, c, p) : M[i].topic = p)  BY <2>2, <2>3
    <2>5. ASSUME NEW i \in Ahead(M, c, p), \A j \in Ahead(M, c, p) : j <= i => M[j].topic = p
          PROVE  M[i].candle \in Candles /\ x \subseteq M[i].candle
      <3>1. i \in 1..n
        <4>1. i \in 1..Len(M) /\ Len(M) = n + 1  BY <1>1, <1>6, <2>1
        <4>2. i # n + 1
          <5>1. SUFFICES ASSUME i = n + 1 PROVE FALSE  OBVIOUS
          <5>2. i <= i  BY <4>1
          <5> QED  BY <2>2, <2>3, <2>5, <5>1, <5>2
        <4> QED  BY <1>1, <4>1, <4>2
      <3>2. i \in Ahead(L, c, p) /\ M[i] = L[i]  BY <1>4, <3>1
      <3>3. \A j \in Ahead(L, c, p) : j <= i => L[j].topic = p  BY <1>1, <1>3, <2>5
      <3> QED  BY <3>2, <3>3 DEF Follow
    <2> QED  BY <2>4, <2>5 DEF Follow, M
  <1>8. CASE Changes(E, C, D)
    <2>1. \A i \in 1..Len(E) : E[i].topic \in Pairs /\ E[i].candle = D[E[i].topic]
      BY <1>8 DEF Changes
    <2>2. C[p] # D[p] <=> \E i \in 1..Len(E) : E[i].topic = p  BY <1>8 DEF Changes
    <2>3. C[p] \subseteq D[p] /\ D[p] \in Candles  BY <1>8 DEF Changes
    <2>4. Ahead(M, c, p) = {} => x = D[p]
      <3> SUFFICES ASSUME Ahead(M, c, p) = {} PROVE x = D[p]  OBVIOUS
      <3>1. Ahead(L, c, p) = {}  BY <1>3
      <3>2. ~\E i \in 1..Len(E) : E[i].topic = p  BY <1>5
      <3> QED  BY <2>2, <3>1, <3>2 DEF Follow
    <2>5. ASSUME \A i \in Ahead(M, c, p) : i \in 1..n => M[i].topic = p
          PROVE  x \subseteq C[p]
      <3>1. \A i \in Ahead(L, c, p) : L[i].topic = p  BY <1>1, <1>3, <2>5
      <3> QED  BY <3>1 DEF Follow
    <2>6. ASSUME NEW i \in Ahead(M, c, p), \A j \in Ahead(M, c, p) : j <= i => M[j].topic = p
          PROVE  M[i].candle \in Candles /\ x \subseteq M[i].candle
      <3>1. CASE i \in 1..n
        <4>1. i \in Ahead(L, c, p) /\ M[i] = L[i]  BY <1>4, <3>1
        <4>2. \A j \in Ahead(L, c, p) : j <= i => L[j].topic = p  BY <1>1, <1>3, <2>6
        <4> QED  BY <4>1, <4>2 DEF Follow
      <3>2. CASE i - n \in 1..Len(E)
        <4>1. i \in Nat /\ i <= i /\ n + (i - n) = i  BY <1>1, <1>6
        <4>2. M[i] = E[i - n] /\ M[i].topic = p  BY <1>1, <2>6, <3>2, <4>1
        <4>3. M[i].candle = D[p]  BY <2>1, <3>2, <4>2
        <4>4. \A j \in 1..n : j <= i  BY <1>1, <3>2, <4>1
        <4>5. x \subseteq C[p]  BY <2>5, <2>6, <4>4
        <4> QED  BY <2>3, <4>3, <4>5
      <3> QED  BY <1>1, <1>6, <3>1, <3>2
    <2> QED  BY <2>3, <2>4, <2>5, <2>6 DEF Follow, M
  <1> QED  BY <1>7, <1>8 DEF Tell

LEMMA LogGrows ==
  ASSUME NEW L \in Seq(Event), NEW E, NEW C, NEW D \in [Pairs -> Candles], Tell(E, C, D),
         LogTells(L, C)
  PROVE  LogTells(L \o E, D)
  <1> DEFINE M == L \o E
             n == Len(L)
  <1>1. /\ E \in Seq(Event) /\ Len(M) = n + Len(E) /\ n \in Nat /\ Len(E) \in Nat
        /\ \A i \in 1..n : M[i] = L[i]
        /\ \A i \in 1..Len(E) : M[n + i] = E[i]
        /\ \A i \in 1..Len(M) : i \in 1..n \/ i - n \in 1..Len(E)
    BY TellType, Joined
  <1>2. Reset \notin Pairs  BY ServiceAssumption DEF ServiceAssumption
  <1> HIDE DEF M
  <1> SUFFICES ASSUME NEW i \in 1..Len(M), NEW p \in Pairs, M[i].topic = p
               PROVE  Follow(M, D, i, p, M[i].candle)
    BY DEF LogTells, M
  <1>3. CASE i \in 1..n
    <2>1. i \in 0..n /\ M[i] = L[i]  BY <1>1, <1>3
    <2>2. Follow(L, C, i, p, M[i].candle)  BY <1>3, <2>1 DEF LogTells
    <2> QED  BY <2>1, <2>2, FollowGrows DEF M
  <1>4. CASE i - n \in 1..Len(E)
    <2> DEFINE k == i - n
    <2>1. i \in Nat /\ n + k = i  BY <1>1
    <2>2. E[k] = M[i]  BY <1>1, <1>4, <2>1
    <2>3. Changes(E, C, D)
      <3>1. SUFFICES ASSUME E = <<ResetEvent>> PROVE FALSE  BY DEF Tell
      <3>2. Len(E) = 1 /\ E[1].topic = Reset  BY <3>1 DEF ResetEvent
      <3>3. k = 1  BY <1>1, <1>4, <2>1, <3>2
      <3> QED  BY <1>2, <2>2, <3>2, <3>3
    <2>4. \A j \in 1..Len(E) : E[j].topic \in {p, Reset} => j = k
      <3>1. \A j \in 1..Len(E) : E[j].topic \in Pairs  BY <2>3 DEF Changes
      <3>2. \A j \in 1..Len(E) : E[j].topic = E[k].topic => j = k  BY <1>4, <2>3 DEF Changes
      <3> QED  BY <1>2, <2>2, <3>1, <3>2
    <2>5. Ahead(M, i, p) = {}
      <3> SUFFICES ASSUME NEW j \in 1..Len(M), j > i, M[j].topic \in {p, Reset} PROVE FALSE
        BY DEF Ahead
      <3>1. j - n \in 1..Len(E) /\ n + (j - n) = j  BY <1>1, <1>4, <2>1
      <3>2. E[j - n].topic \in {p, Reset}  BY <1>1, <3>1
      <3>3. j - n = k  BY <2>4, <3>1, <3>2
      <3> QED  BY <1>1, <2>1, <3>3
    <2>6. M[i].candle = D[p]  BY <1>4, <2>2, <2>3 DEF Changes
    <2>7. D[p] \subseteq D[p]  OBVIOUS
    <2> HIDE DEF k
    <2> QED  BY <2>5, <2>6, <2>7 DEF Follow
  <1> QED  BY <1>1, <1>3, <1>4

-----------------------------------------------------------------------------
(* The engine's steps, when nothing throws.                                *)

LEMMA EngineTypes ==
  ASSUME EngineOK
  PROVE  /\ blocks \in Seq(Envelope) /\ Len(blocks) \in Nat /\ ChainOK(blocks)
         /\ views = blocks /\ GoodTo(blocks, Len(blocks))
         /\ eventIndex = Identities(blocks)
         /\ blocks # <<>> =>
              /\ 1 \in 1..Len(blocks) /\ Len(blocks) \in 1..Len(blocks)
              /\ Last(blocks) = blocks[Len(blocks)] /\ Last(blocks).id \in Blocks
  <1>1. blocks \in Seq(Envelope) /\ Len(blocks) \in Nat
    BY ChainLen DEF EngineOK, Retained, ChainOK
  <1>2. ASSUME blocks # <<>>
        PROVE  /\ 1 \in 1..Len(blocks) /\ Len(blocks) \in 1..Len(blocks)
               /\ Last(blocks) = blocks[Len(blocks)] /\ Last(blocks).id \in Blocks
    <2>1. Len(blocks) # 0  BY <1>1, <1>2, EmptySeq
    <2>2. 1 \in 1..Len(blocks) /\ Len(blocks) \in 1..Len(blocks)  BY <1>1, <2>1
    <2>3. blocks[Len(blocks)] \in Envelope  BY <1>1, <2>2, ElementOfSeq
    <2> QED  BY <2>2, <2>3 DEF Last, Envelope
  <1> QED  BY <1>1, <1>2 DEF EngineOK, Retained, Sound

LEMMA Offers ==
  ASSUME NEW b \in Offered
  PROVE  b \in Blocks /\ (blocks = <<>> => b \in Start)
  BY BlockAssumption DEF BlockAssumption, Offered

LEMMA AdvancedType ==
  ASSUME EngineOK, NEW b \in Blocks
  PROVE  Advanced(b) \in {-1} \cup Range(Time)
  BY TimeType DEF Advanced, EngineOK

LEMMA AppendedGood ==
  ASSUME NothingThrows, EngineOK, NEW b \in Offered, Appended(b)
  PROVE  /\ EngineOK' /\ blocks' # <<>> /\ Last(blocks').id = b
         /\ Prefix(blocks', Len(blocks') - 1) = blocks
         /\ \E env \in Envelope : blocks' = Append(blocks, env)
         /\ coverageThrough' = Advanced(b) /\ UNCHANGED <<reorgCount, backfillStatus>>
  <1> DEFINE env == Canonical(b, eventIndex)
             done == Applied(Identities(views), env)
             n == Len(blocks)
  <1>1. b \in Blocks /\ (blocks = <<>> => b \in Start)  BY Offers
  <1>2. /\ blocks' = Append(blocks, env) /\ views' = Append(views, done)
        /\ coverageThrough' = IF done = env THEN Advanced(b) ELSE coverageThrough
        /\ UNCHANGED <<reorgCount, backfillStatus>>
    BY DEF Appended
  <1>3. env \in Envelope /\ env.id = b  BY <1>1, CanonicalType
  <1>4. done \in Envelope  BY <1>3, AppliedType
  <1> HIDE DEF env, done
  <1>5. /\ blocks \in Seq(Envelope) /\ n \in Nat /\ views = blocks
        /\ blocks # <<>> => 1 \in 1..n
    BY EngineTypes
  <1>6. /\ blocks' \in Seq(Envelope) /\ Len(blocks') = n + 1 /\ blocks' # <<>>
        /\ \A i \in 1..n : blocks'[i] = blocks[i]
        /\ blocks'[n + 1] = env /\ Last(blocks') = env
    BY <1>2, <1>3, <1>5, AppendSeq
  <1>7. Retained(blocks', views', eventIndex')  BY <1>1, AppendedStep DEF EngineOK
  <1>8. Begins(blocks')
    <2>1. CASE blocks = <<>>
      <3>1. n = 0  BY <1>5, <2>1, EmptySeq
      <3> QED  BY <1>1, <1>3, <1>6, <2>1, <3>1 DEF Begins
    <2>2. CASE blocks # <<>>
      <3>1. blocks'[1] = blocks[1]  BY <1>5, <1>6, <2>2
      <3> QED  BY <2>2, <3>1 DEF EngineOK, Begins
    <2> QED  BY <2>1, <2>2
  <1>9. Sound(blocks', views', eventIndex')  BY <1>7, <1>8, SoundRetained
  <1>10. done = env
    <2>1. views'[n + 1] = done  BY <1>2, <1>4, <1>5, AppendSeq
    <2> QED  BY <1>6, <1>9, <2>1 DEF Sound
  <1>11. coverageThrough' = Advanced(b)  BY <1>2, <1>10
  <1>12. EngineOK'
    BY <1>1, <1>2, <1>7, <1>8, <1>9, <1>11, AdvancedType DEF EngineOK
  <1>13. Prefix(blocks', Len(blocks') - 1) = blocks
    <2>1. Len(blocks') - 1 = n /\ n \in 0..Len(blocks')  BY <1>5, <1>6
    <2>2. /\ Prefix(blocks', n) \in Seq(Envelope) /\ Len(Prefix(blocks', n)) = n
          /\ \A i \in 1..n : Prefix(blocks', n)[i] = blocks'[i]
      BY <1>6, <2>1, PrefixSeq
    <2>3. \A i \in 1..n : Prefix(blocks', n)[i] = blocks[i]  BY <1>6, <2>2
    <2> QED  BY <1>5, <2>1, <2>2, <2>3, SeqEqual
  <1> QED  BY <1>2, <1>3, <1>6, <1>11, <1>12, <1>13

(* A reorg or a rewind keeps the first block and ends at b.                *)
LEMMA ReplacedGood ==
  ASSUME NothingThrows, EngineOK, NEW b \in Offered, Reorged(b) \/ Rewound(b)
  PROVE  /\ EngineOK' /\ blocks' # <<>> /\ Last(blocks').id = b
         /\ reorgCount' = reorgCount + 1 /\ reorgCount \in Nat
         /\ Reorged(b) => coverageThrough' = Advanced(b)
         /\ Rewound(b) => coverageThrough' = IF Time[b] < coverageThrough THEN Time[b]
                                             ELSE coverageThrough
         /\ UNCHANGED backfillStatus
  <1>1. b \in Blocks  BY Offers
  <1>2. reorgCount' = reorgCount + 1 /\ reorgCount < MaxReorgs /\ UNCHANGED backfillStatus
    BY DEF Reorged, Rewound
  <1>3. reorgCount \in Nat /\ reorgCount' \in 0..MaxReorgs
    BY <1>2, ReorgBound DEF EngineOK, ReorgBound
  <1>4. blocks \in Seq(Envelope) /\ Len(blocks) \in Nat  BY EngineTypes
  <1>5. Retained(blocks', views', eventIndex')
    BY <1>1, ReorgedStep, RewoundStep DEF EngineOK
  <1>6. blocks' \in Seq(Envelope) /\ Len(blocks') \in Nat  BY <1>5, ChainLen DEF Retained, ChainOK
  <1>7. /\ blocks' # <<>> /\ Last(blocks').id = b /\ blocks # <<>> /\ blocks'[1] = blocks[1]
    <2>1. CASE Reorged(b)
      <3> DEFINE n == IndexOf(blocks, Parent[b])
                 stem == Prefix(blocks, n)
                 env == Canonical(b, Identities(stem))
      <3>1. blocks' = Append(stem, env) /\ RetainedIn(blocks, Parent[b])
        BY <2>1 DEF Reorged, Forks
      <3>2. n \in 1..Len(blocks)  BY <1>4, <3>1, IndexFound
      <3>3. n \in 0..Len(blocks) /\ 1 \in 1..n /\ 1 \in 1..Len(blocks)  BY <1>4, <3>2
      <3> HIDE DEF n
      <3>4. stem \in Seq(Envelope) /\ Len(stem) = n /\ stem[1] = blocks[1]
        BY <1>4, <3>3, PrefixSeq
      <3>5. env \in Envelope /\ env.id = b  BY <1>1, CanonicalType
      <3> HIDE DEF stem, env
      <3>6. /\ Append(stem, env)[1] = stem[1] /\ Append(stem, env) # <<>>
            /\ Last(Append(stem, env)) = env
        BY <3>3, <3>4, <3>5, AppendSeq
      <3>7. blocks # <<>>  BY <1>4, <3>3, EmptySeq
      <3> QED  BY <3>1, <3>4, <3>5, <3>6, <3>7
    <2>2. CASE Rewound(b)
      <3> DEFINE n == IndexOf(blocks, b)
      <3>1. blocks' = Prefix(blocks, n) /\ RetainedIn(blocks, b)  BY <2>2 DEF Rewound
      <3>2. n \in 1..Len(blocks) /\ blocks[n].id = b  BY <1>4, <3>1, IndexFound
      <3>3. n \in 0..Len(blocks) /\ 1 \in 1..n /\ n \in 1..n /\ 1 \in 1..Len(blocks)
        BY <1>4, <3>2
      <3> HIDE DEF n
      <3>4. Len(blocks') = n /\ blocks'[1] = blocks[1] /\ blocks'[n] = blocks[n]
        BY <1>4, <3>1, <3>3, PrefixSeq
      <3>5. blocks' # <<>> /\ blocks # <<>>  BY <1>4, <1>6, <3>3, <3>4, EmptySeq
      <3> QED  BY <3>2, <3>4, <3>5 DEF Last
    <2> QED  BY <2>1, <2>2
  <1>8. Begins(blocks')  BY <1>7 DEF EngineOK, Begins
  <1>9. Sound(blocks', views', eventIndex')  BY <1>5, <1>8, SoundRetained
  <1>10. views' = blocks'  BY <1>9 DEF Sound
  <1>11. /\ Reorged(b) => coverageThrough' = Advanced(b)
         /\ Rewound(b) => coverageThrough' = IF Time[b] < coverageThrough THEN Time[b]
                                             ELSE coverageThrough
    BY <1>10 DEF Reorged, Rewound
  <1>12. coverageThrough' \in {-1} \cup Range(Time)
    <2>1. Time[b] \in Range(Time)  BY <1>1, TimeType
    <2>2. coverageThrough \in {-1} \cup Range(Time)  BY DEF EngineOK
    <2>3. Advanced(b) \in {-1} \cup Range(Time)  BY <1>1, AdvancedType
    <2> QED  BY <1>11, <2>1, <2>2, <2>3
  <1>13. EngineOK'  BY <1>2, <1>3, <1>5, <1>8, <1>9, <1>12 DEF EngineOK
  <1> QED  BY <1>2, <1>3, <1>7, <1>11, <1>13

(* Restart: the engine of a durable state.                                 *)
LEMMA RestoredGood ==
  ASSUME NEW d, Durable(d), Restorable(Loaded(d.rows)),
         RestoreCheckpoint(Loaded(d.rows), d.reorgs, "running", d.coverage)
  PROVE  EngineOK' /\ blocks' = Held(d)
  <1>1. /\ blocks' = Held(d) /\ views' = blocks' /\ eventIndex' = Identities(blocks')
        /\ reorgCount' = d.reorgs /\ backfillStatus' = "running" /\ coverageThrough' = d.coverage
    BY DEF RestoreCheckpoint, Held
  <1>2. ChainOK(blocks') /\ GoodTo(blocks', Len(blocks')) /\ Begins(blocks')
    BY <1>1 DEF Durable
  <1>3. Sound(blocks', views', eventIndex')  BY <1>1, <1>2 DEF Sound
  <1>4. eventIndex' \subseteq EventIds /\ views' \in Seq(Envelope)
    BY <1>1, <1>2, IdentitiesType DEF ChainOK
  <1>5. Retained(blocks', views', eventIndex')
    BY <1>2, <1>3, <1>4 DEF Retained, History
  <1> QED  BY <1>1, <1>2, <1>3, <1>5 DEF EngineOK, Durable

-----------------------------------------------------------------------------
(* Commits.                                                                *)

LEMMA CommitIs ==
  ASSUME ServiceInv, flushing # "idle"
  PROVE  /\ phase \in {"serving", "backfill"}
         /\ phase = "serving" => Commit = pending /\ Mutation /\ pending \in Pending
         /\ phase = "backfill" => Commit.full
         /\ Commit.full \in BOOLEAN
         /\ Tell(Commit.events, snapshot, CandlesOf(blocks))
         /\ ~Commit.full => Changes(Commit.events, snapshot, CandlesOf(blocks))
         /\ Commit.events \in Seq(Event)
  <1>1. phase \in {"serving", "backfill"}  BY DEF ServiceInv, Shape
  <1>2. CASE phase = "serving"
    <2>1. pending # None /\ Commit = pending /\ pending \in Pending
      BY <1>2 DEF ServiceInv, Shape, Commit
    <2>2. Mutation  BY <1>2, <2>1 DEF ServiceInv, Flush
    <2>3. Commit.full \in BOOLEAN /\ Commit.events \in Seq(Event)  BY <2>1 DEF Pending
    <2> QED  BY <1>2, <2>1, <2>2, <2>3 DEF Mutation, Tell
  <1>3. CASE phase = "backfill"
    <2> DEFINE E == IF loading.reset THEN <<ResetEvent>> ELSE ChangeEvents(Pairs, views)
    <2>1. Commit.full = TRUE /\ Commit.events = E  BY <1>3 DEF Commit
    <2>2. Loads  BY <1>3 DEF ServiceInv, Flush
    <2>3. blocks \in Seq(Envelope) /\ views = blocks  BY EngineTypes DEF ServiceInv
    <2>4. snapshot \in [Pairs -> Candles]  BY DEF ServiceInv, Shape
    <2>5. ~loading.reset => Changes(ChangeEvents(Pairs, views), snapshot, CandlesOf(blocks))
      BY <2>2, <2>3, <2>4, ChangesTell DEF Loads
    <2>6. Tell(E, snapshot, CandlesOf(blocks))  BY <2>5 DEF Tell
    <2>7. Tell(Commit.events, snapshot, CandlesOf(blocks))  BY <2>1, <2>6
    <2>8. Commit.events \in Seq(Event)  BY <2>7, TellType
    <2> QED  BY <1>3, <2>1, <2>7, <2>8
  <1> QED  BY <1>1, <1>2, <1>3

LEMMA NoConflict ==
  ASSUME ServiceInv, flushing = "storing"
  PROVE  ~Conflicts(Commit.events)
  <1> DEFINE E == Commit.events
  <1>1. E \in Seq(Event) /\ log \in Seq(Event) /\ db.log \in Seq(Event)
    BY CommitIs DEF ServiceInv, Shape, Durable
  <1>2. db.log = log \/ db.log = log \o E \/ db.log = <<>>
    <2>1. CASE DurableLog /\ phase = "serving"
      <3>1. Mutation /\ Commit = pending  BY <2>1, CommitIs
      <3> QED  BY <2>1, <3>1 DEF Mutation, Old, New
    <2>2. CASE DurableLog /\ phase = "backfill"
      <3>1. Loads  BY <2>2 DEF ServiceInv, Flush
      <3> QED  BY <2>2, <3>1 DEF Loads, Old
    <2>3. CASE ~DurableLog  BY <2>3 DEF ServiceInv, Durable
    <2> QED  BY <2>1, <2>2, <2>3, CommitIs
  <1> HIDE DEF E
  <1>3. /\ Len(log) \in Nat /\ Len(E) \in Nat /\ DOMAIN E = 1..Len(E)
        /\ \A i \in 1..Len(E) : (log \o E)[Len(log) + i] = E[i]
    <2>1. DOMAIN E = 1..Len(E)  BY <1>1, LenProperties
    <2> QED  BY <1>1, <2>1, Joined
  <1>4. ASSUME NEW i \in 1..Len(E), Len(log) + i <= Len(db.log)
        PROVE  db.log[Len(log) + i] = E[i]
    <2>1. ~(Len(log) + i <= Len(log)) /\ ~(Len(log) + i <= 0)  BY <1>3
    <2>2. db.log # log /\ db.log # <<>>
      <3>1. Len(<<>>) = 0  OBVIOUS
      <3> QED  BY <1>4, <2>1, <3>1
    <2> QED  BY <1>2, <1>3, <2>2
  <1> QED  BY <1>3, <1>4 DEF Conflicts, E

LEMMA NewIsDurable ==
  ASSUME EngineOK, NEW d, NEW E, New(d, E), d.log \in Seq(Event), ~DurableLog => d.log = <<>>
  PROVE  Durable(d) /\ Held(d) = blocks
  <1>1. ChainOK(blocks) /\ GoodTo(blocks, Len(blocks)) /\ Begins(blocks)
    BY EngineTypes DEF EngineOK
  <1>2. Held(d) = blocks  BY <1>1, HoldsLoaded DEF New, Held
  <1> QED  BY <1>1, <1>2 DEF Durable, New, EngineOK

LEMMA WrittenNew ==
  ASSUME ServiceInv, flushing = "storing"
  PROVE  New(Written(Commit), Commit.events) /\ Durable(Written(Commit))
  <1> DEFINE E == Commit.events
             d == Written(Commit)
  <1>1. /\ E \in Seq(Event) /\ log \in Seq(Event) /\ log \o E \in Seq(Event)
        /\ <<>> \in Seq(Event)
    BY CommitIs, Joined DEF ServiceInv, Shape
  <1>2. EngineOK  BY DEF ServiceInv
  <1>3. /\ blocks \in Seq(Envelope) /\ Len(blocks) \in Nat /\ ChainOK(blocks)
        /\ views = blocks /\ GoodTo(blocks, Len(blocks))
    BY <1>2, EngineTypes
  <1>4. CASE ~DurableLog \/ Commit.full
    <2>1. d = SavedState(IF DurableLog THEN log \o E ELSE <<>>)  BY <1>4 DEF Written
    <2>2. Holds(ByNumber(blocks), blocks)  BY <1>3, HoldsByNumber
    <2>3. New(d, E)  BY <1>3, <2>1, <2>2 DEF SavedState, New
    <2>4. d.log = IF DurableLog THEN log \o E ELSE <<>>  BY <2>1 DEF SavedState
    <2> HIDE DEF d
    <2>5. Durable(d)  BY <1>1, <1>2, <2>3, <2>4, NewIsDurable
    <2> QED  BY <2>3, <2>5 DEF d
  <1>5. CASE DurableLog /\ ~Commit.full
    <2>1. /\ phase = "serving" /\ Commit = pending /\ Mutation
          /\ Changes(E, snapshot, CandlesOf(blocks))
      BY <1>5, CommitIs
    <2>2. d = AppendedState(pending.block, E)  BY <1>5, <2>1 DEF Written
    <2> DEFINE b == pending.block
    <2>3. /\ blocks # <<>> /\ Last(blocks).id = b /\ ~pending.full
          /\ \/ Old(db) /\ Holds(db.rows, Prefix(blocks, Len(blocks) - 1))
             \/ New(db, E)
      BY <1>5, <2>1 DEF Mutation
    <2>4. Len(blocks) >= 1 /\ blocks[Len(blocks)].id = b  BY <1>2, <1>3, <2>3, EngineTypes
    <2>5. Holds(db.rows, Prefix(blocks, Len(blocks) - 1)) \/ Holds(db.rows, blocks)
      BY <2>3 DEF New
    <2>6. Holds(WithBlock(db.rows, b), blocks)  BY <1>3, <2>4, <2>5, HoldsAppended
    <2>7. d.rows = WithBlock(db.rows, b)  BY <2>2 DEF AppendedState, WithBlock
    <2>8. d.candles = CandlesOf(blocks)
      <3>1. d.candles = [p \in Pairs |-> IF \E i \in DOMAIN E : E[i].topic = p
                                         THEN Candle(views, p) ELSE db.candles[p]]
        BY <2>2 DEF AppendedState
      <3>2. \A p \in Pairs : CandlesOf(blocks)[p] = Candle(views, p)  BY <1>3, CandlesType
      <3>3. DOMAIN E = 1..Len(E)  BY <1>1, LenProperties
      <3>4. ASSUME NEW p \in Pairs, ~\E i \in DOMAIN E : E[i].topic = p
            PROVE  db.candles[p] = Candle(views, p)
        <4>1. snapshot[p] = CandlesOf(blocks)[p]  BY <2>1, <3>3, <3>4 DEF Changes
        <4>2. db.candles = snapshot \/ db.candles = CandlesOf(blocks)
          BY <2>3 DEF Old, New
        <4> QED  BY <3>2, <4>1, <4>2
      <3>5. d.candles = [p \in Pairs |-> Candle(views, p)]  BY <3>1, <3>4
      <3> QED  BY <1>3, <3>5 DEF CandlesOf
    <2>9. /\ d.reorgs = reorgCount /\ d.status = backfillStatus /\ d.coverage = coverageThrough
          /\ d.log = log \o E
      BY <2>2 DEF AppendedState
    <2> HIDE DEF d
    <2>10. New(d, E)  BY <2>6, <2>7, <2>8, <2>9 DEF New
    <2>11. Durable(d)  BY <1>1, <1>2, <1>5, <2>9, <2>10, NewIsDurable
    <2> QED  BY <2>10, <2>11 DEF d
  <1> QED  BY <1>4, <1>5, CommitIs

(* Publishing makes the published candles the engine's.                    *)
LEMMA PublishedIs ==
  ASSUME ServiceInv, flushing = "stored", Published
  PROVE  /\ snapshot' = CandlesOf(blocks) /\ snapshot' = db.candles
         /\ log' = log \o Commit.events /\ log' \in Seq(Event)
         /\ DurableLog => log' = db.log
  <1> DEFINE E == Commit.events
  <1>1. E \in Seq(Event) /\ log \in Seq(Event) /\ log \o E \in Seq(Event)
    BY CommitIs, Joined DEF ServiceInv, Shape
  <1>2. blocks \in Seq(Envelope) /\ views = blocks  BY EngineTypes DEF ServiceInv
  <1>3. New(db, E)  BY DEF ServiceInv, Flush
  <1>4. snapshot' = CandlesOf(blocks)
    <2>1. CASE Commit.full  BY <1>2, <2>1 DEF Published
    <2>2. CASE ~Commit.full
      <3>1. Commit = pending /\ Changes(E, snapshot, CandlesOf(blocks))  BY <2>2, CommitIs
      <3>2. snapshot' = [p \in Pairs |-> IF \E i \in DOMAIN E : E[i].topic = p
                                         THEN Candle(views, p) ELSE snapshot[p]]
        BY <2>2, <3>1 DEF Published
      <3>3. DOMAIN E = 1..Len(E)  BY <1>1, LenProperties
      <3>4. \A p \in Pairs : CandlesOf(blocks)[p] = Candle(views, p)  BY <1>2, CandlesType
      <3>5. \A p \in Pairs : (~\E i \in DOMAIN E : E[i].topic = p) => snapshot[p] = Candle(views, p)
        BY <3>1, <3>3, <3>4 DEF Changes
      <3>6. snapshot' = [p \in Pairs |-> Candle(views, p)]  BY <3>2, <3>5
      <3> QED  BY <1>2, <3>6 DEF CandlesOf
    <2> QED  BY <2>1, <2>2
  <1> QED  BY <1>1, <1>3, <1>4 DEF Published, New

-----------------------------------------------------------------------------
(* The initial state, and the end of a process.                            *)

LEMMA EmptyEngine == Retained(<<>>, <<>>, {}) /\ Sound(<<>>, <<>>, {}) /\ Begins(<<>>)
  <1>1. <<>> \in Seq(Envelope) /\ Len(<<>>) = 0  OBVIOUS
  <1>2. ChainOK(<<>>)  BY <1>1 DEF ChainOK, LinkedChain, Heights, Clock
  <1>3. GoodTo(<<>>, 0)  BY DEF GoodTo
  <1>4. Identities(<<>>) = {}
    <2>1. DOMAIN <<>> = {}  OBVIOUS
    <2> QED  BY <2>1 DEF Identities
  <1> QED  BY <1>1, <1>2, <1>3, <1>4 DEF Retained, History, Sound, Begins

LEMMA GenerationIs ==
  ASSUME NEW p \in Pairs
  PROVE  /\ Generation(p) \in Follower
         /\ Generation(p).state = "refetch" /\ Generation(p).answer = None
  BY DEF Generation, Follower

LEMMA InitServiceInv == ServiceInit => ServiceInv
  <1> SUFFICES ASSUME ServiceInit PROVE ServiceInv  OBVIOUS
  <1>1. /\ blocks = <<>> /\ eventIndex = {} /\ views = <<>> /\ reorgCount = 0
        /\ backfillStatus = "unavailable" /\ coverageThrough = -1
        /\ phase = "down" /\ loading = None /\ flushing = "idle" /\ pending = None
        /\ snapshot = [p \in Pairs |-> {}] /\ log = <<>> /\ db = EmptyDb /\ faults = 0
    BY DEF ServiceInit, Init
  <1>2. EngineOK  BY <1>1, EmptyEngine, ReorgBound DEF EngineOK, ReorgBound
  <1>3. /\ browser \in [Browsers -> Follower]
        /\ \A k \in Browsers : browser[k].state = "refetch" /\ browser[k].answer = None
    <2>1. browser \in [Browsers -> {Generation(p) : p \in Pairs}]  BY DEF ServiceInit
    <2>2. ASSUME NEW k \in Browsers
          PROVE  /\ browser[k] \in Follower
                 /\ browser[k].state = "refetch" /\ browser[k].answer = None
      <3>1. PICK p \in Pairs : browser[k] = Generation(p)  BY <2>1
      <3> QED  BY <3>1, GenerationIs
    <2> QED  BY <2>1, <2>2
  <1>4. snapshot \in [Pairs -> Candles]  BY <1>1 DEF Candles
  <1>5. Shape
    BY <1>1, <1>3, <1>4, ServiceAssumption DEF Shape, ServiceAssumption
  <1>6. Durable(db)
    <2>1. Holds(<<>>, <<>>)
      <3>1. Len(<<>>) = 0 /\ DOMAIN <<>> = {}  OBVIOUS
      <3> QED  BY <3>1 DEF Holds
    <2>2. New(db, <<>>)
      <3>1. <<>> \o <<>> = <<>>  OBVIOUS
      <3> QED  BY <1>1, <2>1, <3>1, NoCandle DEF New, EmptyDb
    <2>3. db.log = <<>> /\ <<>> \in Seq(Event)  BY <1>1 DEF EmptyDb
    <2> QED  BY <1>2, <2>2, <2>3, NewIsDurable
  <1>7. Flush /\ CoverageOK  BY <1>1 DEF Flush, CoverageOK
  <1>8. Readers
    <2>1. db.log = <<>> /\ 1..Len(<<>>) = {}  BY <1>1 DEF EmptyDb
    <2> QED  BY <1>1, <1>3, <2>1 DEF Readers, Served, LogTells, GoesOnFrom
  <1> QED  BY <1>2, <1>5, <1>6, <1>7, <1>8 DEF ServiceInv

(* What a commit writes serves every browser.                              *)
LEMMA WrittenServes ==
  ASSUME ServiceInv, DurableLog, flushing = "storing"
  PROVE  Served(Written(Commit).log, Written(Commit).candles)
  <1> DEFINE E == Commit.events
             L == log \o E
             D == CandlesOf(blocks)
  <1>1. Written(Commit).log = L /\ Written(Commit).candles = D  BY WrittenNew DEF New
  <1>2. E \in Seq(Event) /\ Tell(E, snapshot, D) /\ phase # "down"  BY CommitIs
  <1>3. log \in Seq(Event) /\ browser \in [Browsers -> Follower]  BY DEF ServiceInv, Shape
  <1>4. D \in [Pairs -> Candles]  BY EngineTypes, CandlesType DEF ServiceInv
  <1>5. Served(log, snapshot)  BY <1>2 DEF ServiceInv, Readers
  <1>6. Len(L) = Len(log) + Len(E) /\ Len(log) \in Nat /\ Len(E) \in Nat  BY <1>2, <1>3, Joined
  <1> HIDE DEF E, D
  <1>7. LogTells(L, D)  BY <1>2, <1>3, <1>4, <1>5, LogGrows DEF Served
  <1>8. ASSUME NEW k \in Browsers PROVE GoesOnFrom(L, D, browser[k])
    <2>1. browser[k].pair \in Pairs  BY <1>3 DEF Follower
    <2>2. GoesOnFrom(log, snapshot, browser[k])  BY <1>5 DEF Served
    <2>3. ASSUME NEW read, From(log, snapshot, browser[k].pair, read)
          PROVE  From(L, D, browser[k].pair, read)
      <3>1. Follow(L, D, read.cursor, browser[k].pair, read.candle)
        BY <1>2, <1>3, <1>4, <2>1, <2>3, FollowGrows DEF From
      <3>2. read.cursor \in 0..Len(L)  BY <1>6, <2>3 DEF From
      <3> QED  BY <2>3, <3>1, <3>2 DEF From
    <2>4. \A c \in 0..Len(log) : c \in 0..Len(L)  BY <1>6
    <2> QED  BY <2>2, <2>3, <2>4 DEF GoesOnFrom
  <1> HIDE DEF L
  <1>9. Served(L, D)  BY <1>7, <1>8 DEF Served
  <1> QED  BY <1>1, <1>9

LEMMA EndedStep ==
  ASSUME ServiceInv, Ended, faults' \in 0..MaxFaults,
         UNCHANGED db \/ (flushing = "storing" /\ db' = Written(Commit))
  PROVE  ServiceInv'
  <1>1. /\ phase' = "down" /\ loading' = None /\ flushing' = "idle" /\ pending' = None
        /\ blocks' = <<>> /\ eventIndex' = {} /\ views' = <<>>
        /\ reorgCount' = 0 /\ backfillStatus' = "unavailable" /\ coverageThrough' = -1
        /\ snapshot' = [p \in Pairs |-> {}] /\ log' = <<>>
        /\ browser' = [k \in Browsers |-> IF browser[k].state = "live"
                         THEN [browser[k] EXCEPT !.state = "closed"] ELSE browser[k]]
    BY DEF Ended
  <1>2. EngineOK'  BY <1>1, EmptyEngine, ReorgBound DEF EngineOK, ReorgBound
  <1>3. browser \in [Browsers -> Follower]  BY DEF ServiceInv, Shape
  <1>4. /\ browser' \in [Browsers -> Follower]
        /\ \A k \in Browsers :
             /\ browser'[k].pair = browser[k].pair /\ browser'[k].candle = browser[k].candle
             /\ browser'[k].cursor = browser[k].cursor /\ browser'[k].state # "live"
             /\ browser'[k].state = "refetch" <=> browser[k].state = "refetch"
             /\ browser'[k].answer = browser[k].answer
             /\ browser'[k].overtaken = browser[k].overtaken
    <2>1. \A k \in Browsers : browser[k] \in Follower  BY <1>3
    <2> QED  BY <1>1, <2>1 DEF Follower
  <1>5. Shape'
    <2>1. snapshot' \in [Pairs -> Candles]  BY <1>1 DEF Candles
    <2>2. log' \in Seq(Event)  BY <1>1
    <2> QED  BY <1>1, <1>4, <2>1, <2>2, ServiceAssumption DEF Shape, ServiceAssumption
  <1>6. Durable(db')
    <2>1. CASE UNCHANGED db  BY <2>1 DEF ServiceInv
    <2>2. CASE flushing = "storing" /\ db' = Written(Commit)  BY <2>2, WrittenNew
    <2> QED  BY <2>1, <2>2
  <1>7. Flush' /\ CoverageOK'  BY <1>1 DEF Flush, CoverageOK
  <1>8. DurableLog => Readers'
    <2> SUFFICES ASSUME DurableLog PROVE Readers'  OBVIOUS
    <2>1. Served(db'.log, db'.candles)
      <3>1. CASE UNCHANGED db  BY <3>1 DEF ServiceInv, Readers
      <3>2. CASE flushing = "storing" /\ db' = Written(Commit)  BY <3>2, WrittenServes
      <3> QED  BY <3>1, <3>2
    <2>2. ASSUME NEW L, NEW C, NEW k \in Browsers, GoesOnFrom(L, C, browser[k])
          PROVE  GoesOnFrom(L, C, browser'[k])
      BY <1>4, <2>2 DEF GoesOnFrom, From
    <2>3. Served(db.log, db.candles)'  BY <2>1, <2>2 DEF Served
    <2> QED  BY <1>1, <1>4, <2>3 DEF Readers
  <1>9. Durable(db)'  BY <1>6
  <1> QED  BY <1>2, <1>5, <1>7, <1>8, <1>9 DEF ServiceInv

-----------------------------------------------------------------------------
(* The steps of mutations and commits.                                     *)

LEMMA SettledIs ==
  ASSUME ServiceInv, Settled
  PROVE  /\ New(db, <<>>) /\ Old(db) /\ snapshot = CandlesOf(blocks)
         /\ backfillStatus = "complete" /\ Within
         /\ loading = None /\ phase = "serving" /\ flushing = "idle" /\ pending = None
  <1>1. New(db, <<>>) /\ snapshot = CandlesOf(blocks)  BY DEF ServiceInv, Flush, Settled
  <1>2. log \in Seq(Event)  BY DEF ServiceInv, Shape
  <1>3. log \o <<>> = log  BY <1>2, ConcatEmptySeq
  <1>4. Old(db)  BY <1>1, <1>3 DEF New, Old
  <1> QED  BY <1>1, <1>4 DEF ServiceInv, Shape, CoverageOK, Settled

(* A mutation that leaves a commit to flush.                               *)
LEMMA MutationStep ==
  ASSUME ServiceInv, Settled, EngineOK', blocks' # <<>>, Within', UNCHANGED backfillStatus,
         flushing' = "storing", pending' \in Pending,
         UNCHANGED <<phase, loading, snapshot, log, db, browser, faults>>,
         pending'.full => pending'.events = <<ResetEvent>>,
         ~pending'.full =>
           /\ Changes(pending'.events, snapshot, CandlesOf(blocks'))
           /\ Last(blocks').id = pending'.block
           /\ Holds(db.rows, Prefix(blocks', Len(blocks') - 1))
  PROVE  ServiceInv'
  <1>1. /\ Old(db) /\ backfillStatus = "complete"
        /\ loading = None /\ phase = "serving" /\ flushing = "idle" /\ pending = None
    BY SettledIs
  <1>2. pending' # None  BY ServiceAssumption DEF ServiceAssumption
  <1>3. Old(db)'  BY <1>1 DEF Old
  <1>4. Mutation'  BY <1>3 DEF Mutation
  <1>5. Flush'  BY <1>1, <1>2, <1>4 DEF Flush
  <1>6. CoverageOK'  BY <1>1 DEF CoverageOK
  <1>7. Shape'  BY <1>1, <1>2 DEF ServiceInv, Shape
  <1>8. Durable(db)'  BY DEF ServiceInv, Durable, Held
  <1>9. DurableLog => Readers'  BY DEF ServiceInv, Readers, Served
  <1> QED  BY <1>5, <1>6, <1>7, <1>8, <1>9 DEF ServiceInv

LEMMA ResetPending ==
  ASSUME NEW b \in Blocks
  PROVE  [block |-> b, full |-> TRUE, events |-> <<ResetEvent>>] \in Pending
  <1>1. ResetEvent \in Event  BY DEF ResetEvent, Event
  <1>2. <<ResetEvent>> \in Seq(Event)  BY <1>1
  <1> QED  BY <1>2 DEF Pending

LEMMA IngestStep ==
  ASSUME NothingThrows, ServiceInv, NEW b \in Offered, Ingest(b)
  PROVE  ServiceInv'
  <1> DEFINE reset == reorgCount' > reorgCount
             whole == IF reset THEN views' = blocks' ELSE Last(views') = Last(blocks')
             E == IF reset THEN <<ResetEvent>> ELSE ChangeEvents(PairsIn(Last(blocks')), views')
  <1>1. /\ Settled
        /\ Appended(b) \/ Reorged(b)
        /\ IF whole THEN /\ pending' = [block |-> b, full |-> reset, events |-> E]
                         /\ flushing' = "storing"
           ELSE UNCHANGED <<pending, flushing>>
        /\ UNCHANGED <<phase, loading, snapshot, log, db, browser, faults>>
    BY DEF Ingest
  <1>2. EngineOK /\ b \in Blocks  BY Offers DEF ServiceInv
  <1>3. /\ New(db, <<>>) /\ snapshot = CandlesOf(blocks) /\ snapshot \in [Pairs -> Candles]
        /\ backfillStatus = "complete"
    BY <1>1, SettledIs DEF ServiceInv, Shape
  <1>4. CASE Appended(b)
    <2>1. /\ EngineOK' /\ blocks' # <<>> /\ Last(blocks').id = b
          /\ Prefix(blocks', Len(blocks') - 1) = blocks
          /\ \E env \in Envelope : blocks' = Append(blocks, env)
          /\ coverageThrough' = Advanced(b) /\ UNCHANGED <<reorgCount, backfillStatus>>
      BY <1>2, <1>4, AppendedGood
    <2>2. PICK env \in Envelope : blocks' = Append(blocks, env)  BY <2>1
    <2>3. /\ blocks \in Seq(Envelope) /\ blocks' \in Seq(Envelope) /\ views' = blocks'
          /\ Last(blocks') = env
      <3>1. blocks \in Seq(Envelope)  BY <1>2, EngineTypes
      <3>2. blocks' \in Seq(Envelope) /\ Last(blocks') = env  BY <2>2, <3>1, AppendSeq
      <3>3. views' = blocks'  BY <2>1 DEF EngineOK, Sound
      <3> QED  BY <3>1, <3>2, <3>3
    <2>4. reset = FALSE
      <3>1. reorgCount' = reorgCount /\ reorgCount \in Int
        BY <1>2, <2>1, ReorgBound DEF EngineOK, ReorgBound
      <3> QED  BY <3>1
    <2> DEFINE F == ChangeEvents(PairsIn(env), blocks')
    <2>5. pending' = [block |-> b, full |-> FALSE, events |-> F] /\ flushing' = "storing"
      BY <1>1, <2>3, <2>4
    <2>6. Changes(F, snapshot, CandlesOf(blocks'))
      <3>1. PairsIn(env) \in SUBSET Pairs  BY PairsInType
      <3>2. \A p \in Pairs : snapshot[p] = Candle(blocks, p)  BY <1>3, <2>3, CandlesType
      <3>3. \A p \in Pairs : /\ Candle(blocks, p) \subseteq Candle(blocks', p)
                             /\ p \notin PairsIn(env) => Candle(blocks, p) = Candle(blocks', p)
        BY <2>2, <2>3, CandleGrows
      <3> QED  BY <1>3, <2>3, <3>1, <3>2, <3>3, ChangesTell
    <2> HIDE DEF F
    <2>7. pending' \in Pending  BY <1>2, <2>5, <2>6 DEF Pending, Changes
    <2>8. Holds(db.rows, Prefix(blocks', Len(blocks') - 1))  BY <1>3, <2>1 DEF New
    <2>9. Within'
      <3>1. coverageThrough' = Time[b]  BY <1>3, <2>1 DEF Advanced
      <3>2. Time[b] \in Nat  BY <1>2, TimeType
      <3> QED  BY <2>1, <3>1, <3>2 DEF Within
    <2>10. ~pending'.full /\ pending'.events = F /\ pending'.block = b  BY <2>5
    <2> QED  BY <1>1, <2>1, <2>5, <2>6, <2>7, <2>8, <2>9, <2>10, MutationStep
  <1>5. CASE Reorged(b)
    <2>1. /\ EngineOK' /\ blocks' # <<>> /\ Last(blocks').id = b
          /\ reorgCount' = reorgCount + 1 /\ reorgCount \in Nat
          /\ coverageThrough' = Advanced(b) /\ UNCHANGED backfillStatus
      BY <1>2, <1>5, ReplacedGood
    <2>2. reset = TRUE  BY <2>1
    <2>3. views' = blocks'  BY <2>1 DEF EngineOK, Sound
    <2>4. /\ pending' = [block |-> b, full |-> TRUE, events |-> <<ResetEvent>>]
          /\ flushing' = "storing"
      BY <1>1, <2>2, <2>3
    <2>5. pending' \in Pending  BY <1>2, <2>4, ResetPending
    <2>6. Within'
      <3>1. coverageThrough' = Time[b]  BY <1>3, <2>1 DEF Advanced
      <3>2. Time[b] \in Nat  BY <1>2, TimeType
      <3> QED  BY <2>1, <3>1, <3>2 DEF Within
    <2>7. pending'.full /\ pending'.events = <<ResetEvent>>  BY <2>4
    <2> QED  BY <1>1, <2>1, <2>4, <2>5, <2>6, <2>7, MutationStep
  <1> QED  BY <1>1, <1>4, <1>5

LEMMA ReconcileStep ==
  ASSUME NothingThrows, ServiceInv, NEW b \in Offered, Reconcile(b)
  PROVE  ServiceInv'
  <1>1. /\ Settled /\ Rewound(b)
        /\ IF views' = blocks'
           THEN /\ pending' = [block |-> b, full |-> TRUE, events |-> <<ResetEvent>>]
                /\ flushing' = "storing"
           ELSE UNCHANGED <<pending, flushing>>
        /\ UNCHANGED <<phase, loading, snapshot, log, db, browser, faults>>
    BY DEF Reconcile
  <1>2. EngineOK /\ b \in Blocks  BY Offers DEF ServiceInv
  <1>3. /\ EngineOK' /\ blocks' # <<>> /\ Last(blocks').id = b
        /\ coverageThrough' = (IF Time[b] < coverageThrough THEN Time[b] ELSE coverageThrough)
        /\ UNCHANGED backfillStatus
    BY <1>1, <1>2, ReplacedGood
  <1>4. views' = blocks'  BY <1>3 DEF EngineOK, Sound
  <1>5. /\ pending' = [block |-> b, full |-> TRUE, events |-> <<ResetEvent>>]
        /\ flushing' = "storing"
    BY <1>1, <1>4
  <1>6. pending' \in Pending  BY <1>2, <1>5, ResetPending
  <1>7. Within'
    <2>1. Time[b] \in Nat  BY <1>2, TimeType
    <2>2. coverageThrough \in Int
      BY <1>2, BlockAssumption DEF EngineOK, BlockAssumption, Range
    <2> QED  BY <1>3, <2>1, <2>2 DEF Within
  <1>8. pending'.full /\ pending'.events = <<ResetEvent>>  BY <1>5
  <1> QED  BY <1>1, <1>3, <1>5, <1>6, <1>7, <1>8, MutationStep

LEMMA EngineFrame ==
  ASSUME EngineOK, UNCHANGED engineVars
  PROVE  EngineOK'
  BY DEF EngineOK, engineVars

(* A flush that starts or fails, of a process that serves.                 *)
LEMMA FlushTurns ==
  ASSUME ServiceInv, phase = "serving", pending # None, flushing' \in {"idle", "storing"},
         UNCHANGED <<engineVars, phase, loading, pending, snapshot, log, db, browser>>,
         faults' \in 0..MaxFaults
  PROVE  ServiceInv'
  <1>1. UNCHANGED <<blocks, eventIndex, views, reorgCount, backfillStatus, coverageThrough>>
    BY DEF engineVars
  <1>2. EngineOK'  BY EngineFrame DEF ServiceInv
  <1>3. Shape'  BY DEF ServiceInv, Shape
  <1>4. Mutation  BY DEF ServiceInv, Flush
  <1>5. Mutation'  BY <1>1, <1>4 DEF Mutation, Old, New
  <1>6. Flush'  BY <1>5 DEF Flush
  <1>7. CoverageOK'  BY <1>1 DEF ServiceInv, CoverageOK, Within
  <1>8. Durable(db)'  BY DEF ServiceInv, Durable, Held
  <1>9. DurableLog => Readers'  BY DEF ServiceInv, Readers, Served
  <1> QED  BY <1>2, <1>3, <1>6, <1>7, <1>8, <1>9 DEF ServiceInv

LEMMA SameCommit ==
  ASSUME UNCHANGED <<phase, pending, loading, views, snapshot>>
  PROVE  Commit' = Commit
  <1>1. ChangeEvents(Pairs, views)' = ChangeEvents(Pairs, views)  BY DEF ChangeEvents
  <1> QED  BY <1>1 DEF Commit

(* A transaction that commits, whether its answer arrives or is lost.      *)
LEMMA CommitStep ==
  ASSUME ServiceInv, flushing = "storing", db' = Written(Commit),
         flushing' = "stored" \/ (flushing' = "idle" /\ phase = "serving"),
         UNCHANGED <<engineVars, phase, loading, pending, snapshot, log, browser>>,
         faults' \in 0..MaxFaults
  PROVE  ServiceInv'
  <1>1. UNCHANGED <<blocks, eventIndex, views, reorgCount, backfillStatus, coverageThrough>>
    BY DEF engineVars
  <1>2. EngineOK'  BY EngineFrame DEF ServiceInv
  <1>3. Shape'  BY DEF ServiceInv, Shape
  <1>4. New(db', Commit.events) /\ Durable(db')  BY WrittenNew
  <1>5. New(db, Commit.events)'  BY <1>1, <1>4, SameCommit DEF New
  <1>6. phase = "serving" => Mutation'
    <2> SUFFICES ASSUME phase = "serving" PROVE Mutation'  OBVIOUS
    <2>1. Mutation /\ Commit = pending  BY CommitIs
    <2>2. New(db, pending.events)'  BY <1>1, <1>4, <2>1 DEF New
    <2> QED  BY <1>1, <2>1, <2>2 DEF Mutation
  <1>7. phase = "backfill" => Loads'
    <2> SUFFICES ASSUME phase = "backfill" PROVE Loads'  OBVIOUS
    <2>1. Loads  BY DEF ServiceInv, Flush
    <2> QED  BY <1>1, <2>1 DEF Loads
  <1>8. phase = "serving" => pending # None  BY DEF ServiceInv, Shape
  <1>9. Flush'  BY <1>5, <1>6, <1>7, <1>8 DEF Flush
  <1>10. CoverageOK'  BY <1>1 DEF ServiceInv, CoverageOK, Within
  <1>11. DurableLog => Readers'
    <2> SUFFICES ASSUME DurableLog PROVE Readers'  OBVIOUS
    <2>1. Served(db'.log, db'.candles)  BY WrittenServes
    <2>2. Served(db.log, db.candles)'  BY <2>1 DEF Served
    <2>3. phase # "down" => Served(log, snapshot)'  BY DEF ServiceInv, Readers, Served
    <2> QED  BY <2>2, <2>3 DEF ServiceInv, Readers
  <1>12. Durable(db)'  BY <1>4
  <1> QED  BY <1>2, <1>3, <1>9, <1>10, <1>11, <1>12 DEF ServiceInv

LEMMA FaultCounts ==
  ASSUME ServiceInv, faults < MaxFaults
  PROVE  faults + 1 \in 0..MaxFaults
  BY ServiceAssumption DEF ServiceInv, Shape, ServiceAssumption

LEMMA StoreFailsStep ==
  ASSUME ServiceInv, StoreFails
  PROVE  ServiceInv'
  <1>1. flushing = "storing" /\ ~Conflicts(Commit.events)  BY NoConflict DEF StoreFails
  <1>2. faults' = faults + 1 /\ faults < MaxFaults /\ UNCHANGED db  BY <1>1 DEF StoreFails
  <1>3. faults' \in 0..MaxFaults  BY <1>2, FaultCounts
  <1>4. CASE phase = "serving"
    <2>1. pending # None  BY <1>1, <1>4 DEF ServiceInv, Shape
    <2> QED  BY <1>2, <1>3, <1>4, <2>1, FlushTurns DEF StoreFails
  <1>5. CASE phase # "serving"
    <2>1. Ended  BY <1>5 DEF StoreFails
    <2> QED  BY <1>2, <1>3, <2>1, EndedStep
  <1> QED  BY <1>4, <1>5

LEMMA AnswerLostStep ==
  ASSUME ServiceInv, AnswerLost
  PROVE  ServiceInv'
  <1>1. /\ flushing = "storing" /\ db' = Written(Commit)
        /\ faults' = faults + 1 /\ faults < MaxFaults
    BY DEF AnswerLost
  <1>2. faults' \in 0..MaxFaults  BY <1>1, FaultCounts
  <1>3. CASE phase = "serving"
    BY <1>1, <1>2, <1>3, CommitStep DEF AnswerLost
  <1>4. CASE phase # "serving"
    <2>1. Ended  BY <1>4 DEF AnswerLost
    <2> QED  BY <1>1, <1>2, <2>1, EndedStep
  <1> QED  BY <1>3, <1>4

(* The events are published: the process serves what is durable.           *)
LEMMA PublishStep ==
  ASSUME ServiceInv, flushing = "stored", Published, phase' = "serving", loading' = None,
         backfillStatus = "complete"
  PROVE  ServiceInv'
  <1>1. /\ pending' = None /\ flushing' = "idle"
        /\ UNCHANGED <<blocks, eventIndex, views, reorgCount, backfillStatus, coverageThrough,
                       db, browser, faults>>
    BY DEF Published, engineVars
  <1>2. /\ snapshot' = CandlesOf(blocks) /\ snapshot' = db.candles
        /\ log' = log \o Commit.events /\ log' \in Seq(Event)
        /\ DurableLog => log' = db.log
    BY PublishedIs
  <1>3. EngineOK'  BY <1>1, EngineFrame DEF ServiceInv, engineVars
  <1>4. snapshot' \in [Pairs -> Candles]  BY <1>2, EngineTypes, CandlesType DEF ServiceInv
  <1>5. Shape'  BY <1>1, <1>2, <1>4 DEF ServiceInv, Shape
  <1>6. New(db, Commit.events)  BY DEF ServiceInv, Flush
  <1>7. New(db, <<>>)'
    <2>1. log' \o <<>> = log'  BY <1>2, ConcatEmptySeq
    <2> QED  BY <1>1, <1>2, <1>6, <2>1 DEF New
  <1>8. snapshot' = CandlesOf(blocks')  BY <1>1, <1>2
  <1>9. Flush'  BY <1>1, <1>7, <1>8 DEF Flush
  <1>10. Within
    <2>1. phase \in {"serving", "backfill"}  BY CommitIs
    <2> QED  BY <2>1 DEF ServiceInv, CoverageOK
  <1>11. CoverageOK'  BY <1>1, <1>10 DEF CoverageOK, Within
  <1>12. Durable(db)'  BY <1>1 DEF ServiceInv, Durable, Held
  <1>13. DurableLog => Readers'
    <2> SUFFICES ASSUME DurableLog PROVE Readers'  OBVIOUS
    <2>1. Served(db.log, db.candles)  BY DEF ServiceInv, Readers
    <2>2. Served(db.log, db.candles)' /\ Served(log, snapshot)'
      BY <1>1, <1>2, <2>1 DEF Served
    <2> QED  BY <2>2 DEF Readers
  <1> QED  BY <1>3, <1>5, <1>9, <1>11, <1>12, <1>13 DEF ServiceInv

-----------------------------------------------------------------------------
(* The steps of a start.                                                   *)

LEMMA RestartStep ==
  ASSUME ServiceInv, Restart
  PROVE  ServiceInv'
  <1>1. /\ phase = "down" /\ phase' = "backfill" /\ Restorable(Loaded(db.rows))
        /\ RestoreCheckpoint(Loaded(db.rows), db.reorgs, "running", db.coverage)
        /\ loading' = [last |-> None, latest |-> -1, reset |-> FALSE, failed |-> FALSE]
        /\ log' = db.log /\ snapshot' = CandlesOf(views')
        /\ UNCHANGED <<flushing, pending, db, browser, faults>>
    BY DEF Restart
  <1>2. flushing = "idle" /\ pending = None  BY <1>1 DEF ServiceInv, Shape
  <1>3. Durable(db)  BY DEF ServiceInv
  <1>4. EngineOK' /\ blocks' = Held(db)  BY <1>1, <1>3, RestoredGood
  <1>5. views' = blocks' /\ blocks' \in Seq(Envelope)
    BY <1>4, ChainLen DEF EngineOK, Sound, Retained, ChainOK
  <1>6. /\ snapshot' = db.candles /\ snapshot' \in [Pairs -> Candles]
        /\ \A p \in Pairs : snapshot'[p] = Candle(blocks', p)
    BY <1>1, <1>3, <1>4, <1>5, CandlesType DEF Durable
  <1>7. loading' \in Loading /\ loading' # None
    <2>1. loading' \in Loading  BY <1>1 DEF Loading
    <2> QED  BY <2>1, ServiceAssumption DEF ServiceAssumption
  <1>8. Shape'
    <2>1. \A k \in Browsers : browser[k].state # "live"  BY <1>1 DEF ServiceInv, Shape
    <2> QED  BY <1>1, <1>2, <1>3, <1>6, <1>7, <2>1 DEF ServiceInv, Shape, Durable
  <1>9. Loads'  BY <1>1, <1>6 DEF Loads, Old
  <1>10. Flush' /\ CoverageOK'  BY <1>1, <1>2, <1>9 DEF Flush, CoverageOK
  <1>11. Durable(db)'  BY <1>1, <1>3 DEF Durable, Held
  <1>12. DurableLog => Readers'
    <2> SUFFICES ASSUME DurableLog PROVE Readers'  OBVIOUS
    <2>1. Served(db.log, db.candles)' /\ Served(log, snapshot)'
      BY <1>1, <1>6 DEF ServiceInv, Readers, Served
    <2> QED  BY <1>1, <2>1 DEF Readers
  <1> QED  BY <1>4, <1>8, <1>10, <1>11, <1>12 DEF ServiceInv

(* A block or a rewind of a backfill.                                      *)
LEMMA LoadStep ==
  ASSUME ServiceInv, InLoop, EngineOK', loading' \in Loading, ~loading'.failed,
         UNCHANGED <<phase, flushing, pending, snapshot, log, db, browser, faults>>,
         ~loading'.reset =>
           /\ ~loading.reset
           /\ \A p \in Pairs : Candle(blocks, p) \subseteq Candle(blocks', p)
  PROVE  ServiceInv'
  <1>1. phase = "backfill" /\ flushing = "idle"  BY DEF InLoop
  <1>2. loading' # None  BY ServiceAssumption DEF ServiceAssumption
  <1>3. Shape'  BY <1>1, <1>2 DEF ServiceInv, Shape
  <1>4. Loads  BY <1>1 DEF ServiceInv, Flush
  <1>5. Loads'
    <2>1. ~loading'.reset => \A p \in Pairs : snapshot[p] \subseteq Candle(blocks', p)
      BY <1>4 DEF Loads
    <2> QED  BY <1>1, <1>4, <2>1 DEF Loads, Old
  <1>6. Flush' /\ CoverageOK'  BY <1>1, <1>5 DEF Flush, CoverageOK
  <1>7. Durable(db)'  BY DEF ServiceInv, Durable, Held
  <1>8. DurableLog => Readers'  BY DEF ServiceInv, Readers, Served
  <1> QED  BY <1>3, <1>6, <1>7, <1>8 DEF ServiceInv

LEMMA MaxOfTwo ==
  ASSUME NEW x \in Int, NEW y \in Int
  PROVE  Max({x, y}) \in {x, y}
  <1>1. \E z \in {x, y} : \A w \in {x, y} : z >= w
    <2>1. CASE x >= y
      BY <2>1
    <2>2. CASE y >= x
      BY <2>2
    <2> QED  BY <2>1, <2>2
  <1> QED  BY <1>1 DEF Max

LEMMA MinOfTwo ==
  ASSUME NEW x \in Int, NEW y \in Int
  PROVE  Min({x, y}) \in {x, y} /\ Min({x, y}) <= y
  <1>1. \E z \in {x, y} : \A w \in {x, y} : z <= w
    <2>1. CASE x >= y
      BY <2>1
    <2>2. CASE y >= x
      BY <2>2
    <2> QED  BY <2>1, <2>2
  <1> QED  BY <1>1 DEF Min

LEMMA BackfillIngestStep ==
  ASSUME NothingThrows, ServiceInv, NEW b \in Offered, BackfillIngest(b)
  PROVE  ServiceInv'
  <1> DEFINE reset == reorgCount' > reorgCount
             torn == (blocks' # blocks) /\ IF reset THEN views' # blocks'
                                           ELSE Last(views') # Last(blocks')
  <1>1. /\ InLoop
        /\ Appended(b) \/ Reorged(b) \/ Duplicated(b)
        /\ loading' = [last   |-> b,
                       latest |-> IF torn THEN loading.latest ELSE Max({loading.latest, Time[b]}),
                       reset  |-> loading.reset \/ reset,
                       failed |-> torn]
        /\ UNCHANGED <<phase, flushing, pending, snapshot, log, db, browser, faults>>
    BY DEF BackfillIngest
  <1>2. EngineOK /\ b \in Blocks /\ blocks \in Seq(Envelope)  BY Offers, EngineTypes DEF ServiceInv
  <1>3. loading \in Loading  BY <1>1 DEF ServiceInv, Shape, InLoop
  <1>4. reorgCount \in Int  BY <1>2, ReorgBound DEF EngineOK, ReorgBound
  <1>5. /\ EngineOK' /\ reset \in BOOLEAN
        /\ reset = FALSE => \A p \in Pairs : Candle(blocks, p) \subseteq Candle(blocks', p)
    <2>1. CASE Appended(b)
      <3>1. EngineOK' /\ \E env \in Envelope : blocks' = Append(blocks, env)
        BY <1>2, <2>1, AppendedGood
      <3> QED  BY <1>2, <3>1, CandleGrows
    <2>2. CASE Reorged(b)
      <3>1. EngineOK' /\ reorgCount' = reorgCount + 1 /\ reorgCount \in Nat
        BY <1>2, <2>2, ReplacedGood
      <3>2. reset = TRUE  BY <3>1
      <3> QED  BY <3>1, <3>2
    <2>3. CASE Duplicated(b)
      <3>1. EngineOK'  BY <1>2, <2>3, EngineFrame DEF Duplicated
      <3>2. blocks' = blocks  BY <2>3 DEF Duplicated, engineVars
      <3> QED  BY <3>1, <3>2
    <2> QED  BY <1>1, <2>1, <2>2, <2>3
  <1>6. torn = FALSE
    <2>1. views' = blocks'  BY <1>5 DEF EngineOK, Sound
    <2> QED  BY <2>1
  <1> HIDE DEF reset, torn
  <1>7. Max({loading.latest, Time[b]}) \in {-1} \cup Range(Time)
    <2>1. loading.latest \in {-1} \cup Range(Time)  BY <1>3 DEF Loading
    <2>2. loading.latest \in Int
      BY <2>1, BlockAssumption DEF BlockAssumption, Range
    <2>3. Time[b] \in Range(Time) /\ Time[b] \in Int  BY <1>2, TimeType
    <2> QED  BY <2>1, <2>2, <2>3, MaxOfTwo
  <1>8. loading.reset \in BOOLEAN  BY <1>3 DEF Loading
  <1>9. (loading.reset \/ reset) \in BOOLEAN  BY <1>5, <1>8
  <1>10. /\ loading'.last = b /\ loading'.failed = FALSE
         /\ loading'.reset = (loading.reset \/ reset)
    BY <1>1, <1>6
  <1>11. loading' \in Loading  BY <1>1, <1>2, <1>6, <1>7, <1>9 DEF Loading
  <1>12. ~loading'.reset => ~loading.reset /\ reset = FALSE  BY <1>5, <1>8, <1>10
  <1> QED  BY <1>1, <1>5, <1>10, <1>11, <1>12, LoadStep

LEMMA BackfillRewindStep ==
  ASSUME NothingThrows, ServiceInv, NEW b \in Offered, BackfillRewind(b)
  PROVE  ServiceInv'
  <1>1. /\ InLoop /\ Rewound(b)
        /\ loading' = [loading EXCEPT !.last = b, !.reset = TRUE, !.failed = views' # blocks']
        /\ UNCHANGED <<phase, flushing, pending, snapshot, log, db, browser, faults>>
    BY DEF BackfillRewind
  <1>2. EngineOK /\ b \in Blocks  BY Offers DEF ServiceInv
  <1>3. loading \in Loading  BY <1>1 DEF ServiceInv, Shape, InLoop
  <1>4. EngineOK'  BY <1>1, <1>2, ReplacedGood
  <1>5. (views' # blocks') = FALSE  BY <1>4 DEF EngineOK, Sound
  <1>6. /\ loading' = [last |-> b, latest |-> loading.latest, reset |-> TRUE, failed |-> FALSE]
        /\ loading' \in Loading
    <2>1. loading' = [loading EXCEPT !.last = b, !.reset = TRUE, !.failed = FALSE]  BY <1>1, <1>5
    <2> QED  BY <1>2, <1>3, <2>1 DEF Loading
  <1>7. ~loading'.failed /\ loading'.reset  BY <1>6
  <1> QED  BY <1>1, <1>4, <1>6, <1>7, LoadStep

(* The coverage of what was loaded ends at the head or before.             *)
LEMMA CoverageIs ==
  ASSUME ServiceInv, phase = "backfill"
  PROVE  /\ CoverageLoaded \in {-1} \cup Range(Time)
         /\ blocks # <<>> => CoverageLoaded <= Time[Last(blocks).id]
  <1> DEFINE loaded == IF loading.latest # -1 THEN loading.latest ELSE coverageThrough
  <1>1. loading \in Loading /\ EngineOK  BY DEF ServiceInv, Shape
  <1>2. loaded \in {-1} \cup Range(Time)  BY <1>1 DEF Loading, EngineOK
  <1>3. loaded \in Int  BY <1>2, BlockAssumption DEF BlockAssumption, Range
  <1>4. CoverageLoaded = IF blocks = <<>> THEN loaded ELSE Min({loaded, Time[Last(blocks).id]})
    BY DEF CoverageLoaded
  <1> HIDE DEF loaded
  <1>5. CASE blocks = <<>>  BY <1>2, <1>4, <1>5
  <1>6. CASE blocks # <<>>
    <2>1. Last(blocks).id \in Blocks  BY <1>1, <1>6, EngineTypes
    <2>2. Time[Last(blocks).id] \in Range(Time) /\ Time[Last(blocks).id] \in Int
      BY <2>1, TimeType
    <2>3. /\ Min({loaded, Time[Last(blocks).id]}) \in {loaded, Time[Last(blocks).id]}
          /\ Min({loaded, Time[Last(blocks).id]}) <= Time[Last(blocks).id]
      BY <1>3, <2>2, MinOfTwo
    <2> QED  BY <1>2, <1>4, <1>6, <2>2, <2>3
  <1> QED  BY <1>5, <1>6

LEMMA EndBackfillStep ==
  ASSUME ServiceInv, phase = "backfill", flushing = "idle", NEW status, EndBackfill(status),
         status \in {"partial", "capped", "complete"}, faults' \in 0..MaxFaults
  PROVE  ServiceInv'
  <1>1. /\ backfillStatus' = status /\ coverageThrough' = CoverageLoaded /\ flushing' = "storing"
        /\ UNCHANGED <<blocks, eventIndex, views, reorgCount, phase, loading, pending, snapshot,
                       log, db, browser>>
    BY DEF EndBackfill
  <1>2. EngineOK'  BY <1>1, CoverageIs DEF ServiceInv, EngineOK
  <1>3. Shape'  BY <1>1 DEF ServiceInv, Shape
  <1>4. Loads  BY DEF ServiceInv, Flush
  <1>5. Loads'  BY <1>1, <1>4 DEF Loads, Old
  <1>6. Flush'  BY <1>1, <1>5 DEF Flush
  <1>7. Within'  BY <1>1, CoverageIs DEF Within
  <1>8. CoverageOK'  BY <1>1, <1>7 DEF CoverageOK
  <1>9. Durable(db)'  BY <1>1 DEF ServiceInv, Durable, Held
  <1>10. DurableLog => Readers'  BY <1>1 DEF ServiceInv, Readers, Served
  <1> QED  BY <1>2, <1>3, <1>6, <1>8, <1>9, <1>10 DEF ServiceInv

LEMMA BackfillStopsStep ==
  ASSUME ServiceInv, BackfillStops
  PROVE  ServiceInv'
  <1>1. PICK status \in StopStatuses : EndBackfill(status)  BY DEF BackfillStops
  <1>2. phase = "backfill" /\ flushing = "idle"  BY DEF BackfillStops
  <1>3. ~loading.failed  BY <1>2 DEF ServiceInv, Shape
  <1>4. status \in {"partial", "capped"} /\ faults < MaxFaults  BY <1>1, <1>3 DEF StopStatuses
  <1>5. faults' = faults + 1  BY <1>3 DEF BackfillStops
  <1>6. faults' \in 0..MaxFaults  BY <1>4, <1>5, FaultCounts
  <1> QED  BY <1>1, <1>2, <1>4, <1>6, EndBackfillStep

LEMMA StartEndsStep ==
  ASSUME ServiceInv, StartEnds
  PROVE  ServiceInv'
  <1>1. CASE backfillStatus = "complete"
    BY <1>1, PublishStep DEF StartEnds
  <1>2. CASE backfillStatus # "complete"
    <2>1. Ended /\ UNCHANGED <<db, faults>>  BY <1>2 DEF StartEnds
    <2>2. faults' \in 0..MaxFaults  BY <2>1 DEF ServiceInv, Shape
    <2> QED  BY <2>1, <2>2, EndedStep
  <1> QED  BY <1>1, <1>2

-----------------------------------------------------------------------------
(* The steps of browsers.                                                  *)

(* A browser that goes on from what it has, or loads again.                *)
LEMMA BrowserStep ==
  ASSUME ServiceInv, UNCHANGED <<engineVars, phase, loading, flushing, pending, snapshot, log,
                                 db, faults>>,
         NEW k \in Browsers, NEW f \in Follower, browser' = [browser EXCEPT ![k] = f],
         f.state = "live" => phase = "serving",
         DurableLog => /\ GoesOnFrom(db.log, db.candles, f)
                       /\ phase # "down" => GoesOnFrom(log, snapshot, f)
  PROVE  ServiceInv'
  <1>1. UNCHANGED <<blocks, eventIndex, views, reorgCount, backfillStatus, coverageThrough>>
    BY DEF engineVars
  <1>2. browser \in [Browsers -> Follower]  BY DEF ServiceInv, Shape
  <1>3. /\ browser' \in [Browsers -> Follower]
        /\ \A j \in Browsers : browser'[j] = IF j = k THEN f ELSE browser[j]
    BY <1>2
  <1>4. EngineOK'  BY EngineFrame DEF ServiceInv
  <1>5. Shape'  BY <1>3 DEF ServiceInv, Shape
  <1>6. Flush'
    <2>1. New(db, <<>>) => New(db, <<>>)'  BY <1>1 DEF New
    <2>2. Mutation => Mutation'  BY <1>1 DEF Mutation, Old, New
    <2>3. Loads => Loads'  BY <1>1 DEF Loads, Old
    <2>4. New(db, Commit.events) => New(db, Commit.events)'  BY <1>1, SameCommit DEF New
    <2> QED  BY <1>1, <2>1, <2>2, <2>3, <2>4 DEF ServiceInv, Flush
  <1>7. CoverageOK'  BY <1>1 DEF ServiceInv, CoverageOK, Within
  <1>8. Durable(db)'  BY DEF ServiceInv, Durable, Held
  <1>9. DurableLog => Readers'
    <2> SUFFICES ASSUME DurableLog PROVE Readers'  OBVIOUS
    <2>1. /\ Served(db.log, db.candles)
          /\ phase # "down" => Served(log, snapshot)
      BY DEF ServiceInv, Readers
    <2>2. Served(db.log, db.candles)'  BY <1>3, <2>1 DEF Served
    <2>3. phase # "down" => Served(log, snapshot)'  BY <1>3, <2>1 DEF Served
    <2> QED  BY <2>2, <2>3 DEF Readers
  <1> QED  BY <1>4, <1>5, <1>6, <1>7, <1>8, <1>9 DEF ServiceInv

(* What every browser goes on from.                                        *)
LEMMA Going ==
  ASSUME ServiceInv, DurableLog, NEW k \in Browsers
  PROVE  /\ GoesOnFrom(db.log, db.candles, browser[k])
         /\ phase # "down" => GoesOnFrom(log, snapshot, browser[k])
  BY DEF ServiceInv, Readers, Served

LEMMA ConnectionStep ==
  ASSUME ServiceInv, NEW k \in Browsers, NEW s \in {"closed", "live"},
         browser[k].state # "refetch", s = "live" => phase = "serving",
         browser' = [browser EXCEPT ![k].state = s],
         UNCHANGED <<engineVars, phase, loading, flushing, pending, snapshot, log, db, faults>>
  PROVE  ServiceInv'
  <1> DEFINE f == [browser[k] EXCEPT !.state = s]
  <1>1. browser \in [Browsers -> Follower]  BY DEF ServiceInv, Shape
  <1>2. /\ f \in Follower /\ f.state = s
        /\ f.pair = browser[k].pair /\ f.candle = browser[k].candle /\ f.cursor = browser[k].cursor
        /\ f.answer = browser[k].answer /\ f.overtaken = browser[k].overtaken
    BY <1>1 DEF Follower
  <1>3. browser' = [browser EXCEPT ![k] = f]  BY <1>1
  <1> HIDE DEF f
  <1>4. ASSUME NEW L, NEW C, GoesOnFrom(L, C, browser[k]) PROVE GoesOnFrom(L, C, f)
    BY <1>2, <1>4 DEF GoesOnFrom, From
  <1> QED  BY <1>2, <1>3, <1>4, Going, BrowserStep

(* A reset starts a generation, which shows nothing yet.                   *)
LEMMA GenerationStep ==
  ASSUME ServiceInv, NEW k \in Browsers,
         browser' = [browser EXCEPT ![k] = Generation(browser[k].pair)],
         UNCHANGED <<engineVars, phase, loading, flushing, pending, snapshot, log, db, faults>>
  PROVE  ServiceInv'
  <1> DEFINE f == Generation(browser[k].pair)
  <1>1. browser[k].pair \in Pairs  BY DEF ServiceInv, Shape, Follower
  <1>2. f \in Follower /\ f.state = "refetch" /\ f.answer = None  BY <1>1, GenerationIs
  <1> HIDE DEF f
  <1>3. \A L, C : GoesOnFrom(L, C, f)  BY <1>2 DEF GoesOnFrom
  <1>4. browser' = [browser EXCEPT ![k] = f]  BY DEF f
  <1> QED  BY <1>2, <1>3, <1>4, BrowserStep

LEMMA AtTheEnd ==
  ASSUME NEW L \in Seq(Event), NEW C \in [Pairs -> Candles], NEW p \in Pairs
  PROVE  Follow(L, C, Len(L), p, C[p])
  <1>1. Len(L) \in Nat  BY LenProperties
  <1>2. Ahead(L, Len(L), p) = {}  BY <1>1 DEF Ahead
  <1> QED  BY <1>2 DEF Follow

LEMMA LoadCandleStep ==
  ASSUME ServiceInv, NEW k \in Browsers, Load(k)
  PROVE  ServiceInv'
  <1> DEFINE p == browser[k].pair
             a == [candle |-> Candle(views, p), cursor |-> Len(log)]
             f == [browser[k] EXCEPT !.answer = a]
  <1>1. /\ Settled
        /\ browser' = [browser EXCEPT ![k].answer = a]
        /\ UNCHANGED <<engineVars, phase, loading, flushing, pending, snapshot, log, db, faults>>
    BY DEF Load, Request
  <1>2. browser \in [Browsers -> Follower] /\ log \in Seq(Event) /\ snapshot \in [Pairs -> Candles]
    BY DEF ServiceInv, Shape
  <1>3. browser[k] \in Follower /\ p \in Pairs  BY <1>2 DEF Follower
  <1>4. views = blocks /\ blocks \in Seq(Envelope)  BY EngineTypes DEF ServiceInv
  <1>5. Candle(views, p) \in Candles /\ Candle(views, p) = snapshot[p]
    BY <1>1, <1>3, <1>4, CandleIs, CandlesType, SettledIs
  <1>6. Len(log) \in Nat /\ Len(log) \in 0..Len(log)  BY <1>2, LenProperties
  <1>7. browser' = [browser EXCEPT ![k] = f]  BY <1>1, <1>2
  <1>8. a \in Answer /\ a.candle = snapshot[p] /\ a.cursor = Len(log)  BY <1>5, <1>6 DEF Answer
  <1> HIDE DEF a
  <1>9. /\ f \in Follower /\ f.answer = a
        /\ f.pair = p /\ f.state = browser[k].state /\ f.cursor = browser[k].cursor
        /\ f.candle = browser[k].candle /\ f.overtaken = browser[k].overtaken
    BY <1>3, <1>8 DEF Follower
  <1> HIDE DEF f
  <1>10. Follow(log, snapshot, Len(log), p, snapshot[p])  BY <1>2, <1>3, AtTheEnd
  <1>11. From(log, snapshot, p, a)  BY <1>5, <1>6, <1>8, <1>10 DEF From
  <1>12. ASSUME NEW L, NEW C, GoesOnFrom(L, C, browser[k]), From(L, C, p, a)
         PROVE  GoesOnFrom(L, C, f)
    BY <1>9, <1>12 DEF GoesOnFrom, From
  <1>13. DurableLog => db.log = log /\ db.candles = snapshot  BY <1>1, SettledIs DEF Old
  <1>14. DurableLog => GoesOnFrom(log, snapshot, f) /\ GoesOnFrom(db.log, db.candles, f)
    BY <1>1, <1>11, <1>12, <1>13, Going, SettledIs
  <1>15. f.state = "live" => phase = "serving"  BY <1>9 DEF ServiceInv, Shape
  <1> QED  BY <1>1, <1>7, <1>9, <1>14, <1>15, BrowserStep

(* An answer is as good a state to go on from as the one it replaces, or   *)
(* marks the browser overtaken.                                            *)
LEMMA AnsweredStep ==
  ASSUME ServiceInv, NEW k \in Browsers, Answered(k)
  PROVE  ServiceInv'
  <1> DEFINE b == browser[k]
             a == browser[k].answer
             fresh == b.state = "refetch" \/ a.cursor # b.base
             f == IF fresh
                  THEN [b EXCEPT !.candle = a.candle, !.base = a.cursor, !.cursor = a.cursor,
                                 !.state = "closed", !.answer = None, !.overtaken = FALSE]
                  ELSE [b EXCEPT !.candle = a.candle, !.answer = None,
                                 !.overtaken = b.cursor # b.base]
  <1>1. /\ a # None /\ browser' = [browser EXCEPT ![k] = f]
        /\ UNCHANGED <<engineVars, phase, loading, flushing, pending, snapshot, log, db, faults>>
    BY DEF Answered
  <1>2. b \in Follower  BY DEF ServiceInv, Shape
  <1>3. a \in Answer /\ a.candle \in Candles /\ a.cursor \in Nat  BY <1>1, <1>2 DEF Follower, Answer
  <1>4. f \in Follower  BY <1>2, <1>3 DEF Follower
  <1>5. /\ f.pair = b.pair /\ f.candle = a.candle /\ f.answer = None
        /\ fresh => f.cursor = a.cursor /\ f.state = "closed"
        /\ ~fresh => /\ f.cursor = b.cursor /\ f.state = b.state /\ b.state # "refetch"
                     /\ ~f.overtaken => b.cursor = a.cursor
    BY <1>2, <1>3 DEF Follower
  <1> HIDE DEF f, fresh
  <1>6. ASSUME NEW L, NEW C, GoesOnFrom(L, C, b) PROVE GoesOnFrom(L, C, f)
    <2>1. From(L, C, b.pair, a)  BY <1>1, <1>6 DEF GoesOnFrom
    <2>2. CASE fresh  BY <1>5, <2>1, <2>2 DEF GoesOnFrom, From
    <2>3. CASE ~fresh
      <3>1. f.cursor \in 0..Len(L)  BY <1>5, <1>6, <2>3 DEF GoesOnFrom
      <3>2. ~f.overtaken => From(L, C, f.pair, f)  BY <1>5, <2>1, <2>3 DEF From
      <3> QED  BY <1>5, <3>1, <3>2 DEF GoesOnFrom
    <2> QED  BY <2>2, <2>3
  <1>7. f.state = "live" => phase = "serving"
    BY <1>5 DEF ServiceInv, Shape
  <1> QED  BY <1>1, <1>4, <1>6, <1>7, Going, BrowserStep

LEMMA UnseenMin ==
  ASSUME ServiceInv, NEW k \in Browsers, browser[k].state = "live"
  PROVE  /\ Unseen(k) = Ahead(log, browser[k].cursor, browser[k].pair)
         /\ Unseen(k) # {} => /\ Min(Unseen(k)) \in Unseen(k)
                              /\ \A c \in Unseen(k) : Min(Unseen(k)) <= c
  <1>1. log \in Seq(Event)  BY DEF ServiceInv, Shape
  <1>2. DOMAIN log = 1..Len(log)  BY <1>1, LenProperties
  <1>3. Unseen(k) = Ahead(log, browser[k].cursor, browser[k].pair)  BY <1>2 DEF Unseen, Ahead
  <1>4. Unseen(k) \subseteq Nat  BY <1>3 DEF Ahead
  <1> QED  BY <1>3, <1>4, MinProperties

(* What is published is the beginning of what is durable.                  *)
LEMMA PublishedFirst ==
  ASSUME ServiceInv, DurableLog
  PROVE  \E E \in Seq(Event) : db.log = log \o E
  <1>1. log \in Seq(Event) /\ db.log \in Seq(Event) /\ <<>> \in Seq(Event)
    BY DEF ServiceInv, Shape, Durable
  <1>2. log \o <<>> = log /\ <<>> \o db.log = db.log  BY <1>1, ConcatEmptySeq
  <1>3. CASE phase = "down"
    <2>1. log = <<>>  BY <1>3 DEF ServiceInv, Shape
    <2> QED  BY <1>1, <1>2, <2>1
  <1>4. CASE phase = "serving" /\ pending = None
    BY <1>1, <1>4 DEF ServiceInv, Flush, New
  <1>5. CASE phase = "serving" /\ pending # None
    <2>1. Mutation /\ pending.events \in Seq(Event)
      BY <1>5 DEF ServiceInv, Flush, Shape, Pending
    <2> QED  BY <1>1, <1>2, <2>1 DEF Mutation, Old, New
  <1>6. CASE phase = "backfill" /\ flushing = "stored"
    <2>1. Commit.events \in Seq(Event)  BY <1>6, CommitIs
    <2> QED  BY <1>6, <2>1 DEF ServiceInv, Flush, New
  <1>7. CASE phase = "backfill" /\ flushing # "stored"
    BY <1>1, <1>2, <1>7 DEF ServiceInv, Flush, Loads, Old
  <1> QED  BY <1>3, <1>4, <1>5, <1>6, <1>7 DEF ServiceInv, Shape

LEMMA ReceiveStep ==
  ASSUME ServiceInv, NEW k \in Browsers, Receive(k)
  PROVE  ServiceInv'
  <1> DEFINE p == browser[k].pair
             x == browser[k].candle
             c == Min(Unseen(k))
             f == [browser[k] EXCEPT !.cursor = c, !.candle = Shown(k, log[c])]
  <1>1. /\ browser[k].state = "live" /\ Unseen(k) # {}
        /\ browser' = [browser EXCEPT ![k] =
              IF log[c].topic = Reset THEN Generation(@.pair)
              ELSE [@ EXCEPT !.cursor = c, !.candle = Shown(k, log[c])]]
        /\ UNCHANGED <<engineVars, phase, loading, flushing, pending, snapshot, log, db, faults>>
    BY DEF Receive
  <1>2. browser \in [Browsers -> Follower] /\ log \in Seq(Event)  BY DEF ServiceInv, Shape
  <1>3. /\ browser[k] \in Follower /\ p \in Pairs /\ x \in Candles \cup {None}
        /\ browser[k].cursor \in Nat /\ Reset \notin Pairs
    BY <1>2, ServiceAssumption DEF Follower, ServiceAssumption
  <1>4. /\ c \in Ahead(log, browser[k].cursor, p)
        /\ \A j \in Ahead(log, browser[k].cursor, p) : c <= j
    BY <1>1, UnseenMin
  <1> HIDE DEF c
  <1>5. c \in 1..Len(log) /\ c \in Nat /\ log[c].topic \in {p, Reset} /\ log[c] \in Event
    <2>1. c \in 1..Len(log)  BY <1>4 DEF Ahead
    <2> QED  BY <1>2, <1>4, <2>1, ElementOfSeq DEF Ahead
  <1>6. CASE log[c].topic = Reset
    <2>1. browser' = [browser EXCEPT ![k] = Generation(browser[k].pair)]  BY <1>1, <1>2, <1>6
    <2> QED  BY <1>1, <2>1, GenerationStep
  <1>7. CASE log[c].topic = p /\ log[c].topic # Reset
    <2>1. Shown(k, log[c]) \in Candles \cup {None}
      <3>1. log[c].candle \in Candles \cup {None}  BY <1>5 DEF Event
      <3> QED  BY <1>3, <3>1 DEF Shown
    <2>3. browser' = [browser EXCEPT ![k] = f]  BY <1>1, <1>2, <1>7
    <2>4. /\ f.state = "live" /\ f.cursor = c /\ f.pair = p /\ f.candle = Shown(k, log[c])
          /\ f.answer = browser[k].answer /\ f.overtaken = browser[k].overtaken
          /\ f \in Follower
      BY <1>1, <1>3, <1>5, <2>1 DEF Follower
    <2> HIDE DEF f
    <2>7. DurableLog => /\ c \in 1..Len(db.log) /\ db.log[c] = log[c]
                        /\ c \in 0..Len(log) /\ c \in 0..Len(db.log)
      <3> SUFFICES ASSUME DurableLog
                   PROVE  c \in 1..Len(db.log) /\ db.log[c] = log[c]
        BY <1>5
      <3>1. \E E \in Seq(Event) : db.log = log \o E  BY PublishedFirst
      <3>2. ASSUME NEW E \in Seq(Event), db.log = log \o E
            PROVE  c \in 1..Len(db.log) /\ db.log[c] = log[c]
        <4>1. Len(db.log) = Len(log) + Len(E) /\ Len(log) \in Nat /\ Len(E) \in Nat
          BY <1>2, <3>2, Joined
        <4>2. (log \o E)[c] = log[c]  BY <1>2, <1>5, Joined
        <4> QED  BY <1>5, <3>2, <4>1, <4>2
      <3> QED  BY <1>5, <3>1, <3>2
    <2>6. phase = "serving"  BY <1>1 DEF ServiceInv, Shape
    <2>5. DurableLog /\ ~f.overtaken =>
            From(db.log, db.candles, p, f) /\ From(log, snapshot, p, f)
      <3> SUFFICES ASSUME DurableLog, ~browser[k].overtaken
                   PROVE  From(db.log, db.candles, p, f) /\ From(log, snapshot, p, f)
        BY <2>4
      <3>2. Served(log, snapshot) /\ Served(db.log, db.candles)  BY <2>6 DEF ServiceInv, Readers
      <3>3. x \in Candles /\ Follow(log, snapshot, browser[k].cursor, p, x)
        BY <1>1, <3>2 DEF Served, GoesOnFrom, From
      <3>4. \A j \in Ahead(log, browser[k].cursor, p) : j <= c => log[j].topic = p
        <4>1. \A j \in Ahead(log, browser[k].cursor, p) : j \in Nat  BY DEF Ahead
        <4>2. \A j \in Ahead(log, browser[k].cursor, p) : j <= c => j = c  BY <1>4, <1>5, <4>1
        <4> QED  BY <1>7, <4>2
      <3>5. log[c].candle \in Candles /\ x \subseteq log[c].candle
        BY <1>4, <3>3, <3>4 DEF Follow
      <3>6. f.candle = log[c].candle
        <4>1. Cardinality(log[c].candle) >= Cardinality(x)  BY <3>3, <3>5, CandleOrder
        <4> QED  BY <2>4, <4>1 DEF Shown
      <3>7. Follow(log, snapshot, c, p, log[c].candle)
        BY <1>3, <1>5, <1>7, <3>2 DEF Served, LogTells
      <3>8. Follow(db.log, db.candles, c, p, log[c].candle)
        BY <1>3, <1>7, <2>7, <3>2 DEF Served, LogTells
      <3> QED  BY <2>4, <2>7, <3>5, <3>6, <3>7, <3>8 DEF From
    <2>8. ASSUME NEW L, NEW C, GoesOnFrom(L, C, browser[k]), c \in 0..Len(L),
                 ~f.overtaken => From(L, C, p, f)
          PROVE  GoesOnFrom(L, C, f)
      BY <2>4, <2>8 DEF GoesOnFrom, From
    <2>9. DurableLog => GoesOnFrom(db.log, db.candles, f) /\ GoesOnFrom(log, snapshot, f)
      BY <2>5, <2>6, <2>7, <2>8, Going
    <2> QED  BY <1>1, <2>3, <2>4, <2>6, <2>9, BrowserStep
  <1> QED  BY <1>5, <1>6, <1>7

-----------------------------------------------------------------------------
(* Invariance.                                                             *)

LEMMA NextServiceInv ==
  ASSUME NothingThrows, ServiceInv, [ServiceNext]_allVars
  PROVE  ServiceInv'
  <1>1. ASSUME NEW b \in Offered, Ingest(b) PROVE ServiceInv'  BY <1>1, IngestStep
  <1>2. ASSUME NEW b \in Offered, Reconcile(b) PROVE ServiceInv'  BY <1>2, ReconcileStep
  <1>3. CASE UNCHANGED allVars
    <2>1. /\ UNCHANGED engineVars
          /\ UNCHANGED <<phase, loading, flushing, pending, snapshot, log, db, browser, faults>>
      BY <1>3 DEF allVars, serviceVars
    <2>2. UNCHANGED <<blocks, eventIndex, views, reorgCount, backfillStatus, coverageThrough>>
      BY <2>1 DEF engineVars
    <2>3. EngineOK'  BY <2>1, EngineFrame DEF ServiceInv
    <2>4. Shape'  BY <2>1 DEF ServiceInv, Shape
    <2>5. Flush'
      <3>1. New(db, <<>>) => New(db, <<>>)'  BY <2>1, <2>2 DEF New
      <3>2. Mutation => Mutation'  BY <2>1, <2>2 DEF Mutation, Old, New
      <3>3. Loads => Loads'  BY <2>1, <2>2 DEF Loads, Old
      <3>4. New(db, Commit.events) => New(db, Commit.events)'
        BY <2>1, <2>2, SameCommit DEF New
      <3> QED  BY <2>1, <2>2, <3>1, <3>2, <3>3, <3>4 DEF ServiceInv, Flush
    <2>6. CoverageOK'  BY <2>1, <2>2 DEF ServiceInv, CoverageOK, Within
    <2>7. Durable(db)'  BY <2>1 DEF ServiceInv, Durable, Held
    <2>8. DurableLog => Readers'  BY <2>1 DEF ServiceInv, Readers, Served
    <2> QED  BY <2>3, <2>4, <2>5, <2>6, <2>7, <2>8 DEF ServiceInv
  <1>4. ASSUME NEW b \in Offered, IngestDuplicate(b) PROVE ServiceInv'
    BY <1>3, <1>4 DEF IngestDuplicate, Duplicated, allVars
  <1>5. CASE RetryFlush
    <2>1. faults' \in 0..MaxFaults  BY <1>5 DEF RetryFlush, ServiceInv, Shape
    <2> QED  BY <1>5, <2>1, FlushTurns DEF RetryFlush
  <1>6. CASE StoreCommits
    <2>1. faults' \in 0..MaxFaults  BY <1>6 DEF StoreCommits, ServiceInv, Shape
    <2> QED  BY <1>6, <2>1, CommitStep DEF StoreCommits
  <1>7. CASE Publish
    <2>1. backfillStatus = "complete" /\ loading = None
      BY <1>7 DEF Publish, ServiceInv, CoverageOK, Shape
    <2> QED  BY <1>7, <2>1, PublishStep DEF Publish
  <1>8. CASE StoreFails  BY <1>8, StoreFailsStep
  <1>9. CASE AnswerLost  BY <1>9, AnswerLostStep
  <1>10. CASE Crash
    <2>1. Ended /\ UNCHANGED db /\ faults' = faults + 1 /\ faults < MaxFaults
      BY <1>10 DEF Crash
    <2> QED  BY <2>1, FaultCounts, EndedStep
  <1>11. CASE Restart  BY <1>11, RestartStep
  <1>12. ASSUME NEW b \in Offered, BackfillIngest(b) PROVE ServiceInv'
    BY <1>12, BackfillIngestStep
  <1>13. ASSUME NEW b \in Offered, BackfillRewind(b) PROVE ServiceInv'
    BY <1>13, BackfillRewindStep
  <1>14. CASE BackfillCompletes
    <2>1. /\ phase = "backfill" /\ flushing = "idle" /\ EndBackfill("complete")
          /\ UNCHANGED faults
      BY <1>14 DEF BackfillCompletes, InLoop
    <2>2. faults' \in 0..MaxFaults  BY <2>1 DEF ServiceInv, Shape
    <2> QED  BY <2>1, <2>2, EndBackfillStep
  <1>15. CASE BackfillStops  BY <1>15, BackfillStopsStep
  <1>16. CASE StartEnds  BY <1>16, StartEndsStep
  <1>17. ASSUME NEW k \in Browsers, Load(k) PROVE ServiceInv'  BY <1>17, LoadCandleStep
  <1>18. ASSUME NEW k \in Browsers, Connect(k) PROVE ServiceInv'
    <2>1. browser \in [Browsers -> Follower]  BY DEF ServiceInv, Shape
    <2>2. /\ phase = "serving" /\ browser[k].state = "closed"
          /\ UNCHANGED <<engineVars, phase, loading, flushing, pending, snapshot, log, db, faults>>
      BY <1>18 DEF Connect
    <2>3. CASE browser[k].cursor > Len(log)
      <3>1. browser' = [browser EXCEPT ![k] = Generation(browser[k].pair)]
        BY <1>18, <2>1, <2>3 DEF Connect
      <3> QED  BY <2>2, <3>1, GenerationStep
    <2>4. CASE ~(browser[k].cursor > Len(log))
      <3>1. browser' = [browser EXCEPT ![k].state = "live"]
        BY <1>18, <2>1, <2>4 DEF Connect
      <3> QED  BY <2>2, <3>1, ConnectionStep
    <2> QED  BY <2>3, <2>4
  <1>19. ASSUME NEW k \in Browsers, Refuse(k) PROVE ServiceInv'
    <2>1. browser' = [browser EXCEPT ![k] = Generation(browser[k].pair)]
      BY <1>19 DEF Refuse, ServiceInv, Shape
    <2> QED  BY <1>19, <2>1, GenerationStep DEF Refuse
  <1>20. ASSUME NEW k \in Browsers, Disconnect(k) PROVE ServiceInv'
    BY <1>20, ConnectionStep DEF Disconnect
  <1>21. ASSUME NEW k \in Browsers, Receive(k) PROVE ServiceInv'  BY <1>21, ReceiveStep
  <1>22. ASSUME NEW k \in Browsers, Answered(k) PROVE ServiceInv'  BY <1>22, AnsweredStep
  <1>23. ASSUME NEW k \in Browsers, AnswerFails(k) PROVE ServiceInv'
    <2>1. browser' = [browser EXCEPT ![k] = Generation(browser[k].pair)]
      BY <1>23 DEF AnswerFails, ServiceInv, Shape
    <2> QED  BY <1>23, <2>1, GenerationStep DEF AnswerFails
  <1> QED
    BY <1>1, <1>2, <1>3, <1>4, <1>5, <1>6, <1>7, <1>8, <1>9, <1>10, <1>11, <1>12, <1>13, <1>14,
       <1>15, <1>16, <1>17, <1>18, <1>19, <1>20, <1>21, <1>22, <1>23
    DEF ServiceNext, BrowserNext

(* The inductive invariant holds of every behaviour in which no block      *)
(* throws, whatever fails and however often the process starts again.      *)
THEOREM ServiceInvariance ==
  ASSUME NothingThrows
  PROVE  ServiceSpec => []ServiceInv
  <1>1. ServiceInv /\ [ServiceNext]_allVars => ServiceInv'  BY NextServiceInv
  <1> QED  BY <1>1, InitServiceInv, PTL DEF ServiceSpec

-----------------------------------------------------------------------------
(* What it means.                                                          *)

LEMMA DurableRestores ==
  ASSUME ServiceInv
  PROVE  AlwaysRestorable
  BY HoldsLoaded DEF ServiceInv, Durable, Held, AlwaysRestorable

LEMMA SettledReads ==
  ASSUME ServiceInv
  PROVE  ReadersSeeDurable
  <1> SUFFICES ASSUME Settled
               PROVE  /\ Held(db) = blocks
                      /\ db.reorgs = reorgCount
                      /\ db.status = backfillStatus /\ db.coverage = coverageThrough
                      /\ DurableLog => db.log = log
    BY DEF ReadersSeeDurable, Held
  <1>1. New(db, <<>>) /\ Old(db)  BY SettledIs
  <1>2. db.log \in Seq(Event) /\ (~DurableLog => db.log = <<>>)  BY DEF ServiceInv, Durable
  <1>3. Held(db) = blocks  BY <1>1, <1>2, NewIsDurable DEF ServiceInv
  <1> QED  BY <1>1, <1>3 DEF New, Old

LEMMA PrefixIs ==
  ASSUME NEW L \in Seq(Event), NEW E \in Seq(Event)
  PROVE  /\ IsPrefix(L, L \o E) /\ Len(L \o E) >= Len(L)
         /\ SubSeq(L \o E, 1, Len(L)) = L
         /\ SubSeq(L \o E, Len(L) + 1, Len(L \o E)) = E
  <1> DEFINE M == L \o E
             n == Len(L)
  <1>1. /\ M \in Seq(Event) /\ Len(M) = n + Len(E) /\ n \in Nat /\ Len(E) \in Nat
        /\ \A i \in 1..n : M[i] = L[i]
        /\ \A i \in 1..Len(E) : M[n + i] = E[i]
    BY Joined
  <1> HIDE DEF M
  <1>2. \A i \in 1..Len(M) : M[i] \in Event  BY <1>1, ElementOfSeq
  <1>3. SubSeq(M, 1, n) = L
    <2>1. \A i \in 1..n : M[i] \in Event  BY <1>1, <1>2
    <2>2. /\ SubSeq(M, 1, n) \in Seq(Event)
          /\ Len(SubSeq(M, 1, n)) = IF 1 <= n THEN n - 1 + 1 ELSE 0
          /\ \A i \in 1..(n - 1 + 1) : SubSeq(M, 1, n)[i] = M[1 + i - 1]
      BY <1>1, <2>1, SubSeqProperties
    <2>3. Len(SubSeq(M, 1, n)) = n /\ \A i \in 1..n : i \in 1..(n - 1 + 1) /\ 1 + i - 1 = i
      BY <1>1, <2>2
    <2>4. \A i \in 1..n : SubSeq(M, 1, n)[i] = L[i]  BY <1>1, <2>2, <2>3
    <2> QED  BY <2>2, <2>3, <2>4, SeqEqual
  <1>4. SubSeq(M, n + 1, Len(M)) = E
    <2> DEFINE m == n + 1
               k == Len(M)
    <2>1. m \in Int /\ k \in Int /\ \A i \in m..k : i \in 1..Len(M)  BY <1>1
    <2>2. \A i \in m..k : M[i] \in Event  BY <1>2, <2>1
    <2>3. /\ SubSeq(M, m, k) \in Seq(Event)
          /\ Len(SubSeq(M, m, k)) = IF m <= k THEN k - m + 1 ELSE 0
          /\ \A i \in 1..(k - m + 1) : SubSeq(M, m, k)[i] = M[m + i - 1]
      BY <2>1, <2>2, SubSeqProperties
    <2>4. /\ Len(SubSeq(M, m, k)) = Len(E)
          /\ \A i \in 1..Len(E) : i \in 1..(k - m + 1) /\ m + i - 1 = n + i
      BY <1>1, <2>3
    <2>5. \A i \in 1..Len(E) : SubSeq(M, m, k)[i] = E[i]  BY <1>1, <2>3, <2>4
    <2> QED  BY <2>3, <2>4, <2>5, SeqEqual
  <1>5. SubSeq(L, 1, n) = L  BY SubSeqFull
  <1> QED  BY <1>1, <1>3, <1>4, <1>5 DEF IsPrefix, M

LEMMA ServiceIsConsistent ==
  ASSUME ServiceInv
  PROVE  ServiceConsistent
  <1>1. ServiceTypeOK
    BY EngineTypes DEF ServiceInv, EngineOK, Retained, Shape, ServiceTypeOK, TypeOK
  <1>2. PublishedIsDurable
    <2> SUFFICES ASSUME DurableLog PROVE IsPrefix(log, db.log)  BY DEF PublishedIsDurable
    <2>1. log \in Seq(Event) /\ \E E \in Seq(Event) : db.log = log \o E
      BY PublishedFirst DEF ServiceInv, Shape
    <2> QED  BY <2>1, PrefixIs
  <1>3. CoverageWithinHead  BY SettledIs DEF CoverageWithinHead, Within
  <1> QED  BY <1>1, <1>2, <1>3 DEF ServiceConsistent

LEMMA FollowersRead ==
  ASSUME ServiceInv, DurableLog
  PROVE  FollowersCurrent
  <1> SUFFICES ASSUME NEW k \in Browsers, browser[k].state = "live", Unseen(k) = {},
                      ~browser[k].overtaken
               PROVE  browser[k].candle = snapshot[browser[k].pair]
    BY DEF FollowersCurrent
  <1>1. phase = "serving"  BY DEF ServiceInv, Shape
  <1>2. Follow(log, snapshot, browser[k].cursor, browser[k].pair, browser[k].candle)
    BY <1>1, Going DEF GoesOnFrom, From
  <1>3. Ahead(log, browser[k].cursor, browser[k].pair) = {}  BY UnseenMin
  <1> QED  BY <1>2, <1>3 DEF Follow

(* Whatever failed before, the durable blocks can be restored, and the     *)
(* durable candles are theirs: no crash, failed transaction or lost answer *)
(* leaves the store in between (appendCanonicalStateAndCandleEvents).      *)
THEOREM Restorability ==
  ASSUME NothingThrows
  PROVE  ServiceSpec => []AlwaysRestorable
  <1>1. ServiceInv => AlwaysRestorable  BY DurableRestores
  <1> QED  BY <1>1, ServiceInvariance, PTL

(* Whenever a reader's turn at the mutex comes, the engine it reads is the *)
(* one a restart would restore (#flushPendingCanonicalCommit).             *)
THEOREM DurableReads ==
  ASSUME NothingThrows
  PROVE  ServiceSpec => []ReadersSeeDurable
  <1>1. ServiceInv => ReadersSeeDurable  BY SettledReads
  <1> QED  BY <1>1, ServiceInvariance, PTL

(* A commit that is tried again, after a failure or a lost answer, writes  *)
(* the events it wrote at the cursors where it wrote them.                 *)
THEOREM IdempotentRetry ==
  ASSUME NothingThrows
  PROVE  ServiceSpec => []RetryIdempotent
  <1>1. ServiceInv => RetryIdempotent  BY NoConflict DEF RetryIdempotent
  <1> QED  BY <1>1, ServiceInvariance, PTL

(* Nothing is seen before it is durable, and what is served claims no      *)
(* coverage beyond its head.                                               *)
THEOREM Consistent ==
  ASSUME NothingThrows
  PROVE  ServiceSpec => []ServiceConsistent
  <1>1. ServiceInv => ServiceConsistent  BY ServiceIsConsistent
  <1> QED  BY <1>1, ServiceInvariance, PTL

(* A connected browser that has received all there is shows the candle     *)
(* last published, over reconnects, restarts, reorgs, failed commits and   *)
(* answers that arrive among the events, unless an answer of the same      *)
(* streamCursor took back what events had shown.                           *)
THEOREM CurrentFollowers ==
  ASSUME NothingThrows, DurableLog
  PROVE  ServiceSpec => []FollowersCurrent
  <1>1. ServiceInv => FollowersCurrent  BY FollowersRead
  <1> QED  BY <1>1, ServiceInvariance, PTL

-----------------------------------------------------------------------------
(* The durable state is a DurableFeed.                                     *)

LEMMA TellTells ==
  ASSUME NEW E, NEW C, NEW D, Tell(E, C, D), NEW p \in Pairs, D[p] # C[p]
  PROVE  Feed!Tells(E, p, D[p])
  <1> DEFINE of(i) == /\ E[i].topic \in {p, Reset}
                      /\ \A j \in DOMAIN E : E[j].topic \in {p, Reset} => j <= i
  <1>1. E \in Seq(Event) /\ Reset \notin Pairs
    BY TellType, ServiceAssumption DEF ServiceAssumption
  <1>2. DOMAIN E = 1..Len(E) /\ Len(E) \in Nat  BY <1>1, LenProperties
  <1>3. \E i \in DOMAIN E : of(i) /\ (E[i].topic = p => E[i].candle = D[p])
    <2>1. CASE E = <<ResetEvent>>
      <3>1. Len(E) = 1 /\ E[1].topic = Reset  BY <2>1 DEF ResetEvent
      <3>2. 1 \in DOMAIN E /\ \A j \in DOMAIN E : j <= 1  BY <1>2, <3>1
      <3> QED  BY <1>1, <3>1, <3>2
    <2>2. CASE Changes(E, C, D)
      <3>1. PICK i \in 1..Len(E) : E[i].topic = p  BY <2>2 DEF Changes
      <3>2. \A j \in 1..Len(E) : E[j].topic \in {p, Reset} => j = i
        BY <1>1, <2>2, <3>1 DEF Changes
      <3>3. E[i].candle = D[p]  BY <2>2, <3>1 DEF Changes
      <3>4. i <= i  BY <1>2
      <3> QED  BY <1>2, <3>1, <3>2, <3>3, <3>4
    <2> QED  BY <2>1, <2>2 DEF Tell
  <1>4. \A i, j \in DOMAIN E : of(i) /\ of(j) => i = j  BY <1>2
  <1>5. Feed!Last(E, p) = CHOOSE i \in DOMAIN E : of(i)  BY DEF Feed!Last
  <1> HIDE DEF of
  <1>6. PICK i \in DOMAIN E : of(i) /\ (E[i].topic = p => E[i].candle = D[p])  BY <1>3
  <1>7. Feed!Last(E, p) = i  BY <1>4, <1>5, <1>6
  <1>8. E[i].topic \in {p, Reset}  BY <1>6 DEF of
  <1> QED  BY <1>6, <1>7, <1>8 DEF Feed!Tells

LEMMA WritesOrNot ==
  ASSUME [ServiceNext]_allVars
  PROVE  UNCHANGED db \/ (flushing = "storing" /\ db' = Written(Commit))
  BY DEF ServiceNext, allVars, serviceVars, Ingest, IngestDuplicate, Reconcile, RetryFlush,
    StoreCommits, Publish, Published, StoreFails, AnswerLost, Crash, Restart, BackfillIngest,
    BackfillRewind, BackfillCompletes, EndBackfill, BackfillStops, StartEnds, BrowserNext,
    Load, Request, Answered, AnswerFails, Connect, Refuse, Disconnect, Receive

LEMMA FeedStep ==
  ASSUME ServiceInv, DurableLog, flushing = "storing", db' = Written(Commit)
  PROVE  Feed!Step \/ UNCHANGED <<db.candles, db.log>>
  <1> DEFINE E == Commit.events
             D == CandlesOf(blocks)
  <1>1. /\ db'.candles = D /\ db'.log = log \o E  BY WrittenNew DEF New
  <1>2. E \in Seq(Event) /\ log \in Seq(Event) /\ Tell(E, snapshot, D)
    BY CommitIs DEF ServiceInv, Shape
  <1>3. Old(db) \/ New(db, E)
    <2>1. CASE phase = "serving"
      BY <2>1, CommitIs DEF Mutation
    <2>2. CASE phase = "backfill"
      BY <2>2 DEF ServiceInv, Flush, Loads
    <2> QED  BY <2>1, <2>2, CommitIs
  <1> HIDE DEF E, D
  <1>4. CASE New(db, E)  BY <1>1, <1>4 DEF New, D
  <1>5. CASE Old(db)
    <2>1. db.candles = snapshot /\ db.log = log  BY <1>5 DEF Old
    <2>2. /\ Len(db'.log) >= Len(db.log)
          /\ SubSeq(db'.log, 1, Len(db.log)) = db.log
          /\ SubSeq(db'.log, Len(db.log) + 1, Len(db'.log)) = E
      BY <1>1, <1>2, <2>1, PrefixIs
    <2>3. \A p \in Pairs : db'.candles[p] # db.candles[p] => Feed!Tells(E, p, db'.candles[p])
      BY <1>1, <1>2, <2>1, TellTells
    <2> QED  BY <2>2, <2>3 DEF Feed!Step
  <1> QED  BY <1>3, <1>4, <1>5

(* The service implements DurableFeed: one transaction replaces candles    *)
(* and log at once, the log only grows, and it tells of every candle that  *)
(* changed, over retries, lost answers, crashes and restarts.              *)
THEOREM ImplementsFeed ==
  ASSUME NothingThrows, DurableLog
  PROVE  ServiceSpec => FeedSpec
  <1>1. ServiceInit => Feed!Init
    <2> SUFFICES ASSUME ServiceInit PROVE Feed!Init  OBVIOUS
    <2>1. db.candles = [p \in Pairs |-> {}] /\ db.log = <<>>  BY DEF ServiceInit, EmptyDb
    <2> QED  BY <2>1 DEF Feed!Init, Candles
  <1>2. ServiceInv /\ [ServiceNext]_allVars => [Feed!Step]_<<db.candles, db.log>>
    <2> SUFFICES ASSUME ServiceInv, [ServiceNext]_allVars
                 PROVE  Feed!Step \/ UNCHANGED <<db.candles, db.log>>
      OBVIOUS
    <2>1. CASE UNCHANGED db  BY <2>1
    <2>2. CASE flushing = "storing" /\ db' = Written(Commit)  BY <2>2, FeedStep
    <2> QED  BY <2>1, <2>2, WritesOrNot
  <1> QED  BY <1>1, <1>2, ServiceInvariance, PTL DEF ServiceSpec, FeedSpec, Feed!Spec
=============================================================================
