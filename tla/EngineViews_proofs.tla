------------------------ MODULE EngineViews_proofs ------------------------
(***************************************************************************)
(* Proofs about two views the engine keeps of its chain, and about those   *)
(* who follow them.  Candles, for any tree of blocks and any nested        *)
(* intervals: an increment, a rebuild and a restore all make the candles   *)
(* that the events of the chain make, and a follower who is told of        *)
(* changes holds them.  The bins of a pool, for any radius and range of    *)
(* bins: the engine has the window exactly, and a browser that follows the *)
(* stream shows the truth.                                                 *)
(***************************************************************************)
EXTENDS CandleRollups, PoolStream, CanonicalEngine_proofs, FiniteSetTheorems

-----------------------------------------------------------------------------
(* Candles: sequences put together in turn.                                *)

(* Induction up to a bound, over the set of the numbers for which a        *)
(* statement holds.                                                        *)
LEMMA InTurn ==
  ASSUME NEW N \in Nat, NEW S, 0 \in S, \A n \in 1..N : n - 1 \in S => n \in S
  PROVE  \A n \in 0..N : n \in S
  <1> DEFINE T == {n \in 0..N : n \notin S}
  <1>1. SUFFICES ASSUME T # {} PROVE FALSE  OBVIOUS
  <1>2. T \subseteq Nat  OBVIOUS
  <1>3. Min(T) \in T /\ \A y \in T : Min(T) <= y  BY <1>1, <1>2, MinProperties
  <1> DEFINE m == Min(T)
  <1> HIDE DEF m
  <1>4. m \in 0..N /\ m \notin S /\ \A y \in T : m <= y  BY <1>3 DEF m
  <1>5. m \in 1..N /\ m - 1 \in 0..N /\ ~(m <= m - 1)  BY <1>4
  <1>6. m - 1 \in S  BY <1>4, <1>5
  <1> QED  BY <1>4, <1>5, <1>6

(* What a candle is made of.                                               *)
Updates == Seq(EventIds)

LEMMA UpdatesFacts ==
  /\ <<>> \in Updates
  /\ \A p \in Updates : p \o <<>> = p /\ <<>> \o p = p /\ Len(p) \in Nat
  /\ \A p, q \in Updates : p \o q \in Updates /\ Len(p \o q) >= Len(p)
  /\ \A p, q, r \in Updates : (p \o q) \o r = p \o (q \o r)
  <1>1. <<>> \in Updates  BY EmptySeq DEF Updates
  <1>2. \A p \in Updates : p \o <<>> = p /\ <<>> \o p = p /\ Len(p) \in Nat
    BY ConcatEmptySeq, LenProperties DEF Updates
  <1>3. \A p, q \in Updates : p \o q \in Updates /\ Len(p \o q) >= Len(p)
    BY ConcatProperties, LenProperties DEF Updates
  <1>4. \A p, q, r \in Updates : (p \o q) \o r = p \o (q \o r)
    BY ConcatAssociative DEF Updates
  <1> QED  BY <1>1, <1>2, <1>3, <1>4

(* f is s put together up to each of its elements.                         *)
Turns(f, s, N) ==
  /\ f[0] = <<>>
  /\ \A n \in 1..N : f[n] = f[n - 1] \o s[n]
  /\ \A n \in 0..N : f[n] \in Updates

LEMMA FlattenTurns ==
  ASSUME NEW s \in Seq(Updates)
  PROVE  \E f : Turns(f, s, Len(s)) /\ FlattenSeq(s) = f[Len(s)]
  <1> DEFINE N == Len(s)
             Partly(g, m) == g = [i \in 1..m |-> IF i = 1 THEN s[i] ELSE g[i - 1] \o s[i]]
             S == {m \in Nat : \E g : Partly(g, m)}
  <1>1. N \in Nat /\ \A n \in 1..N : s[n] \in Updates  OBVIOUS
  <1>2. \A n \in 0..N : n \in S
    <2>1. 0 \in S
      <3> DEFINE g == [i \in 1..0 |-> <<>>]
      <3>1. Partly(g, 0)  OBVIOUS
      <3> QED  BY <3>1
    <2>2. ASSUME NEW m \in 1..N, m - 1 \in S PROVE m \in S
      <3>1. PICK g : Partly(g, m - 1)  BY <2>2
      <3> DEFINE h == [i \in 1..m |-> IF i = m THEN (IF m = 1 THEN s[m] ELSE g[m - 1] \o s[m])
                                      ELSE g[i]]
      <3>2. ASSUME NEW i \in 1..m PROVE h[i] = IF i = 1 THEN s[i] ELSE h[i - 1] \o s[i]
        <4>1. CASE i = m
          <5>1. i # 1 => i - 1 \in 1..m /\ i - 1 # m  BY <1>1, <4>1
          <5> QED  BY <4>1, <5>1
        <4>2. CASE i # m
          <5>1. i \in 1..(m - 1) /\ (i # 1 => i - 1 \in 1..m /\ i - 1 # m)  BY <1>1, <4>2
          <5>2. g[i] = IF i = 1 THEN s[i] ELSE g[i - 1] \o s[i]  BY <3>1, <5>1
          <5> QED  BY <4>2, <5>1, <5>2
        <4> QED  BY <4>1, <4>2
      <3>3. Partly(h, m)  BY <3>2
      <3>4. m \in Nat  BY <1>1
      <3> HIDE DEF h, Partly
      <3> QED  BY <3>3, <3>4
    <2> HIDE DEF S, N
    <2> QED  BY <1>1, <2>1, <2>2, InTurn
  <1>3. CASE N = 0
    <2>1. s = <<>>  BY <1>3, EmptySeq
    <2>2. FlattenSeq(s) = <<>>  BY <2>1, <1>3 DEF FlattenSeq
    <2> DEFINE f == [n \in 0..0 |-> <<>>]
    <2>3. f[0] = <<>> /\ <<>> \in Updates  BY UpdatesFacts
    <2>4. \A n \in 1..N : FALSE  BY <1>3
    <2>5. \A n \in 0..N : f[n] \in Updates  BY <1>3, <2>3
    <2> HIDE DEF f
    <2>6. Turns(f, s, N) /\ FlattenSeq(s) = f[N]  BY <1>3, <2>2, <2>3, <2>4, <2>5 DEF Turns
    <2> QED  BY <2>6
  <1>4. CASE N # 0
    <2> DEFINE g == CHOOSE g : Partly(g, N)
    <2>1. N \in 0..N  BY <1>1
    <2>2. \E h : Partly(h, N)  BY <1>2, <2>1
    <2>3. Partly(g, N)  BY <2>2
    <2>4. FlattenSeq(s) = g[N]  BY <1>4 DEF FlattenSeq
    <2> DEFINE f == [n \in 0..N |-> IF n = 0 THEN <<>> ELSE g[n]]
    <2> HIDE DEF g
    <2>5. \A n \in 1..N : n \in 0..N /\ n # 0 /\ n - 1 \in 0..N /\ (n # 1 => n - 1 # 0)  BY <1>1
    <2>6. s[1] \in Updates /\ <<>> \o s[1] = s[1]
      <3>1. 1 \in 1..N  BY <1>1, <1>4
      <3> QED  BY <1>1, <3>1, UpdatesFacts
    <2>7. \A n \in 1..N : f[n] = f[n - 1] \o s[n]
      <3> SUFFICES ASSUME NEW n \in 1..N PROVE f[n] = f[n - 1] \o s[n]  OBVIOUS
      <3>1. g[n] = IF n = 1 THEN s[n] ELSE g[n - 1] \o s[n]  BY <2>3
      <3>2. f[n] = g[n]  BY <2>5
      <3>3. f[n - 1] = IF n = 1 THEN <<>> ELSE g[n - 1]  BY <2>5
      <3> QED  BY <2>6, <3>1, <3>2, <3>3
    <2>8. f[0] = <<>>  BY <1>1
    <2>9. FlattenSeq(s) = f[N]  BY <1>4, <2>1, <2>4
    <2> HIDE DEF f
    <2> DEFINE R == {n \in 0..N : f[n] \in Updates}
    <2>10. \A n \in 0..N : n \in R
      <3>1. 0 \in R
        <4>1. <<>> \in Updates /\ 0 \in 0..N  BY <1>1, UpdatesFacts
        <4> QED  BY <2>8, <4>1
      <3>2. ASSUME NEW n \in 1..N, n - 1 \in R PROVE n \in R
        <4>1. f[n - 1] \in Updates /\ s[n] \in Updates  BY <1>1, <3>2
        <4>2. f[n] \in Updates  BY <2>7, <4>1, UpdatesFacts
        <4> QED  BY <1>1, <4>2
      <3> HIDE DEF R
      <3> QED  BY <1>1, <3>1, <3>2, InTurn
    <2>11. Turns(f, s, N)  BY <2>7, <2>8, <2>10 DEF Turns
    <2> QED  BY <2>9, <2>11
  <1> QED  BY <1>3, <1>4

(* Two sequences of sequences of which one has had x put into its m-th     *)
(* element, the last that is not empty.                                    *)
PutIn(s, t, x, m, N) ==
  /\ m \in 1..N /\ x \in Updates
  /\ \A n \in 1..N : s[n] \in Updates
  /\ t[m] = s[m] \o x
  /\ \A n \in 1..N : n # m => t[n] = s[n]
  /\ \A n \in 1..N : n > m => s[n] = <<>>

LEMMA TurnsExtended ==
  ASSUME NEW N \in Nat, NEW s, NEW t, NEW x, NEW m, NEW f, NEW g,
         PutIn(s, t, x, m, N), Turns(f, s, N), Turns(g, t, N)
  PROVE  g[N] = f[N] \o x
  <1> DEFINE S == {n \in 0..N : g[n] = IF n < m THEN f[n] ELSE f[n] \o x}
  <1>0. m \in 1..N /\ x \in Updates  BY DEF PutIn
  <1>1. \A n \in 0..N : n \in S
    <2>1. 0 \in S
      <3>1. 0 < m /\ 0 \in 0..N  BY <1>0
      <3>2. f[0] = g[0]  BY DEF Turns
      <3> QED  BY <3>1, <3>2
    <2>2. ASSUME NEW n \in 1..N, n - 1 \in S PROVE n \in S
      <3>0. n \in 0..N /\ n - 1 \in 0..N  OBVIOUS
      <3>1. g[n - 1] = IF n - 1 < m THEN f[n - 1] ELSE f[n - 1] \o x  BY <2>2
      <3>2. /\ f[n - 1] \in Updates /\ s[n] \in Updates
            /\ f[n] = f[n - 1] \o s[n] /\ g[n] = g[n - 1] \o t[n]
            /\ f[n] \in Updates
        BY <3>0 DEF Turns, PutIn
      <3>3. CASE n < m
        <4>1. n - 1 < m /\ n # m  BY <1>0, <3>3
        <4>2. g[n] = f[n]  BY <3>1, <3>2, <4>1 DEF PutIn
        <4> QED  BY <3>0, <3>3, <4>2
      <3>4. CASE n = m
        <4>1. n - 1 < m /\ ~(n < m)  BY <1>0, <3>4
        <4>2. g[n] = f[n - 1] \o (s[n] \o x)  BY <3>1, <3>2, <3>4, <4>1 DEF PutIn
        <4>3. (f[n - 1] \o s[n]) \o x = f[n - 1] \o (s[n] \o x)  BY <1>0, <3>2, UpdatesFacts
        <4>4. g[n] = f[n] \o x  BY <3>2, <4>2, <4>3
        <4> QED  BY <3>0, <4>1, <4>4
      <3>5. CASE n > m
        <4>1. ~(n - 1 < m) /\ ~(n < m) /\ n # m  BY <1>0, <3>5
        <4>2. s[n] = <<>> /\ t[n] = <<>>  BY <3>5, <4>1 DEF PutIn
        <4>3. f[n] = f[n - 1]  BY <3>2, <4>2, UpdatesFacts
        <4>4. f[n - 1] \o x \in Updates  BY <1>0, <3>2, UpdatesFacts
        <4>5. g[n] = f[n - 1] \o x  BY <3>1, <3>2, <4>1, <4>2, <4>4, UpdatesFacts
        <4> QED  BY <3>0, <4>1, <4>3, <4>5
      <3>6. n < m \/ n = m \/ n > m  BY <1>0
      <3> HIDE DEF S
      <3> QED  BY <3>3, <3>4, <3>5, <3>6
    <2> HIDE DEF S
    <2> QED  BY <2>1, <2>2, InTurn
  <1>2. N \in 0..N /\ ~(N < m)  BY <1>0
  <1> QED  BY <1>1, <1>2

LEMMA FlattenExtended ==
  ASSUME NEW s \in Seq(Updates), NEW t \in Seq(Updates), NEW x, NEW m,
         Len(t) = Len(s), PutIn(s, t, x, m, Len(s))
  PROVE  FlattenSeq(t) = FlattenSeq(s) \o x
  <1>1. PICK f : Turns(f, s, Len(s)) /\ FlattenSeq(s) = f[Len(s)]  BY FlattenTurns
  <1>2. PICK g : Turns(g, t, Len(s)) /\ FlattenSeq(t) = g[Len(s)]
    <2>1. \E g : Turns(g, t, Len(t)) /\ FlattenSeq(t) = g[Len(t)]  BY FlattenTurns
    <2> QED  BY <2>1
  <1>3. PICK N \in Nat : N = Len(s)  OBVIOUS
  <1>4. PutIn(s, t, x, m, N) /\ Turns(f, s, N) /\ Turns(g, t, N)  BY <1>1, <1>2, <1>3
  <1>5. g[N] = f[N] \o x  BY <1>4, TurnsExtended
  <1> QED  BY <1>1, <1>2, <1>3, <1>5

(* ... whose elements are all empty.                                       *)
LEMMA FlattenNothing ==
  ASSUME NEW s \in Seq(Updates), \A n \in 1..Len(s) : s[n] = <<>>
  PROVE  FlattenSeq(s) = <<>>
  <1>0. Len(s) \in Nat  OBVIOUS
  <1>1. PICK f : Turns(f, s, Len(s)) /\ FlattenSeq(s) = f[Len(s)]  BY FlattenTurns
  <1> DEFINE N == Len(s)
             S == {n \in 0..N : f[n] = <<>>}
  <1>2. \A n \in 0..N : n \in S
    <2>1. 0 \in S  BY <1>0, <1>1 DEF Turns
    <2>2. ASSUME NEW n \in 1..N, n - 1 \in S PROVE n \in S
      <3>1. f[n] = <<>> \o <<>>  BY <1>1, <2>2 DEF Turns
      <3>2. <<>> \o <<>> = <<>>  BY UpdatesFacts
      <3> QED  BY <1>0, <3>1, <3>2
    <2> HIDE DEF S, N
    <2>3. N \in Nat  BY <1>0 DEF N
    <2> QED  BY <2>1, <2>2, <2>3, InTurn
  <1>3. N \in 0..N  BY <1>0
  <1>4. f[N] = <<>>  BY <1>2, <1>3
  <1> QED  BY <1>1, <1>4

(* One more sequence at the end.                                           *)
LEMMA FlattenAppended ==
  ASSUME NEW s \in Seq(Updates), NEW t \in Seq(Updates),
         Len(t) = Len(s) + 1, \A n \in 1..Len(s) : t[n] = s[n]
  PROVE  FlattenSeq(t) = FlattenSeq(s) \o t[Len(s) + 1]
  <1>0. Len(s) \in Nat  OBVIOUS
  <1>1. PICK f : Turns(f, s, Len(s)) /\ FlattenSeq(s) = f[Len(s)]  BY FlattenTurns
  <1>2. PICK g : Turns(g, t, Len(t)) /\ FlattenSeq(t) = g[Len(t)]  BY FlattenTurns
  <1> DEFINE N == Len(s)
             S == {n \in 0..N : g[n] = f[n]}
  <1>3. \A n \in 0..N : n \in S
    <2>1. 0 \in S  BY <1>0, <1>1, <1>2 DEF Turns
    <2>2. ASSUME NEW n \in 1..N, n - 1 \in S PROVE n \in S
      <3>1. n \in 1..Len(t) /\ n \in 0..N  BY <1>0
      <3> QED  BY <1>1, <1>2, <2>2, <3>1 DEF Turns
    <2> HIDE DEF S, N
    <2>3. N \in Nat  BY <1>0 DEF N
    <2> QED  BY <2>1, <2>2, <2>3, InTurn
  <1>4. PICK k : k = N + 1  OBVIOUS
  <1>5. N \in 0..N /\ k \in 1..Len(t) /\ k - 1 = N /\ k = Len(t)  BY <1>0, <1>4
  <1>6. g[N] = f[N]  BY <1>3, <1>5
  <1>7. g[k] = g[k - 1] \o t[k]  BY <1>2, <1>5 DEF Turns
  <1> QED  BY <1>1, <1>2, <1>4, <1>5, <1>6, <1>7

LEMMA FlattenType ==
  ASSUME NEW s \in Seq(Updates)
  PROVE  FlattenSeq(s) \in Updates
  <1>1. PICK f : Turns(f, s, Len(s)) /\ FlattenSeq(s) = f[Len(s)]  BY FlattenTurns
  <1>2. Len(s) \in 0..Len(s)  OBVIOUS
  <1> QED  BY <1>1, <1>2 DEF Turns

-----------------------------------------------------------------------------
(* Candles: boundaries.                                                    *)

LEMMA Multiples ==
  ASSUME NEW S \in Nat, NEW a \in Int, NEW b \in Int, a < b
  PROVE  a * S + S <= b * S
  <1>1. PICK d \in Nat : b = a + 1 + d
    <2>1. b - a - 1 \in Nat /\ b = a + 1 + (b - a - 1)  OBVIOUS
    <2> QED  BY <2>1
  <1>2. b * S = a * S + S + d * S  BY <1>1
  <1>3. d * S \in Nat /\ a * S \in Int  BY <1>1
  <1> QED  BY <1>2, <1>3

LEMMA Divided ==
  ASSUME NEW S \in Nat \ {0}, NEW x \in Int
  PROVE  x \div S \in Int /\ (x \div S) * S <= x /\ x < (x \div S) * S + S
  OBVIOUS

LEMMA Divisible ==
  ASSUME NEW S \in Nat \ {0}, NEW x \in Int, x % S = 0
  PROVE  x = (x \div S) * S
  OBVIOUS

LEMMA Congruent ==
  ASSUME NEW S \in Nat \ {0}, NEW x \in Int, NEW y \in Int, x % S = y % S
  PROVE  \E p \in Int : x = y + p * S
  <1>1. x = (x \div S) * S + (x % S) /\ y = (y \div S) * S + (y % S)  OBVIOUS
  <1>2. x \div S \in Int /\ y \div S \in Int  OBVIOUS
  <1>3. PICK a \in Int, b \in Int : a = x \div S /\ b = y \div S  BY <1>2
  <1>4. x = y + (a - b) * S  BY <1>1, <1>3
  <1> QED  BY <1>4

LEMMA IntervalFacts ==
  /\ Len(Seconds) \in Nat /\ Len(Seconds) >= 1 /\ Intervals = 1..Len(Seconds)
  /\ \A i \in Intervals : Seconds[i] \in Nat \ {0} /\ Offset[i] \in Nat
  /\ \A i \in Intervals : i # 1 => Source[i] \in 1..(i - 1) /\ Source[i] \in Intervals
  <1>1. Len(Seconds) \in Nat /\ Len(Seconds) >= 1 /\ Intervals = 1..Len(Seconds)
    BY IntervalAssumption, EmptySeq, LenProperties DEF IntervalAssumption, Intervals
  <1>2. \A i \in Intervals : Seconds[i] \in Nat \ {0} /\ Offset[i] \in Nat
    BY <1>1, IntervalAssumption, ElementOfSeq DEF IntervalAssumption
  <1>3. \A i \in Intervals : i # 1 => Source[i] \in 1..(i - 1)
    BY IntervalAssumption DEF IntervalAssumption
  <1>4. \A i \in Intervals : i # 1 => Source[i] \in Intervals
    BY <1>1, <1>3
  <1> QED  BY <1>1, <1>2, <1>3, <1>4

(* A bucket starts at an aligned second.                                   *)
Aligned(i, s) == \E q \in Int : s = q * Seconds[i] + Offset[i]

LEMMA BoundaryFacts ==
  ASSUME NEW i \in Intervals, NEW t \in Int
  PROVE  /\ Boundary(i, t) \in Int /\ Aligned(i, Boundary(i, t))
         /\ Boundary(i, t) <= t /\ t < Boundary(i, t) + Seconds[i]
  <1>1. Seconds[i] \in Nat \ {0} /\ Offset[i] \in Nat  BY IntervalFacts
  <1>2. PICK S \in Nat \ {0}, o \in Nat : S = Seconds[i] /\ o = Offset[i]  BY <1>1
  <1>3. t - o \in Int  BY <1>2
  <1>4. PICK q : q = (t - o) \div S  OBVIOUS
  <1>5. q \in Int /\ q * S <= t - o /\ t - o < q * S + S  BY <1>3, <1>4, Divided
  <1>6. Boundary(i, t) = q * S + o  BY <1>2, <1>4 DEF Boundary
  <1>7. q * S \in Int  BY <1>5
  <1>8. Boundary(i, t) \in Int /\ Boundary(i, t) <= t /\ t < Boundary(i, t) + S
    BY <1>5, <1>6, <1>7
  <1> QED  BY <1>2, <1>5, <1>6, <1>8 DEF Aligned

(* Of the aligned seconds, that of t is the last that is not after t.      *)
LEMMA AlignedApart ==
  ASSUME NEW i \in Intervals, NEW a, NEW b, Aligned(i, a), Aligned(i, b)
  PROVE  a \in Int /\ b \in Int /\ (a < b => a + Seconds[i] <= b)
  <1>1. Seconds[i] \in Nat \ {0} /\ Offset[i] \in Nat  BY IntervalFacts
  <1>2. PICK S \in Nat, o \in Nat : S = Seconds[i] /\ o = Offset[i] /\ S # 0  BY <1>1
  <1>3. PICK p \in Int : a = p * S + o  BY <1>2 DEF Aligned
  <1>4. PICK q \in Int : b = q * S + o  BY <1>2 DEF Aligned
  <1>5. p * S \in Int /\ q * S \in Int  OBVIOUS
  <1>6. a \in Int /\ b \in Int  BY <1>3, <1>4, <1>5
  <1>7. ASSUME a < b PROVE a + S <= b
    <2>1. CASE p < q
      <3>1. p * S + S <= q * S  BY <2>1, Multiples
      <3> QED  BY <1>3, <1>4, <1>5, <3>1
    <2>2. CASE ~(p < q)
      <3>1. q < p \/ q = p  BY <2>2
      <3>2. q < p => q * S + S <= p * S  BY Multiples
      <3>3. q * S <= p * S  BY <1>5, <3>1, <3>2
      <3> QED  BY <1>3, <1>4, <1>5, <1>7, <3>3
    <2> QED  BY <2>1, <2>2
  <1> QED  BY <1>2, <1>6, <1>7

LEMMA BoundaryUnique ==
  ASSUME NEW i \in Intervals, NEW t \in Int, NEW s, Aligned(i, s), s <= t, t < s + Seconds[i]
  PROVE  Boundary(i, t) = s
  <1>1. /\ Boundary(i, t) \in Int /\ Aligned(i, Boundary(i, t))
        /\ Boundary(i, t) <= t /\ t < Boundary(i, t) + Seconds[i]
    BY BoundaryFacts
  <1>2. PICK b : b = Boundary(i, t)  OBVIOUS
  <1>3. Seconds[i] \in Nat  BY IntervalFacts
  <1>4. /\ s \in Int /\ b \in Int
        /\ s < b => s + Seconds[i] <= b
        /\ b < s => b + Seconds[i] <= s
    BY <1>1, <1>2, AlignedApart
  <1> QED  BY <1>1, <1>2, <1>3, <1>4
(* The aligned seconds of an interval are some of those of its source, of  *)
(* which it holds a number, its slots.                                     *)
Slots(i) == Seconds[i] \div Seconds[Source[i]]
Slot(i, s, n) == s + (n - 1) * Seconds[Source[i]]

LEMMA SlotFacts ==
  ASSUME NEW i \in Intervals, i # 1
  PROVE  /\ Slots(i) \in Nat /\ Slots(i) >= 1
         /\ Seconds[i] = Slots(i) * Seconds[Source[i]]
         /\ \A s : Aligned(i, s) => Aligned(Source[i], s)
  <1>1. PICK j \in Intervals : j = Source[i]  BY IntervalFacts
  <1>2. PICK S \in Nat \ {0}, Z \in Nat \ {0}, o \in Nat, u \in Nat :
          S = Seconds[i] /\ Z = Seconds[j] /\ o = Offset[i] /\ u = Offset[j]
    BY IntervalFacts
  <1>3. S % Z = 0 /\ o % Z = u % Z
    BY <1>1, <1>2, IntervalAssumption DEF IntervalAssumption
  <1>4. PICK r : r = S \div Z  OBVIOUS
  <1>5. r \in Int /\ S = r * Z
    <2>1. S \in Int  BY <1>2
    <2> QED  BY <1>3, <1>4, <2>1, Divisible, Divided
  <1>6. r >= 1
    <2>1. CASE r < 1
      <3>1. r * Z + Z <= 1 * Z  BY <1>5, <2>1, Multiples
      <3> QED  BY <1>5, <3>1
    <2> QED  BY <1>5, <2>1
  <1>7. PICK p \in Int : o = u + p * Z
    <2>1. o \in Int /\ u \in Int  OBVIOUS
    <2> QED  BY <1>3, <2>1, Congruent
  <1>8. ASSUME NEW s, Aligned(i, s) PROVE Aligned(j, s)
    <2>1. PICK q \in Int : s = q * S + o  BY <1>2, <1>8 DEF Aligned
    <2>2. s = (q * r + p) * Z + u  BY <1>5, <1>7, <2>1
    <2>3. q * r + p \in Int  BY <1>5
    <2> QED  BY <1>2, <2>2, <2>3 DEF Aligned
  <1> QED  BY <1>1, <1>2, <1>4, <1>5, <1>6, <1>8 DEF Slots

LEMMA SlotAligned ==
  ASSUME NEW i \in Intervals, i # 1, NEW s, Aligned(i, s), NEW n \in 1..Slots(i)
  PROVE  /\ Aligned(Source[i], Slot(i, s, n)) /\ Slot(i, s, n) \in Int
         /\ s <= Slot(i, s, n) /\ Slot(i, s, n) + Seconds[Source[i]] <= s + Seconds[i]
         /\ \A m \in 1..Slots(i) : m < n => Slot(i, s, m) + Seconds[Source[i]] <= Slot(i, s, n)
  <1>1. PICK j \in Intervals : j = Source[i]  BY IntervalFacts
  <1>2. PICK Z \in Nat, u \in Nat : Z = Seconds[j] /\ u = Offset[j] /\ Z # 0  BY IntervalFacts
  <1>3. PICK r \in Nat : r = Slots(i) /\ Seconds[i] = r * Z
    BY <1>1, <1>2, SlotFacts
  <1>4. Aligned(j, s)  BY <1>1, SlotFacts
  <1>5. PICK q \in Int : s = q * Z + u  BY <1>2, <1>4 DEF Aligned
  <1>6. n \in Int /\ 1 <= n /\ n <= r  BY <1>3
  <1>7. Slot(i, s, n) = s + (n - 1) * Z  BY <1>1, <1>2 DEF Slot
  <1>8. q * Z \in Int /\ (n - 1) * Z \in Int /\ s \in Int  BY <1>5, <1>6
  <1>9. Aligned(j, Slot(i, s, n))
    <2>1. s + (n - 1) * Z = (q + (n - 1)) * Z + u /\ q + (n - 1) \in Int  BY <1>5, <1>6
    <2> QED  BY <1>2, <1>7, <2>1 DEF Aligned
  <1>10. 0 <= (n - 1) * Z
    <2>1. n - 1 \in Nat  BY <1>6
    <2> QED  BY <2>1
  <1>11. (n - 1) * Z + Z <= r * Z
    <2>1. n - 1 \in Int /\ r \in Int /\ n - 1 < r  BY <1>6
    <2> QED  BY <2>1, Multiples
  <1>12. ASSUME NEW m \in 1..Slots(i), m < n PROVE Slot(i, s, m) + Z <= Slot(i, s, n)
    <2>1. m \in Int  OBVIOUS
    <2>2. m - 1 \in Int /\ n - 1 \in Int /\ m - 1 < n - 1  BY <1>6, <1>12, <2>1
    <2>3. (m - 1) * Z + Z <= (n - 1) * Z  BY <2>2, Multiples
    <2>4. Slot(i, s, m) = s + (m - 1) * Z  BY <1>1, <1>2 DEF Slot
    <2>5. (m - 1) * Z \in Int  BY <2>2
    <2> QED  BY <1>7, <1>8, <2>3, <2>4, <2>5
  <1> QED  BY <1>1, <1>2, <1>3, <1>7, <1>8, <1>9, <1>10, <1>11, <1>12

(* A second is in a bucket when it is in one of the bucket's slots.        *)
LEMMA SlotOf ==
  ASSUME NEW i \in Intervals, i # 1, NEW t \in Int
  PROVE  \E m \in 1..Slots(i) : Boundary(Source[i], t) = Slot(i, Boundary(i, t), m)
  <1>1. PICK j \in Intervals : j = Source[i]  BY IntervalFacts
  <1>2. PICK Z \in Nat, u \in Nat : Z = Seconds[j] /\ u = Offset[j] /\ Z # 0  BY IntervalFacts
  <1>3. PICK r \in Nat : r = Slots(i) /\ Seconds[i] = r * Z
    BY <1>1, <1>2, SlotFacts
  <1>4. PICK s, b : s = Boundary(i, t) /\ b = Boundary(j, t)  OBVIOUS
  <1>5. s \in Int /\ Aligned(i, s) /\ s <= t /\ t < s + r * Z
    BY <1>3, <1>4, BoundaryFacts
  <1>6. b \in Int /\ Aligned(j, b) /\ b <= t /\ t < b + Z  BY <1>2, <1>4, BoundaryFacts
  <1>7. Aligned(j, s)  BY <1>1, <1>5, SlotFacts
  <1>8. PICK p \in Int : s = p * Z + u  BY <1>2, <1>7 DEF Aligned
  <1>9. PICK q \in Int : b = q * Z + u  BY <1>2, <1>6 DEF Aligned
  <1>10. p * Z \in Int /\ q * Z \in Int /\ r * Z \in Int  OBVIOUS
  <1>11. p <= q
    <2>1. CASE q < p
      <3>1. q * Z + Z <= p * Z  BY <2>1, Multiples
      <3> QED  BY <1>5, <1>6, <1>8, <1>9, <1>10, <3>1
    <2> QED  BY <2>1
  <1>12. q < p + r
    <2>1. CASE ~(q < p + r)
      <3>1. (p + r) * Z <= q * Z
        <4>1. q = p + r \/ p + r < q  BY <2>1
        <4>2. p + r < q => (p + r) * Z + Z <= q * Z  BY Multiples
        <4>3. (p + r) * Z \in Int  OBVIOUS
        <4> QED  BY <1>10, <4>1, <4>2, <4>3
      <3>2. (p + r) * Z = p * Z + r * Z  OBVIOUS
      <3> QED  BY <1>5, <1>6, <1>8, <1>9, <1>10, <3>1, <3>2
    <2> QED  BY <2>1
  <1>13. PICK m \in Int : m = q - p + 1  OBVIOUS
  <1>14. m \in 1..r  BY <1>11, <1>12, <1>13
  <1>15. b = s + (m - 1) * Z
    <2>1. (m - 1) * Z = q * Z - p * Z  BY <1>13
    <2> QED  BY <1>8, <1>9, <1>10, <2>1
  <1> QED  BY <1>1, <1>2, <1>3, <1>4, <1>14, <1>15 DEF Slot

LEMMA SlotIn ==
  ASSUME NEW i \in Intervals, i # 1, NEW s, Aligned(i, s), NEW n \in 1..Slots(i),
         NEW t \in Int, Boundary(Source[i], t) = Slot(i, s, n)
  PROVE  Boundary(i, t) = s
  <1>1. PICK j \in Intervals : j = Source[i]  BY IntervalFacts
  <1>2. Boundary(j, t) <= t /\ t < Boundary(j, t) + Seconds[j]  BY BoundaryFacts
  <1>3. /\ s <= Slot(i, s, n) /\ Slot(i, s, n) + Seconds[j] <= s + Seconds[i]
        /\ Slot(i, s, n) \in Int
    BY <1>1, SlotAligned
  <1>4. s \in Int  BY AlignedApart
  <1>5. Seconds[i] \in Int /\ Seconds[j] \in Int  BY IntervalFacts
  <1>6. s <= t /\ t < s + Seconds[i]  BY <1>1, <1>2, <1>3, <1>4, <1>5
  <1> QED  BY <1>6, BoundaryUnique

LEMMA BoundaryTwice ==
  ASSUME NEW i \in Intervals, i # 1, NEW t \in Int
  PROVE  Boundary(i, Boundary(Source[i], t)) = Boundary(i, t)
  <1>1. PICK j \in Intervals : j = Source[i]  BY IntervalFacts
  <1>2. PICK b : b = Boundary(j, t)  OBVIOUS
  <1>3. b \in Int /\ Aligned(j, b)  BY <1>2, BoundaryFacts
  <1>4. Boundary(j, b) = b
    <2>1. b <= b /\ b < b + Seconds[j]  BY <1>3, IntervalFacts
    <2> QED  BY <1>3, <2>1, BoundaryUnique
  <1>5. PICK m \in 1..Slots(i) : b = Slot(i, Boundary(i, t), m)  BY <1>1, <1>2, SlotOf
  <1>6. Aligned(i, Boundary(i, t))  BY BoundaryFacts
  <1> QED  BY <1>1, <1>2, <1>3, <1>4, <1>5, <1>6, SlotIn

-----------------------------------------------------------------------------
(* Candles: what a chain gives to each.                                    *)

LEMMA InOrderFacts ==
  ASSUME NEW env \in Envelope
  PROVE  InOrder(env) \in Updates /\ (env.kept = {} => InOrder(env) = <<>>)
  <1> DEFINE es == Events[env.id]
             s == [n \in DOMAIN es |-> IF es[n] \in env.kept THEN <<es[n]>> ELSE <<>>]
  <1>1. env.id \in Blocks  BY DEF Envelope
  <1>2. es \in Seq(EventIds)  BY <1>1, OrderAssumption DEF OrderAssumption
  <1>3. /\ Len(es) \in Nat /\ DOMAIN es = 1..Len(es)
        /\ \A n \in 1..Len(es) : es[n] \in EventIds
    BY <1>2, LenProperties, ElementOfSeq
  <1>4. \A x \in EventIds : <<x>> \in Updates  BY DEF Updates
  <1>5. <<>> \in Updates  BY UpdatesFacts
  <1> HIDE DEF es
  <1>6. \A n \in 1..Len(es) : (IF es[n] \in env.kept THEN <<es[n]>> ELSE <<>>) \in Updates
    BY <1>3, <1>4, <1>5
  <1>7. s \in Seq(Updates) /\ Len(s) = Len(es)  BY <1>3, <1>6
  <1>8. InOrder(env) = FlattenSeq(s)  BY DEF InOrder, es
  <1>9. ASSUME env.kept = {} PROVE \A n \in 1..Len(s) : s[n] = <<>>  BY <1>3, <1>7, <1>9
  <1> HIDE DEF s
  <1>10. FlattenSeq(s) \in Updates  BY <1>7, FlattenType
  <1>11. env.kept = {} => FlattenSeq(s) = <<>>  BY <1>7, <1>9, FlattenNothing
  <1> QED  BY <1>8, <1>10, <1>11

LEMMA ShareFacts ==
  ASSUME NEW env \in Envelope, NEW k
  PROVE  Share(env, k) \in Updates /\ (env.kept = {} => Share(env, k) = <<>>)
  BY InOrderFacts, UpdatesFacts DEF Share

LEMMA PrefixGrows ==
  ASSUME NEW c \in Seq(Envelope), NEW n \in 1..Len(c)
  PROVE  Prefix(c, n) = Append(Prefix(c, n - 1), c[n])
  <1>1. Len(c) \in Nat /\ c[n] \in Envelope  BY ChainLen
  <1>2. n \in 0..Len(c) /\ n - 1 \in 0..Len(c) /\ n - 1 + 1 = n  BY <1>1
  <1>3. /\ Prefix(c, n) \in Seq(Envelope) /\ Len(Prefix(c, n)) = n
        /\ \A i \in 1..n : Prefix(c, n)[i] = c[i]
    BY <1>2, PrefixSeq
  <1>4. /\ Prefix(c, n - 1) \in Seq(Envelope) /\ Len(Prefix(c, n - 1)) = n - 1
        /\ \A i \in 1..(n - 1) : Prefix(c, n - 1)[i] = c[i]
    BY <1>2, PrefixSeq
  <1> DEFINE d == Append(Prefix(c, n - 1), c[n])
  <1>5. /\ d \in Seq(Envelope) /\ Len(d) = n - 1 + 1
        /\ \A i \in 1..(n - 1) : d[i] = Prefix(c, n - 1)[i]
        /\ d[n - 1 + 1] = c[n]
    BY <1>1, <1>4, AppendSeq
  <1> HIDE DEF d
  <1>6. \A i \in 1..n : d[i] = Prefix(c, n)[i]
    <2> SUFFICES ASSUME NEW i \in 1..n PROVE d[i] = Prefix(c, n)[i]  OBVIOUS
    <2>1. CASE i = n  BY <1>2, <1>3, <1>5, <2>1
    <2>2. CASE i # n
      <3>1. i \in 1..(n - 1)  BY <1>1, <2>2
      <3> QED  BY <1>3, <1>4, <1>5, <3>1
    <2> QED  BY <2>1, <2>2
  <1>7. d = Prefix(c, n)  BY <1>2, <1>3, <1>5, <1>6, SeqEqual
  <1> QED  BY <1>7 DEF d

(* What a chain gives to a candle, and the candles that it gives to.       *)
Shares(c, k) == [n \in DOMAIN c |-> Share(c[n], k)]
Given(c, k) == FlattenSeq(Shares(c, k))
Keys(c) == {KeyAt(i, Time[c[n].id]) : i \in Intervals, n \in {m \in DOMAIN c : c[m].kept # {}}}

LEMMA ReferenceIs ==
  ASSUME NEW c
  PROVE  ReferenceOf(c) = [k \in Keys(c) |-> Given(c, k)]
  BY DEF ReferenceOf, Keys, Given, Shares

LEMMA SharesFacts ==
  ASSUME NEW c \in Seq(Envelope), NEW k
  PROVE  /\ Shares(c, k) \in Seq(Updates) /\ Len(Shares(c, k)) = Len(c)
         /\ \A n \in 1..Len(c) : Shares(c, k)[n] = Share(c[n], k)
         /\ Given(c, k) \in Updates
  <1>1. Len(c) \in Nat /\ DOMAIN c = 1..Len(c) /\ \A n \in 1..Len(c) : c[n] \in Envelope
    BY ChainLen
  <1>2. \A n \in 1..Len(c) : Share(c[n], k) \in Updates  BY <1>1, ShareFacts
  <1>3. /\ Shares(c, k) \in Seq(Updates) /\ Len(Shares(c, k)) = Len(c)
        /\ \A n \in 1..Len(c) : Shares(c, k)[n] = Share(c[n], k)
    BY <1>1, <1>2 DEF Shares
  <1> QED  BY <1>3, FlattenType DEF Given

LEMMA KeyFacts ==
  ASSUME NEW c \in Seq(Envelope), NEW k \in Keys(c)
  PROVE  /\ k = <<k[1], k[2]>> /\ k[1] \in Intervals /\ k[2] \in Int /\ Aligned(k[1], k[2])
         /\ \E n \in 1..Len(c) : k = KeyAt(k[1], Time[c[n].id]) /\ c[n].kept # {}
  <1>1. Len(c) \in Nat /\ DOMAIN c = 1..Len(c) /\ \A n \in 1..Len(c) : c[n] \in Envelope
    BY ChainLen
  <1>2. PICK i \in Intervals, n \in 1..Len(c) : k = KeyAt(i, Time[c[n].id]) /\ c[n].kept # {}
    BY <1>1 DEF Keys
  <1>3. Time[c[n].id] \in Int  BY <1>1, TimeType DEF Envelope
  <1>4. k[1] = i /\ k[2] = Boundary(i, Time[c[n].id]) /\ k = <<k[1], k[2]>>  BY <1>2 DEF KeyAt
  <1> QED  BY <1>2, <1>3, <1>4, BoundaryFacts

LEMMA NoKeys ==
  /\ Keys(<<>>) = {}
  /\ \A k : Given(<<>>, k) = <<>>
  <1>1. <<>> \in Seq(Envelope) /\ Len(<<>>) = 0  BY EmptySeq
  <1>2. Keys(<<>>) = {}
    <2>1. ASSUME NEW k \in Keys(<<>>) PROVE FALSE
      <3>1. \E n \in 1..Len(<<>>) : <<>>[n].kept # {}  BY <1>1, <2>1, KeyFacts
      <3> QED  BY <1>1, <3>1
    <2> QED  BY <2>1
  <1>3. ASSUME NEW k PROVE Given(<<>>, k) = <<>>
    <2>1. Shares(<<>>, k) \in Seq(Updates) /\ Len(Shares(<<>>, k)) = 0  BY <1>1, SharesFacts
    <2> QED  BY <2>1, FlattenNothing DEF Given
  <1> QED  BY <1>2, <1>3

(* Nothing is given to what is not a candle of the chain.                  *)
LEMMA NotGiven ==
  ASSUME NEW c \in Seq(Envelope), NEW k, k \notin Keys(c), k[1] \in Intervals
  PROVE  Given(c, k) = <<>>
  <1>1. Len(c) \in Nat /\ DOMAIN c = 1..Len(c) /\ \A n \in 1..Len(c) : c[n] \in Envelope
    BY ChainLen
  <1>2. ASSUME NEW n \in 1..Len(c) PROVE Shares(c, k)[n] = <<>>
    <2>1. CASE KeyAt(k[1], Time[c[n].id]) = k
      <3>1. c[n].kept = {}  BY <1>1, <2>1 DEF Keys
      <3> QED  BY <1>1, <3>1, ShareFacts, SharesFacts
    <2>2. CASE KeyAt(k[1], Time[c[n].id]) # k
      BY <2>2, SharesFacts DEF Share
    <2> QED  BY <2>1, <2>2
  <1>3. Shares(c, k) \in Seq(Updates) /\ Len(Shares(c, k)) = Len(c)  BY SharesFacts
  <1> QED  BY <1>2, <1>3, FlattenNothing DEF Given

(* A block more gives its share.                                           *)
LEMMA GivenAppended ==
  ASSUME NEW c \in Seq(Envelope), NEW env \in Envelope, NEW k
  PROVE  Given(Append(c, env), k) = Given(c, k) \o Share(env, k)
  <1> DEFINE d == Append(c, env)
  <1>1. /\ d \in Seq(Envelope) /\ Len(d) = Len(c) + 1 /\ d[Len(c) + 1] = env
        /\ \A n \in 1..Len(c) : d[n] = c[n]
    BY AppendSeq
  <1>2. Len(c) \in Nat  BY ChainLen
  <1> HIDE DEF d
  <1>3. /\ Shares(c, k) \in Seq(Updates) /\ Len(Shares(c, k)) = Len(c)
        /\ \A n \in 1..Len(c) : Shares(c, k)[n] = Share(c[n], k)
    BY SharesFacts
  <1>4. /\ Shares(d, k) \in Seq(Updates) /\ Len(Shares(d, k)) = Len(d)
        /\ \A n \in 1..Len(d) : Shares(d, k)[n] = Share(d[n], k)
    BY <1>1, SharesFacts
  <1>5. \A n \in 1..Len(c) : Shares(d, k)[n] = Shares(c, k)[n]
    <2>1. \A n \in 1..Len(c) : n \in 1..Len(d)  BY <1>1, <1>2
    <2> QED  BY <1>1, <1>3, <1>4, <2>1
  <1>6. Shares(d, k)[Len(c) + 1] = Share(env, k)
    <2>1. Len(c) + 1 \in 1..Len(d)  BY <1>1, <1>2
    <2> QED  BY <1>1, <1>4, <2>1
  <1>7. PICK s \in Seq(Updates), t \in Seq(Updates) : s = Shares(c, k) /\ t = Shares(d, k)
    BY <1>3, <1>4
  <1>8. Len(t) = Len(s) + 1 /\ \A n \in 1..Len(s) : t[n] = s[n]
    BY <1>1, <1>3, <1>4, <1>5, <1>7
  <1>9. FlattenSeq(t) = FlattenSeq(s) \o t[Len(s) + 1]  BY <1>8, FlattenAppended
  <1>10. t[Len(s) + 1] = Share(env, k)  BY <1>3, <1>6, <1>7
  <1> QED  BY <1>7, <1>9, <1>10 DEF Given, d

LEMMA KeysAppended ==
  ASSUME NEW c \in Seq(Envelope), NEW env \in Envelope
  PROVE  Keys(Append(c, env)) =
           Keys(c) \cup (IF env.kept = {} THEN {} ELSE {KeyAt(i, Time[env.id]) : i \in Intervals})
  <1> DEFINE d == Append(c, env)
  <1>1. /\ d \in Seq(Envelope) /\ Len(d) = Len(c) + 1 /\ d[Len(c) + 1] = env
        /\ \A n \in 1..Len(c) : d[n] = c[n]
    BY AppendSeq
  <1>2. Len(c) \in Nat /\ DOMAIN c = 1..Len(c) /\ DOMAIN d = 1..(Len(c) + 1)
    BY <1>1, ChainLen
  <1> HIDE DEF d
  <1>3. \A n \in 1..(Len(c) + 1) : n \in 1..Len(c) \/ n = Len(c) + 1  BY <1>2
  <1>4. Len(c) + 1 \in 1..(Len(c) + 1) /\ \A n \in 1..Len(c) : n \in 1..(Len(c) + 1)  BY <1>2
  <1>5. ASSUME NEW k
        PROVE  k \in Keys(d) <=> \/ k \in Keys(c)
                                 \/ env.kept # {} /\ \E i \in Intervals : k = KeyAt(i, Time[env.id])
    <2>1. k \in Keys(d) <=> \E i \in Intervals : \E n \in 1..(Len(c) + 1) :
                              d[n].kept # {} /\ k = KeyAt(i, Time[d[n].id])
      BY <1>2 DEF Keys
    <2>2. k \in Keys(c) <=> \E i \in Intervals : \E n \in 1..Len(c) :
                              c[n].kept # {} /\ k = KeyAt(i, Time[c[n].id])
      BY <1>2 DEF Keys
    <2> QED  BY <1>1, <1>3, <1>4, <2>1, <2>2
  <1> QED  BY <1>5 DEF d

-----------------------------------------------------------------------------
(* Candles: a bucket is its slots.                                         *)

SlotKey(i, s, n) == <<Source[i], Slot(i, s, n)>>
Filled(c, i, s) == [n \in 1..Slots(i) |-> Given(c, SlotKey(i, s, n))]

LEMMA FilledFacts ==
  ASSUME NEW c \in Seq(Envelope), NEW i \in Intervals, i # 1, NEW s
  PROVE  /\ Filled(c, i, s) \in Seq(Updates) /\ Len(Filled(c, i, s)) = Slots(i)
         /\ \A n \in 1..Slots(i) : Filled(c, i, s)[n] = Given(c, SlotKey(i, s, n))
  <1>1. Slots(i) \in Nat  BY SlotFacts
  <1>2. \A n \in 1..Slots(i) : Given(c, SlotKey(i, s, n)) \in Updates  BY SharesFacts
  <1> QED  BY <1>1, <1>2 DEF Filled

(* A block in the bucket fills one slot more, the last that is not empty.  *)
LEMMA SlotFilled ==
  ASSUME NEW c \in Seq(Envelope), NEW env \in Envelope, Clock(Append(c, env)),
         NEW i \in Intervals, i # 1, NEW s, Boundary(i, Time[env.id]) = s
  PROVE  FlattenSeq(Filled(Append(c, env), i, s)) = FlattenSeq(Filled(c, i, s)) \o Share(env, <<i, s>>)
  <1> DEFINE d == Append(c, env)
             t == Time[env.id]
  <1>0. env.id \in Blocks /\ t \in Int  BY TimeType DEF Envelope
  <1>1. /\ d \in Seq(Envelope) /\ Len(d) = Len(c) + 1 /\ d[Len(c) + 1] = env
        /\ \A n \in 1..Len(c) : d[n] = c[n]
    BY AppendSeq
  <1>2. /\ Len(c) \in Nat /\ DOMAIN c = 1..Len(c)
        /\ \A n \in 1..Len(c) : c[n] \in Envelope
    BY ChainLen
  <1>3. ASSUME NEW n \in 1..Len(c) PROVE Time[c[n].id] \in Int /\ Time[c[n].id] <= t
    <2>1. n \in 1..Len(d) /\ Len(c) + 1 \in 1..Len(d) /\ n <= Len(c) + 1  BY <1>1, <1>2
    <2>2. Time[d[n].id] <= Time[d[Len(c) + 1].id]  BY <2>1 DEF Clock
    <2> QED  BY <1>1, <1>2, <2>2, TimeType DEF Envelope
  <1>4. PICK m \in 1..Slots(i) : Boundary(Source[i], t) = Slot(i, s, m)  BY <1>0, SlotOf
  <1>5. Aligned(i, s)  BY <1>0, BoundaryFacts
  <1>6. \A n \in 1..Slots(i) :
          /\ Slot(i, s, n) \in Int
          /\ n < m => Slot(i, s, n) + Seconds[Source[i]] <= Slot(i, s, m)
          /\ m < n => Slot(i, s, m) + Seconds[Source[i]] <= Slot(i, s, n)
    BY <1>5, SlotAligned
  <1>7. Source[i] \in Intervals /\ Seconds[Source[i]] \in Nat /\ Seconds[Source[i]] > 0
    BY IntervalFacts
  <1>8. Slots(i) \in Nat  BY SlotFacts
  <1>9. t < Slot(i, s, m) + Seconds[Source[i]]  BY <1>0, <1>4, <1>7, BoundaryFacts
  <1> DEFINE x == InOrder(env)
             a == Filled(c, i, s)
             b == Filled(d, i, s)
  <1>10. Share(env, <<i, s>>) = x  BY DEF Share, KeyAt
  <1>11. Share(env, SlotKey(i, s, m)) = x  BY <1>4 DEF Share, KeyAt, SlotKey
  <1>12. ASSUME NEW n \in 1..Slots(i), n # m PROVE Share(env, SlotKey(i, s, n)) = <<>>
    <2>1. n < m \/ m < n  BY <1>8, <1>12
    <2>2. Slot(i, s, n) # Slot(i, s, m)  BY <1>6, <1>7, <2>1
    <2>3. KeyAt(Source[i], t) # SlotKey(i, s, n)  BY <1>4, <2>2 DEF KeyAt, SlotKey
    <2> QED  BY <2>3 DEF Share, SlotKey
  <1>13. ASSUME NEW n \in 1..Slots(i), n > m PROVE Given(c, SlotKey(i, s, n)) = <<>>
    <2>1. ASSUME NEW p \in 1..Len(c) PROVE Shares(c, SlotKey(i, s, n))[p] = <<>>
      <3>1. Boundary(Source[i], Time[c[p].id]) <= Time[c[p].id]
            /\ Boundary(Source[i], Time[c[p].id]) \in Int
        BY <1>3, <1>7, BoundaryFacts
      <3>2. Time[c[p].id] \in Int /\ Time[c[p].id] <= t  BY <1>3
      <3>3. m < n  BY <1>8, <1>13
      <3>4. /\ Slot(i, s, m) \in Int /\ Slot(i, s, n) \in Int
            /\ Slot(i, s, m) + Seconds[Source[i]] <= Slot(i, s, n)
        BY <1>6, <3>3
      <3>5. Boundary(Source[i], Time[c[p].id]) # Slot(i, s, n)
        BY <1>0, <1>7, <1>9, <3>1, <3>2, <3>4
      <3>6. KeyAt(Source[i], Time[c[p].id]) # SlotKey(i, s, n)  BY <3>5 DEF KeyAt, SlotKey
      <3>7. Share(c[p], SlotKey(i, s, n)) = <<>>  BY <3>6 DEF Share, SlotKey
      <3> QED  BY <3>7, SharesFacts
    <2>2. Shares(c, SlotKey(i, s, n)) \in Seq(Updates) /\ Len(Shares(c, SlotKey(i, s, n))) = Len(c)
      BY SharesFacts
    <2> QED  BY <2>1, <2>2, FlattenNothing DEF Given
  <1>14. \A n \in 1..Slots(i) :
           Given(d, SlotKey(i, s, n)) = Given(c, SlotKey(i, s, n)) \o Share(env, SlotKey(i, s, n))
    BY GivenAppended
  <1>15. x \in Updates  BY InOrderFacts
  <1>16. /\ a \in Seq(Updates) /\ Len(a) = Slots(i)
         /\ \A n \in 1..Slots(i) : a[n] = Given(c, SlotKey(i, s, n)) /\ a[n] \in Updates
    BY FilledFacts, SharesFacts
  <1>17. /\ b \in Seq(Updates) /\ Len(b) = Slots(i)
         /\ \A n \in 1..Slots(i) : b[n] = Given(d, SlotKey(i, s, n))
    BY <1>1, FilledFacts
  <1> HIDE DEF a, b, x, d
  <1>18. PutIn(a, b, x, m, Slots(i))
    <2>1. b[m] = a[m] \o x  BY <1>11, <1>14, <1>16, <1>17
    <2>2. ASSUME NEW n \in 1..Slots(i), n # m PROVE b[n] = a[n]
      <3>1. b[n] = a[n] \o <<>>  BY <1>12, <1>14, <1>16, <1>17, <2>2
      <3>2. a[n] \in Updates  BY <1>16
      <3> QED  BY <3>1, <3>2, UpdatesFacts
    <2>3. \A n \in 1..Slots(i) : n > m => a[n] = <<>>  BY <1>13, <1>16
    <2> QED  BY <1>15, <1>16, <2>1, <2>2, <2>3 DEF PutIn
  <1>19. Len(b) = Len(a) /\ PutIn(a, b, x, m, Len(a))  BY <1>16, <1>17, <1>18
  <1>20. FlattenSeq(b) = FlattenSeq(a) \o x  BY <1>16, <1>17, <1>19, FlattenExtended
  <1> QED  BY <1>10, <1>20 DEF a, b, d

(* A block outside it fills none.                                          *)
LEMMA SlotsKept ==
  ASSUME NEW c \in Seq(Envelope), NEW env \in Envelope,
         NEW i \in Intervals, i # 1, NEW s, Aligned(i, s), Boundary(i, Time[env.id]) # s
  PROVE  /\ Filled(Append(c, env), i, s) = Filled(c, i, s)
         /\ Share(env, <<i, s>>) = <<>>
  <1> DEFINE d == Append(c, env)
             t == Time[env.id]
  <1>0. env.id \in Blocks /\ t \in Int  BY TimeType DEF Envelope
  <1>1. ASSUME NEW n \in 1..Slots(i) PROVE Given(d, SlotKey(i, s, n)) = Given(c, SlotKey(i, s, n))
    <2>1. Boundary(Source[i], t) # Slot(i, s, n)  BY <1>0, SlotIn
    <2>2. Share(env, SlotKey(i, s, n)) = <<>>  BY <2>1 DEF Share, KeyAt, SlotKey
    <2>3. Given(d, SlotKey(i, s, n)) = Given(c, SlotKey(i, s, n)) \o <<>>
      BY <2>2, GivenAppended
    <2>4. Given(c, SlotKey(i, s, n)) \in Updates  BY SharesFacts
    <2> QED  BY <2>3, <2>4, UpdatesFacts
  <1>2. Filled(d, i, s) = Filled(c, i, s)  BY <1>1 DEF Filled
  <1>3. Share(env, <<i, s>>) = <<>>  BY DEF Share, KeyAt
  <1> QED  BY <1>2, <1>3

(* So a bucket is given what its slots are given, in their order.          *)
LEMMA BucketFilled ==
  ASSUME NEW c, ChainOK(c), NEW i \in Intervals, i # 1, NEW s, Aligned(i, s)
  PROVE  FlattenSeq(Filled(c, i, s)) = Given(c, <<i, s>>)
  <1> DEFINE S == {n \in 0..Len(c) : FlattenSeq(Filled(Prefix(c, n), i, s)) = Given(Prefix(c, n), <<i, s>>)}
  <1>0. c \in Seq(Envelope) /\ Len(c) \in Nat /\ \A n \in 1..Len(c) : c[n] \in Envelope
    BY ChainLen DEF ChainOK
  <1>1. 0 \in S
    <2>1. 0 \in 0..Len(c)  BY <1>0
    <2>2. Prefix(c, 0) \in Seq(Envelope) /\ Len(Prefix(c, 0)) = 0  BY <1>0, <2>1, PrefixSeq
    <2>3. Prefix(c, 0) = <<>>  BY <2>2, EmptySeq
    <2>4. /\ Filled(<<>>, i, s) \in Seq(Updates) /\ Len(Filled(<<>>, i, s)) = Slots(i)
          /\ \A n \in 1..Slots(i) : Filled(<<>>, i, s)[n] = <<>>
      BY <2>2, <2>3, FilledFacts, NoKeys
    <2>5. FlattenSeq(Filled(<<>>, i, s)) = <<>>  BY <2>4, FlattenNothing
    <2>6. Given(<<>>, <<i, s>>) = <<>>  BY NoKeys
    <2> QED  BY <2>1, <2>3, <2>5, <2>6
  <1>2. ASSUME NEW n \in 1..Len(c), n - 1 \in S PROVE n \in S
    <2> DEFINE d == Prefix(c, n - 1)
               e == c[n]
    <2>1. n \in 0..Len(c) /\ n - 1 \in 0..Len(c)  BY <1>0
    <2>2. ChainOK(d) /\ ChainOK(Prefix(c, n))  BY <2>1, PrefixOK
    <2>3. Prefix(c, n) = Append(d, e)  BY <1>0, PrefixGrows
    <2>4. d \in Seq(Envelope) /\ e \in Envelope  BY <1>0, <2>2 DEF ChainOK
    <2>5. FlattenSeq(Filled(d, i, s)) = Given(d, <<i, s>>)  BY <1>2
    <2> HIDE DEF d, e
    <2>6. Given(Append(d, e), <<i, s>>) = Given(d, <<i, s>>) \o Share(e, <<i, s>>)
      BY <2>4, GivenAppended
    <2>7. FlattenSeq(Filled(Append(d, e), i, s)) = FlattenSeq(Filled(d, i, s)) \o Share(e, <<i, s>>)
      <3>1. CASE Boundary(i, Time[e.id]) = s
        <4>1. Clock(Append(d, e))  BY <2>2, <2>3 DEF ChainOK
        <4> QED  BY <2>4, <3>1, <4>1, SlotFilled
      <3>2. CASE Boundary(i, Time[e.id]) # s
        <4>1. Filled(Append(d, e), i, s) = Filled(d, i, s) /\ Share(e, <<i, s>>) = <<>>
          BY <2>4, <3>2, SlotsKept
        <4>2. FlattenSeq(Filled(d, i, s)) \in Updates  BY <2>4, FilledFacts, FlattenType
        <4> QED  BY <4>1, <4>2, UpdatesFacts
      <3> QED  BY <3>1, <3>2
    <2> QED  BY <2>1, <2>3, <2>5, <2>6, <2>7
  <1> HIDE DEF S
  <1>3. Len(c) \in S
    <2>1. \A n \in 0..Len(c) : n \in S  BY <1>0, <1>1, <1>2, InTurn
    <2> QED  BY <1>0, <2>1
  <1>4. Prefix(c, Len(c)) = c  BY <1>0, PrefixWhole
  <1> QED  BY <1>3, <1>4 DEF S

(* Candles that are those of a chain, as far as their interval is j.       *)
Agrees(cs, c, j) ==
  \A s : /\ <<j, s>> \in DOMAIN cs <=> <<j, s>> \in Keys(c)
         /\ <<j, s>> \in Keys(c) => cs[<<j, s>>] = Given(c, <<j, s>>)

LEMMA MergedIs ==
  ASSUME NEW c, ChainOK(c), NEW i \in Intervals, i # 1, NEW s, Aligned(i, s),
         NEW cs, Agrees(cs, c, Source[i])
  PROVE  Merged(cs, <<i, s>>) = Given(c, <<i, s>>)
  <1>1. c \in Seq(Envelope)  BY DEF ChainOK
  <1>2. Source[i] \in Intervals /\ Slots(i) \in Nat  BY IntervalFacts, SlotFacts
  <1>3. SourcesOf(cs, <<i, s>>) =
          [n \in 1..Slots(i) |->
             IF SlotKey(i, s, n) \in DOMAIN cs THEN cs[SlotKey(i, s, n)] ELSE <<>>]
    BY DEF SourcesOf, Slots, SlotKey, Slot
  <1>4. ASSUME NEW n \in 1..Slots(i)
        PROVE  (IF SlotKey(i, s, n) \in DOMAIN cs THEN cs[SlotKey(i, s, n)] ELSE <<>>)
                 = Given(c, SlotKey(i, s, n))
    <2>1. SlotKey(i, s, n) = <<Source[i], Slot(i, s, n)>> /\ SlotKey(i, s, n)[1] = Source[i]
      BY DEF SlotKey
    <2>2. CASE SlotKey(i, s, n) \in Keys(c)  BY <2>1, <2>2 DEF Agrees
    <2>3. CASE SlotKey(i, s, n) \notin Keys(c)
      <3>1. SlotKey(i, s, n) \notin DOMAIN cs  BY <2>1, <2>3 DEF Agrees
      <3>2. Given(c, SlotKey(i, s, n)) = <<>>  BY <1>1, <1>2, <2>1, <2>3, NotGiven
      <3> QED  BY <3>1, <3>2
    <2> QED  BY <2>2, <2>3
  <1>5. SourcesOf(cs, <<i, s>>) = Filled(c, i, s)  BY <1>3, <1>4 DEF Filled
  <1> QED  BY <1>5, BucketFilled DEF Merged

-----------------------------------------------------------------------------
(* Candles: what each way of keeping them makes of a chain.                *)

(* The candles of c up to interval i, and those of d up to interval i with *)
(* those of c above.                                                       *)
Below(c, i) == [k \in {x \in Keys(c) : x[1] <= i} |-> Given(c, k)]
Mixed(c, d, i) ==
  [k \in {x \in Keys(d) : x[1] <= i \/ x \in Keys(c)} |->
     IF k[1] <= i THEN Given(d, k) ELSE Given(c, k)]

LEMMA GivenMore ==
  ASSUME NEW c \in Seq(Envelope), NEW env \in Envelope, NEW k, k[1] \in Intervals
  PROVE  /\ k # KeyAt(k[1], Time[env.id]) => Given(Append(c, env), k) = Given(c, k)
         /\ k = KeyAt(k[1], Time[env.id]) =>
              Given(Append(c, env), k) =
                IF k \in Keys(c) THEN Given(c, k) \o InOrder(env) ELSE InOrder(env)
  <1>1. Given(Append(c, env), k) = Given(c, k) \o Share(env, k)  BY GivenAppended
  <1>2. Given(c, k) \in Updates /\ InOrder(env) \in Updates  BY SharesFacts, InOrderFacts
  <1>3. ASSUME k # KeyAt(k[1], Time[env.id]) PROVE Given(Append(c, env), k) = Given(c, k)
    <2>1. Share(env, k) = <<>>  BY <1>3 DEF Share
    <2> QED  BY <1>1, <1>2, <2>1, UpdatesFacts
  <1>4. ASSUME k = KeyAt(k[1], Time[env.id])
        PROVE  Given(Append(c, env), k) =
                 IF k \in Keys(c) THEN Given(c, k) \o InOrder(env) ELSE InOrder(env)
    <2>1. Share(env, k) = InOrder(env)  BY <1>4 DEF Share
    <2>2. k \notin Keys(c) => Given(c, k) = <<>>  BY NotGiven
    <2> QED  BY <1>1, <1>2, <2>1, <2>2, UpdatesFacts
  <1> QED  BY <1>3, <1>4

(* A block none of whose events counts changes no candle.                  *)
LEMMA NothingKept ==
  ASSUME NEW c \in Seq(Envelope), NEW env \in Envelope, env.kept = {}
  PROVE  Keys(Append(c, env)) = Keys(c) /\ \A k : Given(Append(c, env), k) = Given(c, k)
  <1>1. Keys(Append(c, env)) = Keys(c)  BY KeysAppended
  <1>2. ASSUME NEW k PROVE Given(Append(c, env), k) = Given(c, k)
    <2>1. Given(Append(c, env), k) = Given(c, k) \o Share(env, k)  BY GivenAppended
    <2>2. Given(c, k) \in Updates /\ Share(env, k) = <<>>  BY SharesFacts, ShareFacts
    <2> QED  BY <2>1, <2>2, UpdatesFacts
  <1> QED  BY <1>1, <1>2

LEMMA KeysMore ==
  ASSUME NEW c \in Seq(Envelope), NEW env \in Envelope, env.kept # {}
  PROVE  /\ \A i \in Intervals : KeyAt(i, Time[env.id]) \in Keys(Append(c, env))
         /\ Keys(c) \subseteq Keys(Append(c, env))
         /\ \A k \in Keys(Append(c, env)) :
              k \in Keys(c) \/ (k[1] \in Intervals /\ k = KeyAt(k[1], Time[env.id]))
  <1>1. \A i \in Intervals : KeyAt(i, Time[env.id])[1] = i  BY DEF KeyAt
  <1> QED  BY <1>1, KeysAppended

(* The minute of a block, applied to the minutes of the chain or to all.   *)
LEMMA MinuteBelow ==
  ASSUME NEW c \in Seq(Envelope), NEW env \in Envelope
  PROVE  MinuteApplied(Below(c, 1), env) = Below(Append(c, env), 1)
  <1> DEFINE d == Append(c, env)
             key == KeyAt(1, Time[env.id])
             cs == Below(c, 1)
  <1>1. CASE env.kept = {}
    <2>1. MinuteApplied(cs, env) = cs  BY <1>1 DEF MinuteApplied
    <2>2. Below(d, 1) = cs
      <3>1. Keys(d) = Keys(c) /\ \A k : Given(d, k) = Given(c, k)  BY <1>1, NothingKept
      <3> HIDE DEF d
      <3> QED  BY <3>1 DEF Below
    <2> QED  BY <2>1, <2>2
  <1>2. CASE env.kept # {}
    <2>1. MinuteApplied(cs, env) = Extended(cs, key, InOrder(env))  BY <1>2 DEF MinuteApplied
    <2>2. 1 \in Intervals /\ \A i \in Intervals : i \in Nat  BY IntervalFacts
    <2>3. key[1] = 1 /\ key = KeyAt(key[1], Time[env.id])  BY DEF KeyAt
    <2>4. d \in Seq(Envelope)  BY AppendSeq
    <2>5. \A k \in Keys(d) : k[1] \in Intervals  BY <2>4, KeyFacts
    <2>6. {x \in Keys(d) : x[1] <= 1} = {x \in Keys(c) : x[1] <= 1} \cup {key}
      <3>1. key \in Keys(d) /\ Keys(c) \subseteq Keys(d)
        BY <1>2, <2>2, KeysMore
      <3>2. ASSUME NEW x \in Keys(d), x[1] <= 1 PROVE x \in Keys(c) \/ x = key
        <4>1. x[1] = 1  BY <2>5, <3>2, IntervalFacts
        <4> QED  BY <1>2, <4>1, KeysMore
      <3> QED  BY <2>3, <3>1, <3>2
    <2>7. ASSUME NEW k \in Keys(d), k[1] <= 1
          PROVE  Given(d, k) = IF k # key THEN Given(c, k)
                               ELSE IF k \in Keys(c) THEN Given(c, k) \o InOrder(env) ELSE InOrder(env)
      <3>1. k[1] = 1 /\ k[1] \in Intervals  BY <2>5, <2>7, IntervalFacts
      <3> QED  BY <3>1, GivenMore
    <2> HIDE DEF d, key
    <2>8. DOMAIN cs = {x \in Keys(c) : x[1] <= 1} /\ \A k \in DOMAIN cs : cs[k] = Given(c, k)
      BY DEF Below
    <2>9. DOMAIN cs \cup {key} = {x \in Keys(d) : x[1] <= 1}  BY <2>6, <2>8
    <2>10. ASSUME NEW k \in {x \in Keys(d) : x[1] <= 1}
           PROVE  (IF k # key THEN cs[k]
                   ELSE IF k \in DOMAIN cs THEN cs[k] \o InOrder(env) ELSE InOrder(env)) = Given(d, k)
      <3>1. k \in DOMAIN cs <=> k \in Keys(c)  BY <2>8, <2>10
      <3>2. k # key => k \in DOMAIN cs  BY <2>9, <2>10
      <3>3. k \in DOMAIN cs => cs[k] = Given(c, k)  BY <2>8
      <3> HIDE DEF cs
      <3> QED  BY <2>7, <2>10, <3>1, <3>2, <3>3
    <2> HIDE DEF cs
    <2>11. Extended(cs, key, InOrder(env)) = [k \in {x \in Keys(d) : x[1] <= 1} |-> Given(d, k)]
      BY <2>9, <2>10 DEF Extended
    <2> QED  BY <2>1, <2>11 DEF Below, d, cs
  <1> QED  BY <1>1, <1>2

LEMMA MinuteMixed ==
  ASSUME NEW c \in Seq(Envelope), NEW env \in Envelope, env.kept # {}
  PROVE  MinuteApplied(ReferenceOf(c), env) = Mixed(c, Append(c, env), 1)
  <1> DEFINE d == Append(c, env)
             key == KeyAt(1, Time[env.id])
             cs == ReferenceOf(c)
  <1>1. MinuteApplied(cs, env) = Extended(cs, key, InOrder(env))  BY DEF MinuteApplied
  <1>2. 1 \in Intervals /\ \A i \in Intervals : i \in Nat  BY IntervalFacts
  <1>3. key[1] = 1 /\ key = KeyAt(key[1], Time[env.id])  BY DEF KeyAt
  <1>4. d \in Seq(Envelope)  BY AppendSeq
  <1>5. \A k \in Keys(d) : k[1] \in Intervals  BY <1>4, KeyFacts
  <1>6. key \in Keys(d) /\ Keys(c) \subseteq Keys(d)  BY <1>2, KeysMore
  <1>7. {x \in Keys(d) : x[1] <= 1 \/ x \in Keys(c)} = Keys(c) \cup {key}
    <2>1. ASSUME NEW x \in Keys(d), x[1] <= 1 PROVE x \in Keys(c) \/ x = key
      <3>1. x[1] = 1  BY <1>5, <2>1, IntervalFacts
      <3> QED  BY <3>1, KeysMore
    <2> QED  BY <1>3, <1>6, <2>1
  <1>8. ASSUME NEW k \in Keys(d)
        PROVE  k[1] <= 1 => Given(d, k) =
                 IF k # key THEN Given(c, k)
                 ELSE IF k \in Keys(c) THEN Given(c, k) \o InOrder(env) ELSE InOrder(env)
    <2>1. k[1] \in Intervals /\ (k[1] <= 1 => k[1] = 1)  BY <1>5, IntervalFacts
    <2> QED  BY <2>1, GivenMore
  <1>9. DOMAIN cs = Keys(c) /\ \A k \in Keys(c) : cs[k] = Given(c, k)  BY ReferenceIs
  <1> HIDE DEF d, key, cs
  <1>10. ASSUME NEW k \in Keys(c) \cup {key}
         PROVE  (IF k # key THEN cs[k]
                 ELSE IF k \in DOMAIN cs THEN cs[k] \o InOrder(env) ELSE InOrder(env))
                = IF k[1] <= 1 THEN Given(d, k) ELSE Given(c, k)
    <2>1. k \in Keys(d)  BY <1>6
    <2>2. CASE k[1] <= 1
      <3>1. k # key => k \in Keys(c)  OBVIOUS
      <3> QED  BY <1>8, <1>9, <2>1, <2>2, <3>1
    <2>3. CASE ~(k[1] <= 1)
      <3>1. k # key  BY <1>3, <2>3
      <3> QED  BY <1>9, <2>3, <3>1
    <2> QED  BY <2>2, <2>3
  <1>11. Extended(cs, key, InOrder(env)) =
           [k \in Keys(c) \cup {key} |-> IF k[1] <= 1 THEN Given(d, k) ELSE Given(c, k)]
    BY <1>9, <1>10 DEF Extended
  <1> QED  BY <1>1, <1>7, <1>11 DEF Mixed, d, cs

(* A bucket rebuilt, the next of the block's time.                         *)
LEMMA BucketMixed ==
  ASSUME NEW c \in Seq(Envelope), NEW env \in Envelope, env.kept # {}, ChainOK(Append(c, env)),
         NEW i \in Intervals, i # 1
  PROVE  Rebucketed(Mixed(c, Append(c, env), i - 1), KeyAt(i, Time[env.id]))
           = Mixed(c, Append(c, env), i)
  <1> DEFINE d == Append(c, env)
             t == Time[env.id]
             key == KeyAt(i, t)
             s == Boundary(i, t)
             cs == Mixed(c, d, i - 1)
  <1>0. t \in Int  BY TimeType DEF Envelope
  <1>1. i \in Nat /\ Source[i] \in Intervals /\ Source[i] <= i - 1 /\ \A j \in Intervals : j \in Nat
    BY IntervalFacts
  <1>2. key = <<i, s>> /\ key[1] = i /\ key = KeyAt(key[1], t) /\ Aligned(i, s)
    BY <1>0, BoundaryFacts DEF KeyAt
  <1>3. d \in Seq(Envelope)  BY AppendSeq
  <1>4. \A k \in Keys(d) : k[1] \in Intervals  BY <1>3, KeyFacts
  <1>5. key \in Keys(d) /\ Keys(c) \subseteq Keys(d)  BY KeysMore
  <1>6. /\ DOMAIN cs = {x \in Keys(d) : x[1] <= i - 1 \/ x \in Keys(c)}
        /\ \A k \in DOMAIN cs : cs[k] = IF k[1] <= i - 1 THEN Given(d, k) ELSE Given(c, k)
    BY DEF Mixed
  <1>7. Agrees(cs, d, Source[i])
    <2> SUFFICES ASSUME NEW u
                 PROVE  /\ <<Source[i], u>> \in DOMAIN cs <=> <<Source[i], u>> \in Keys(d)
                        /\ <<Source[i], u>> \in Keys(d) =>
                             cs[<<Source[i], u>>] = Given(d, <<Source[i], u>>)
      BY DEF Agrees
    <2>1. <<Source[i], u>>[1] = Source[i]  OBVIOUS
    <2> HIDE DEF cs, d
    <2> QED  BY <1>1, <1>6, <2>1
  <1>8. Merged(cs, key) = Given(d, key)  BY <1>2, <1>7, MergedIs
  <1>9. ASSUME NEW x \in Keys(d), x[1] = i PROVE x \in Keys(c) \/ x = key
    BY <1>9, KeysMore
  <1>10. {x \in Keys(d) : x[1] <= i \/ x \in Keys(c)} = DOMAIN cs \cup {key}
    <2> HIDE DEF d, key, cs
    <2>1. ASSUME NEW x \in Keys(d) PROVE (x[1] <= i <=> x[1] <= i - 1 \/ x[1] = i)
      <3>1. x[1] \in Nat  BY <1>1, <1>4
      <3> QED  BY <1>1, <3>1
    <2>2. key[1] <= i  BY <1>1, <1>2
    <2> QED  BY <1>5, <1>6, <1>9, <2>1, <2>2
  <1>11. ASSUME NEW k \in DOMAIN cs \cup {key}
         PROVE  (IF k = key THEN Merged(cs, key) ELSE cs[k])
                = IF k[1] <= i THEN Given(d, k) ELSE Given(c, k)
    <2>1. CASE k = key  BY <1>1, <1>2, <1>8, <2>1
    <2>2. CASE k # key
      <3>1. k \in Keys(d) /\ k \in DOMAIN cs  BY <1>6, <2>2
      <3>2. k[1] \in Nat /\ k[1] \in Intervals  BY <1>1, <1>4, <3>1
      <3>3. cs[k] = IF k[1] <= i - 1 THEN Given(d, k) ELSE Given(c, k)  BY <1>6, <3>1
      <3>4. k[1] = i => Given(d, k) = Given(c, k)  BY <2>2, <3>2, GivenMore
      <3>5. k[1] <= i <=> k[1] <= i - 1 \/ k[1] = i  BY <1>1, <3>2
      <3> HIDE DEF cs, d, key
      <3> QED  BY <2>2, <3>3, <3>4, <3>5
    <2> QED  BY <2>1, <2>2
  <1> HIDE DEF d, key, cs
  <1>12. Rebucketed(cs, key) =
           [k \in DOMAIN cs \cup {key} |-> IF k[1] <= i THEN Given(d, k) ELSE Given(c, k)]
    BY <1>11 DEF Rebucketed
  <1> QED  BY <1>10, <1>12 DEF Mixed, d, key, cs
(* An append leaves the candles of the longer chain.                       *)
LEMMA IncrementedIs ==
  ASSUME NEW c \in Seq(Envelope), NEW env \in Envelope, ChainOK(Append(c, env))
  PROVE  Incremented(ReferenceOf(c), env) = ReferenceOf(Append(c, env))
  <1> DEFINE d == Append(c, env)
             t == Time[env.id]
             L == Len(Seconds)
  <1>1. CASE env.kept = {}
    <2>1. Keys(d) = Keys(c) /\ \A k : Given(d, k) = Given(c, k)  BY <1>1, NothingKept
    <2>2. ReferenceOf(d) = ReferenceOf(c)
      <3> HIDE DEF d
      <3> QED  BY <2>1, ReferenceIs
    <2> QED  BY <1>1, <2>2 DEF Incremented
  <1>2. CASE env.kept # {}
    <2> DEFINE cs == MinuteApplied(ReferenceOf(c), env)
               Turn(f) == f = [i \in Intervals |-> IF i = 1 THEN cs ELSE Rebucketed(f[i - 1], KeyAt(i, t))]
               g == [i \in Intervals |-> Mixed(c, d, i)]
               f == CHOOSE f : Turn(f)
    <2>1. L \in Nat /\ L >= 1 /\ Intervals = 1..L  BY IntervalFacts
    <2>2. cs = Mixed(c, d, 1)  BY <1>2, MinuteMixed
    <2>3. \A i \in Intervals : i # 1 => Rebucketed(Mixed(c, d, i - 1), KeyAt(i, t)) = Mixed(c, d, i)
      BY <1>2, BucketMixed
    <2>4. Incremented(ReferenceOf(c), env) = f[L]  BY <1>2 DEF Incremented, BucketsRebuilt
    <2> HIDE DEF cs, d, t, L
    <2>5. Turn(g)
      <3>1. ASSUME NEW i \in Intervals
            PROVE  Mixed(c, d, i) = IF i = 1 THEN cs ELSE Rebucketed(g[i - 1], KeyAt(i, t))
        <4>1. i # 1 => i - 1 \in Intervals  BY <2>1
        <4> QED  BY <2>2, <2>3, <4>1
      <3> QED  BY <3>1
    <2>6. Turn(f)  BY <2>5
    <2> HIDE DEF f
    <2> DEFINE S == {n \in 0..L : n # 0 => f[n] = Mixed(c, d, n)}
    <2>7. \A n \in 0..L : n \in S
      <3>1. 0 \in S  BY <2>1
      <3>2. ASSUME NEW n \in 1..L, n - 1 \in S PROVE n \in S
        <4>1. n \in Intervals /\ n \in 0..L /\ (n # 1 => n - 1 # 0)  BY <2>1
        <4>2. f[n] = IF n = 1 THEN cs ELSE Rebucketed(f[n - 1], KeyAt(n, t))  BY <2>6, <4>1
        <4>3. n # 1 => f[n - 1] = Mixed(c, d, n - 1)  BY <3>2, <4>1
        <4>4. f[n] = Mixed(c, d, n)  BY <2>2, <2>3, <4>1, <4>2, <4>3
        <4> QED  BY <4>1, <4>4
      <3> HIDE DEF S
      <3> QED  BY <2>1, <3>1, <3>2, InTurn
    <2>8. f[L] = Mixed(c, d, L)
      <3>1. L \in 0..L /\ L # 0  BY <2>1
      <3> QED  BY <2>7, <3>1
    <2>9. Mixed(c, d, L) = ReferenceOf(d)
      <3>1. d \in Seq(Envelope)  BY AppendSeq DEF d
      <3>2. \A k \in Keys(d) : k[1] <= L  BY <2>1, <3>1, KeyFacts
      <3> QED  BY <3>2, ReferenceIs DEF Mixed
    <2> QED  BY <2>4, <2>8, <2>9 DEF d
  <1> QED  BY <1>1, <1>2

(* An interval rolled up from the minutes, or from what was rolled up      *)
(* before it.                                                              *)
LEMMA IntervalBelow ==
  ASSUME NEW c, ChainOK(c), NEW i \in Intervals, i # 1
  PROVE  WithInterval(Below(c, i - 1), i) = Below(c, i)
  <1> DEFINE cs == Below(c, i - 1)
             keys == {KeyAt(i, k[2]) : k \in {x \in DOMAIN cs : x[1] = Source[i]}}
  <1>0. c \in Seq(Envelope) /\ Len(c) \in Nat /\ DOMAIN c = 1..Len(c)
        /\ \A n \in 1..Len(c) : c[n] \in Envelope
    BY ChainLen DEF ChainOK
  <1>1. i \in Nat /\ Source[i] \in Intervals /\ Source[i] <= i - 1 /\ \A j \in Intervals : j \in Nat
    BY IntervalFacts
  <1>2. \A n \in 1..Len(c) : Time[c[n].id] \in Int  BY <1>0, TimeType DEF Envelope
  <1>3. /\ DOMAIN cs = {x \in Keys(c) : x[1] <= i - 1}
        /\ \A k \in DOMAIN cs : cs[k] = Given(c, k)
    BY DEF Below
  <1>4. \A k \in Keys(c) : k[1] \in Intervals  BY <1>0, KeyFacts
  <1>5. Agrees(cs, c, Source[i])
    <2> SUFFICES ASSUME NEW u
                 PROVE  /\ <<Source[i], u>> \in DOMAIN cs <=> <<Source[i], u>> \in Keys(c)
                        /\ <<Source[i], u>> \in Keys(c) =>
                             cs[<<Source[i], u>>] = Given(c, <<Source[i], u>>)
      BY DEF Agrees
    <2>1. <<Source[i], u>>[1] = Source[i]  OBVIOUS
    <2> HIDE DEF cs
    <2> QED  BY <1>1, <1>3, <2>1
  <1>6. keys = {x \in Keys(c) : x[1] = i}
    <2>1. ASSUME NEW x \in keys PROVE x \in Keys(c) /\ x[1] = i
      <3>1. PICK k \in Keys(c) : x = KeyAt(i, k[2]) /\ k[1] = Source[i]  BY <1>3
      <3>2. PICK n \in 1..Len(c) : k = KeyAt(k[1], Time[c[n].id]) /\ c[n].kept # {}
        BY <1>0, KeyFacts
      <3>3. k[2] = Boundary(Source[i], Time[c[n].id])  BY <3>1, <3>2 DEF KeyAt
      <3>4. Boundary(i, k[2]) = Boundary(i, Time[c[n].id])  BY <1>2, <3>3, BoundaryTwice
      <3>5. x = KeyAt(i, Time[c[n].id])  BY <3>1, <3>4 DEF KeyAt
      <3>6. x \in Keys(c)  BY <1>0, <3>2, <3>5 DEF Keys
      <3> QED  BY <3>5, <3>6 DEF KeyAt
    <2>2. ASSUME NEW x \in Keys(c), x[1] = i PROVE x \in keys
      <3>1. PICK n \in 1..Len(c) : x = KeyAt(i, Time[c[n].id]) /\ c[n].kept # {}
        BY <1>0, <2>2, KeyFacts
      <3> DEFINE k == KeyAt(Source[i], Time[c[n].id])
      <3>2. k \in Keys(c) /\ k[1] = Source[i] /\ k[2] = Boundary(Source[i], Time[c[n].id])
        <4>1. n \in {m \in DOMAIN c : c[m].kept # {}}  BY <1>0, <3>1
        <4>2. k \in Keys(c)  BY <1>1, <4>1 DEF Keys
        <4>3. k[1] = Source[i] /\ k[2] = Boundary(Source[i], Time[c[n].id])  BY DEF KeyAt
        <4> QED  BY <4>2, <4>3
      <3>3. k \in DOMAIN cs
        <4> HIDE DEF k, cs
        <4> QED  BY <1>1, <1>3, <3>2
      <3>4. KeyAt(i, k[2]) = x  BY <1>2, <3>1, <3>2, BoundaryTwice DEF KeyAt
      <3> HIDE DEF k, cs
      <3> QED  BY <3>2, <3>3, <3>4
    <2> HIDE DEF keys
    <2> QED  BY <2>1, <2>2
  <1>7. ASSUME NEW k \in keys PROVE Merged(cs, k) = Given(c, k)
    <2> HIDE DEF keys, cs
    <2>1. k \in Keys(c) /\ k[1] = i  BY <1>6
    <2>2. k = <<i, k[2]>> /\ Aligned(i, k[2])  BY <1>0, <2>1, KeyFacts
    <2>3. PICK s : s = k[2]  OBVIOUS
    <2>4. Merged(cs, <<i, s>>) = Given(c, <<i, s>>)  BY <1>5, <2>2, <2>3, MergedIs
    <2> QED  BY <2>2, <2>3, <2>4
  <1>8. DOMAIN cs \cup keys = {x \in Keys(c) : x[1] <= i}
    <2> HIDE DEF keys, cs
    <2>1. ASSUME NEW x \in Keys(c) PROVE x[1] <= i <=> x[1] <= i - 1 \/ x[1] = i
      <3>1. x[1] \in Nat  BY <1>1, <1>4
      <3> QED  BY <1>1, <3>1
    <2> QED  BY <1>3, <1>6, <2>1
  <1>9. ASSUME NEW k \in DOMAIN cs \cup keys
        PROVE  (IF k \in keys THEN Merged(cs, k) ELSE cs[k]) = Given(c, k)
    <2> HIDE DEF keys, cs
    <2> QED  BY <1>3, <1>7
  <1>10. WithInterval(cs, i) =
           [k \in DOMAIN cs \cup keys |-> IF k \in keys THEN Merged(cs, k) ELSE cs[k]]
    BY DEF WithInterval
  <1> HIDE DEF keys, cs
  <1>11. WithInterval(cs, i) = [k \in DOMAIN cs \cup keys |-> Given(c, k)]  BY <1>9, <1>10
  <1> QED  BY <1>8, <1>11 DEF Below, cs

LEMMA RolledUpIs ==
  ASSUME NEW c, ChainOK(c)
  PROVE  RolledUp(Below(c, 1)) = ReferenceOf(c)
  <1> DEFINE cs == Below(c, 1)
             L == Len(Seconds)
             Turn(f) == f = [i \in Intervals |-> IF i = 1 THEN cs ELSE WithInterval(f[i - 1], i)]
             g == [i \in Intervals |-> Below(c, i)]
             f == CHOOSE f : Turn(f)
  <1>1. L \in Nat /\ L >= 1 /\ Intervals = 1..L  BY IntervalFacts
  <1>2. \A i \in Intervals : i # 1 => WithInterval(Below(c, i - 1), i) = Below(c, i)
    BY IntervalBelow
  <1>3. RolledUp(cs) = f[L]  BY DEF RolledUp
  <1>0. cs = Below(c, 1)  OBVIOUS
  <1> HIDE DEF cs, L
  <1>4. Turn(g)
    <2>1. ASSUME NEW i \in Intervals
          PROVE  Below(c, i) = IF i = 1 THEN cs ELSE WithInterval(g[i - 1], i)
      <3>1. i # 1 => i - 1 \in Intervals  BY <1>1
      <3> QED  BY <1>0, <1>2, <3>1
    <2> QED  BY <2>1
  <1>5. Turn(f)  BY <1>4
  <1> HIDE DEF f
  <1> DEFINE S == {n \in 0..L : n # 0 => f[n] = Below(c, n)}
  <1>6. \A n \in 0..L : n \in S
    <2>1. 0 \in S  BY <1>1
    <2>2. ASSUME NEW n \in 1..L, n - 1 \in S PROVE n \in S
      <3>1. n \in Intervals /\ n \in 0..L /\ (n # 1 => n - 1 # 0)  BY <1>1
      <3>2. f[n] = IF n = 1 THEN cs ELSE WithInterval(f[n - 1], n)  BY <1>5, <3>1
      <3>3. n # 1 => f[n - 1] = Below(c, n - 1)  BY <2>2, <3>1
      <3>4. f[n] = Below(c, n)  BY <1>0, <1>2, <3>1, <3>2, <3>3
      <3> QED  BY <3>1, <3>4
    <2> HIDE DEF S
    <2> QED  BY <1>1, <2>1, <2>2, InTurn
  <1>7. f[L] = Below(c, L)
    <2>1. L \in 0..L /\ L # 0  BY <1>1
    <2> QED  BY <1>6, <2>1
  <1>8. Below(c, L) = ReferenceOf(c)
    <2>1. c \in Seq(Envelope)  BY DEF ChainOK
    <2>2. \A k \in Keys(c) : k[1] <= L  BY <1>1, <2>1, KeyFacts
    <2> QED  BY <2>2, ReferenceIs DEF Below
  <1> QED  BY <1>3, <1>7, <1>8 DEF cs

(* The minutes of a chain, block by block.                                 *)
LEMMA MinutesAre ==
  ASSUME NEW c \in Seq(Envelope)
  PROVE  MinutesOf(c) = Below(c, 1)
  <1> DEFINE N == Len(c)
             Turn(f) == f = [n \in 0..N |-> IF n = 0 THEN NoCandles ELSE MinuteApplied(f[n - 1], c[n])]
             g == [n \in 0..N |-> Below(Prefix(c, n), 1)]
             f == CHOOSE f : Turn(f)
  <1>1. N \in Nat  BY ChainLen
  <1>2. Below(Prefix(c, 0), 1) = NoCandles
    <2>1. 0 \in 0..Len(c)  BY <1>1
    <2>2. Prefix(c, 0) = <<>>  BY <2>1, PrefixSeq, EmptySeq
    <2> QED  BY <2>2, NoKeys DEF Below, NoCandles
  <1>3. ASSUME NEW n \in 1..N
        PROVE  MinuteApplied(Below(Prefix(c, n - 1), 1), c[n]) = Below(Prefix(c, n), 1)
    <2>1. c[n] \in Envelope /\ Prefix(c, n) = Append(Prefix(c, n - 1), c[n])
      BY ChainLen, PrefixGrows
    <2>2. n - 1 \in 0..Len(c)  BY <1>1
    <2>3. Prefix(c, n - 1) \in Seq(Envelope)  BY <2>2, PrefixSeq
    <2> QED  BY <2>1, <2>3, MinuteBelow
  <1>4. MinutesOf(c) = f[N]  BY DEF MinutesOf
  <1>0. N = Len(c)  OBVIOUS
  <1> HIDE DEF N
  <1>5. Turn(g)
    <2>1. ASSUME NEW n \in 0..N
          PROVE  Below(Prefix(c, n), 1) = IF n = 0 THEN NoCandles ELSE MinuteApplied(g[n - 1], c[n])
      <3>1. n # 0 => n \in 1..N /\ n - 1 \in 0..N  BY <1>1
      <3> QED  BY <1>2, <1>3, <3>1
    <2> QED  BY <2>1
  <1>6. Turn(f)  BY <1>5
  <1> HIDE DEF f
  <1> DEFINE S == {n \in 0..N : f[n] = Below(Prefix(c, n), 1)}
  <1>7. \A n \in 0..N : n \in S
    <2>1. 0 \in S
      <3>1. 0 \in 0..N  BY <1>1
      <3> QED  BY <1>2, <1>6, <3>1
    <2>2. ASSUME NEW n \in 1..N, n - 1 \in S PROVE n \in S
      <3>1. n \in 0..N /\ n # 0  BY <1>1
      <3>2. f[n] = MinuteApplied(f[n - 1], c[n])  BY <1>6, <3>1
      <3> QED  BY <1>3, <2>2, <3>1, <3>2
    <2> HIDE DEF S
    <2> QED  BY <1>1, <2>1, <2>2, InTurn
  <1>8. f[N] = Below(Prefix(c, N), 1)
    <2>1. N \in 0..N  BY <1>1
    <2> QED  BY <1>7, <2>1
  <1>9. Prefix(c, N) = c  BY <1>0, PrefixWhole
  <1> QED  BY <1>4, <1>8, <1>9

(* An engine that ingests a chain block by block has its candles.          *)
LEMMA IngestedIs ==
  ASSUME NEW c, ChainOK(c)
  PROVE  CandlesIngested(c) = ReferenceOf(c)
  <1> DEFINE N == Len(c)
             Turn(f) == f = [n \in 0..N |-> IF n = 0 THEN NoCandles ELSE Incremented(f[n - 1], c[n])]
             g == [n \in 0..N |-> ReferenceOf(Prefix(c, n))]
             f == CHOOSE f : Turn(f)
  <1>1. c \in Seq(Envelope) /\ N \in Nat  BY ChainLen DEF ChainOK
  <1>2. ReferenceOf(Prefix(c, 0)) = NoCandles
    <2>1. 0 \in 0..Len(c)  BY <1>1
    <2>2. Prefix(c, 0) = <<>>  BY <1>1, <2>1, PrefixSeq, EmptySeq
    <2> QED  BY <2>2, NoKeys, ReferenceIs DEF NoCandles
  <1>3. ASSUME NEW n \in 1..N
        PROVE  Incremented(ReferenceOf(Prefix(c, n - 1)), c[n]) = ReferenceOf(Prefix(c, n))
    <2>1. c[n] \in Envelope /\ Prefix(c, n) = Append(Prefix(c, n - 1), c[n])
      BY <1>1, ChainLen, PrefixGrows
    <2>2. n - 1 \in 0..Len(c) /\ n \in 0..Len(c)  BY <1>1
    <2>3. Prefix(c, n - 1) \in Seq(Envelope) /\ ChainOK(Prefix(c, n))
      BY <1>1, <2>2, PrefixSeq, PrefixOK
    <2> QED  BY <2>1, <2>3, IncrementedIs
  <1>4. CandlesIngested(c) = f[N]  BY DEF CandlesIngested
  <1>0. N = Len(c)  OBVIOUS
  <1> HIDE DEF N
  <1>5. Turn(g)
    <2>1. ASSUME NEW n \in 0..N
          PROVE  ReferenceOf(Prefix(c, n)) = IF n = 0 THEN NoCandles ELSE Incremented(g[n - 1], c[n])
      <3>1. n # 0 => n \in 1..N /\ n - 1 \in 0..N  BY <1>1
      <3> QED  BY <1>2, <1>3, <3>1
    <2> QED  BY <2>1
  <1>6. Turn(f)  BY <1>5
  <1> HIDE DEF f
  <1> DEFINE S == {n \in 0..N : f[n] = ReferenceOf(Prefix(c, n))}
  <1>7. \A n \in 0..N : n \in S
    <2>1. 0 \in S
      <3>1. 0 \in 0..N  BY <1>1
      <3> QED  BY <1>2, <1>6, <3>1
    <2>2. ASSUME NEW n \in 1..N, n - 1 \in S PROVE n \in S
      <3>1. n \in 0..N /\ n # 0  BY <1>1
      <3>2. f[n] = Incremented(f[n - 1], c[n])  BY <1>6, <3>1
      <3> QED  BY <1>3, <2>2, <3>1, <3>2
    <2> HIDE DEF S
    <2> QED  BY <1>1, <2>1, <2>2, InTurn
  <1>8. f[N] = ReferenceOf(Prefix(c, N))
    <2>1. N \in 0..N  BY <1>1
    <2> QED  BY <1>7, <2>1
  <1>9. Prefix(c, N) = c  BY <1>0, <1>1, PrefixWhole
  <1> QED  BY <1>4, <1>8, <1>9

-----------------------------------------------------------------------------
(* Candles: their followers.                                               *)

(* What is final of the candles of a chain.                                *)
LEMMA FinalizedIs ==
  ASSUME NEW c
  PROVE  Finalized(ReferenceOf(c), c) =
           [k \in Keys(c) |-> [updates |-> Given(c, k), final |-> End(k) <= Time[Last(c).id]]]
  <1>1. DOMAIN ReferenceOf(c) = Keys(c) /\ \A k \in Keys(c) : ReferenceOf(c)[k] = Given(c, k)
    BY ReferenceIs
  <1> QED  BY <1>1 DEF Finalized

(* A candle that ends by the time of a new head ended by that of the old   *)
(* one, or is the last of its interval there: an append looks at no other. *)
LEMMA FinalKept ==
  ASSUME NEW c, ChainOK(c), NEW t \in Nat, NEW k \in Keys(c), c # <<>>,
         Time[Last(c).id] <= t, k \notin NewlyFinalized(ReferenceOf(c), Time[Last(c).id], t)
  PROVE  End(k) <= Time[Last(c).id] <=> End(k) <= t
  <1>1. /\ c \in Seq(Envelope) /\ Len(c) \in Nat /\ \A n \in 1..Len(c) : c[n] \in Envelope
        /\ Clock(c)
    BY ChainLen DEF ChainOK
  <1>2. k = <<k[1], k[2]>> /\ k[1] \in Intervals /\ k[2] \in Int /\ Aligned(k[1], k[2])
    BY <1>1, KeyFacts
  <1>3. PICK n \in 1..Len(c) : k = KeyAt(k[1], Time[c[n].id])  BY <1>1, KeyFacts
  <1>4. Len(c) \in 1..Len(c) /\ n <= Len(c)  BY <1>1
  <1>5. PICK before, u, S : /\ before = Time[c[Len(c)].id] /\ u = Time[c[n].id]
                            /\ S = Seconds[k[1]]
    OBVIOUS
  <1>6. before \in Nat /\ u \in Nat /\ S \in Nat
    BY <1>1, <1>2, <1>4, <1>5, TimeType, IntervalFacts DEF Envelope
  <1>7. Time[Last(c).id] = before  BY <1>5 DEF Last
  <1>8. u <= before  BY <1>1, <1>4, <1>5 DEF Clock
  <1>9. k[2] <= u
    <2>1. k[2] = Boundary(k[1], u)  BY <1>3, <1>5 DEF KeyAt
    <2> QED  BY <1>2, <1>6, <2>1, BoundaryFacts
  <1>10. End(k) = k[2] + S  BY <1>5 DEF End
  <1>11. ASSUME before < End(k), End(k) <= t PROVE FALSE
    <2>1. Boundary(k[1], before) = k[2]
      BY <1>2, <1>5, <1>6, <1>8, <1>9, <1>10, <1>11, BoundaryUnique
    <2>2. k = KeyAt(k[1], before)  BY <1>2, <2>1 DEF KeyAt
    <2>3. k \in DOMAIN ReferenceOf(c)  BY ReferenceIs
    <2> QED  BY <1>2, <1>7, <1>11, <2>2, <2>3 DEF NewlyFinalized
  <1> QED  BY <1>2, <1>6, <1>7, <1>10, <1>11

(* The changes an append publishes are those its followers need.           *)
LEMMA FollowedMore ==
  ASSUME NEW c, ChainOK(c), NEW env \in Envelope, ChainOK(Append(c, env)),
         followed = Finalized(ReferenceOf(c), c), NEW final,
         final = IF c = <<>> THEN {}
                 ELSE NewlyFinalized(ReferenceOf(c), Time[Last(c).id], Time[env.id])
  PROVE  Follows([k \in (IF env.kept = {} THEN {} ELSE {KeyAt(i, Time[env.id]) : i \in Intervals})
                        \cup final |->
                    Finalized(ReferenceOf(Append(c, env)), Append(c, env))[k]])
           = Finalized(ReferenceOf(Append(c, env)), Append(c, env))
  <1> DEFINE d == Append(c, env)
             t == Time[env.id]
             touched == IF env.kept = {} THEN {} ELSE {KeyAt(i, t) : i \in Intervals}
             old == Finalized(ReferenceOf(c), c)
             new == Finalized(ReferenceOf(d), d)
             changes == [k \in touched \cup final |-> new[k]]
  <1>1. c \in Seq(Envelope) /\ Len(c) \in Nat /\ \A n \in 1..Len(c) : c[n] \in Envelope
    BY ChainLen DEF ChainOK
  <1>2. /\ d \in Seq(Envelope) /\ Len(d) = Len(c) + 1 /\ d[Len(c) + 1] = env /\ Last(d) = env
        /\ \A n \in 1..Len(c) : d[n] = c[n]
    BY <1>1, AppendSeq
  <1>3. t \in Nat  BY TimeType DEF Envelope
  <1>4. Keys(d) = Keys(c) \cup touched  BY <1>1, KeysAppended
  <1>5. ASSUME c # <<>> PROVE Time[Last(c).id] <= t /\ Time[Last(c).id] \in Nat
    <2>1. Len(c) \in 1..Len(c) /\ Len(c) \in 1..Len(d) /\ Len(d) \in 1..Len(d) /\ Len(c) <= Len(d)
      BY <1>1, <1>2, <1>5, EmptySeq
    <2>2. Clock(d)  BY DEF ChainOK
    <2>3. Time[d[Len(c)].id] <= Time[d[Len(d)].id]
      <3> HIDE DEF d
      <3> QED  BY <2>1, <2>2 DEF Clock
    <2>4. c[Len(c)].id \in Blocks  BY <1>1, <2>1 DEF Envelope
    <2> QED  BY <1>2, <2>1, <2>3, <2>4, TimeType DEF Last
  <1>6. final \subseteq Keys(c)
    <2>1. DOMAIN ReferenceOf(c) = Keys(c)  BY ReferenceIs
    <2> QED  BY <2>1 DEF NewlyFinalized
  <1>7. /\ DOMAIN old = Keys(c)
        /\ \A k \in Keys(c) : old[k] = [updates |-> Given(c, k), final |-> End(k) <= Time[Last(c).id]]
    BY FinalizedIs
  <1>8. /\ DOMAIN new = Keys(d)
        /\ \A k \in Keys(d) : new[k] = [updates |-> Given(d, k), final |-> End(k) <= t]
    BY <1>2, FinalizedIs
  <1>9. ASSUME NEW k \in Keys(c), k \in touched \cup final
        PROVE  Newer(old[k], new[k]) = new[k]
    <2>1. Given(d, k) = Given(c, k) \o Share(env, k)  BY <1>1, GivenAppended
    <2>2. Given(c, k) \in Updates /\ Share(env, k) \in Updates  BY <1>1, SharesFacts, ShareFacts
    <2>3. Len(Given(d, k)) >= Len(Given(c, k))  BY <2>1, <2>2, UpdatesFacts
    <2>4. k \in Keys(d)  BY <1>4
    <2> HIDE DEF d, old, new
    <2> QED  BY <1>7, <1>8, <2>3, <2>4 DEF Newer
  <1>10. ASSUME NEW k \in Keys(c), k \notin touched, k \notin final
         PROVE  old[k] = new[k]
    <2>1. Given(d, k) = Given(c, k)
      <3>1. CASE env.kept = {}  BY <1>1, <3>1, NothingKept
      <3>2. CASE env.kept # {}
        <4>1. k[1] \in Intervals  BY <1>1, KeyFacts
        <4>2. k # KeyAt(k[1], Time[env.id])  BY <1>10, <3>2, <4>1
        <4> QED  BY <1>1, <4>1, <4>2, GivenMore
      <3> QED  BY <3>1, <3>2
    <2>2. c # <<>>  BY NoKeys
    <2>3. End(k) <= Time[Last(c).id] <=> End(k) <= t
      BY <1>3, <1>5, <1>10, <2>2, FinalKept
    <2>4. k \in Keys(d)  BY <1>4
    <2> HIDE DEF d, old, new
    <2>5. (End(k) <= Time[Last(c).id]) = (End(k) <= t)  BY <2>3
    <2> QED  BY <1>7, <1>8, <2>1, <2>4, <2>5
  <1> HIDE DEF d, old, new, touched
  <1>11. DOMAIN changes = touched \cup final /\ \A k \in touched \cup final : changes[k] = new[k]
    OBVIOUS
  <1>12. followed = old  BY DEF old
  <1> HIDE DEF changes
  <1>13. Follows(changes) = [k \in Keys(d) |-> new[k]]
    <2>1. DOMAIN followed \cup DOMAIN changes = Keys(d)  BY <1>4, <1>6, <1>7, <1>11, <1>12
    <2>2. ASSUME NEW k \in Keys(d)
          PROVE  (IF k \notin DOMAIN changes THEN followed[k]
                  ELSE IF k \in DOMAIN followed THEN Newer(followed[k], changes[k])
                       ELSE changes[k]) = new[k]
      BY <1>4, <1>7, <1>9, <1>10, <1>11, <1>12
    <2> QED  BY <2>1, <2>2 DEF Follows
  <1>14. new = [k \in Keys(d) |-> new[k]]  BY <1>2, FinalizedIs DEF new
  <1> QED  BY <1>13, <1>14 DEF changes, touched, new, d

-----------------------------------------------------------------------------
(* The candles and their followers, whenever every retained block applies. *)
CandleInv ==
  /\ EngineInv
  /\ Whole => candles = Reference /\ followed = Finalized(Reference, blocks)

THEOREM InitCandleInv == CandleInit => CandleInv
  <1> SUFFICES ASSUME CandleInit PROVE CandleInv  OBVIOUS
  <1>1. EngineInv  BY InitEngineInv DEF CandleInit
  <1>2. blocks = <<>> /\ candles = NoCandles /\ followed = NoCandles  BY DEF CandleInit, Init
  <1>3. Reference = NoCandles  BY <1>2, NoKeys, ReferenceIs DEF Reference, NoCandles
  <1>4. Finalized(Reference, blocks) = NoCandles
    <2>1. DOMAIN NoCandles = {}  BY DEF NoCandles
    <2> QED  BY <1>3, <2>1 DEF Finalized, NoCandles
  <1> QED  BY <1>1, <1>2, <1>3, <1>4 DEF CandleInv

(* A chain that applies to its end has views that are its blocks, and only *)
(* grows from one that does.                                               *)
LEMMA WholeViews ==
  ASSUME NEW c, NEW vs, NEW ix, Retained(c, vs, ix), Restorable(c)
  PROVE  vs = c /\ GoodTo(c, Len(c))
  <1>1. c \in Seq(Envelope)  BY DEF Retained, ChainOK
  <1>2. ASSUME NEW k \in 1..Len(c), Stuck(c, vs, k) PROVE FALSE
    BY <1>1, <1>2, NotRestorable DEF Stuck
  <1> QED  BY <1>2 DEF Retained, History, Sound

LEMMA WholeBefore ==
  ASSUME NEW c, ChainOK(c), NEW env \in Envelope, GoodTo(Append(c, env), Len(Append(c, env)))
  PROVE  Restorable(c)
  <1> DEFINE d == Append(c, env)
  <1>1. c \in Seq(Envelope) /\ Len(c) \in Nat  BY ChainLen DEF ChainOK
  <1>2. Len(d) = Len(c) + 1 /\ \A n \in 1..Len(c) : d[n] = c[n]  BY <1>1, AppendSeq
  <1>3. GoodTo(d, Len(c))
    <2> HIDE DEF d
    <2>1. \A i \in 1..Len(c) : i \in 1..Len(d)  BY <1>1, <1>2
    <2>2. GoodTo(d, Len(d))  BY DEF d
    <2> QED  BY <2>1, <2>2 DEF GoodTo
  <1> HIDE DEF d
  <1>4. GoodTo(c, Len(c))
    <2>1. Len(c) \in 0..Len(c) /\ \A n \in 1..Len(c) : c[n] = d[n]  BY <1>1, <1>2
    <2>2. GoodTo(c, Len(c)) <=> GoodTo(d, Len(c))  BY <1>1, <2>1, Agree
    <2> QED  BY <1>3, <2>2
  <1> QED  BY <1>4, RestorableGood

LEMMA CandlesAppendedStep ==
  ASSUME CandleInv, NEW b \in Blocks, CandlesAppended(b), EngineInv', Whole'
  PROVE  candles' = Reference' /\ followed' = Finalized(Reference', blocks')
  <1> DEFINE env == Canonical(b, eventIndex)
  <1>1. blocks' = Append(blocks, env) /\ ChainOK(blocks) /\ ChainOK(blocks')
    BY DEF CandlesAppended, Appended, CandleInv, EngineInv, Retained
  <1>2. env \in Envelope /\ env.id = b  BY CanonicalType
  <1>3. views' = blocks' /\ GoodTo(blocks', Len(blocks'))
    <2>1. Retained(blocks', views', eventIndex')  BY DEF EngineInv
    <2>2. Restorable(blocks')  BY DEF Whole
    <2> QED  BY <2>1, <2>2, WholeViews
  <1> HIDE DEF env
  <1>4. blocks \in Seq(Envelope) /\ Last(blocks') = env /\ Last(views') = env
    BY <1>1, <1>2, <1>3, AppendSeq DEF ChainOK
  <1>5. Whole  BY <1>1, <1>2, <1>3, WholeBefore DEF Whole
  <1>6. candles = ReferenceOf(blocks) /\ followed = Finalized(ReferenceOf(blocks), blocks)
    BY <1>5 DEF CandleInv, Reference
  <1>7. candles' = ReferenceOf(blocks')
    <2>1. candles' = Incremented(candles, env)  BY <1>4 DEF CandlesAppended
    <2> QED  BY <1>1, <1>2, <1>4, <1>6, <2>1, IncrementedIs
  <1> DEFINE touched == IF env.kept = {} THEN {} ELSE {KeyAt(i, Time[env.id]) : i \in Intervals}
             final == IF blocks = <<>> THEN {}
                      ELSE NewlyFinalized(ReferenceOf(blocks), Time[Last(blocks).id], Time[env.id])
  <1>8. followed' = Follows([k \in touched \cup final |-> Finalized(candles', blocks')[k]])
    BY <1>2, <1>4, <1>6 DEF CandlesAppended
  <1>9. Follows([k \in touched \cup final |->
                   Finalized(ReferenceOf(Append(blocks, env)), Append(blocks, env))[k]])
          = Finalized(ReferenceOf(Append(blocks, env)), Append(blocks, env))
    BY <1>1, <1>2, <1>6, FollowedMore
  <1> HIDE DEF touched, final
  <1> QED  BY <1>1, <1>7, <1>8, <1>9 DEF Reference

LEMMA CandlesReplacedStep ==
  ASSUME NEW b, CandlesReplaced(b), EngineInv', Whole'
  PROVE  candles' = Reference' /\ followed' = Finalized(Reference', blocks')
  <1>1. Retained(blocks', views', eventIndex') /\ ChainOK(blocks')  BY DEF EngineInv, Retained
  <1>2. views' = blocks'
    <2>1. Restorable(blocks')  BY DEF Whole
    <2> QED  BY <1>1, <2>1, WholeViews
  <1>3. CandlesRebuilt = RolledUp(MinutesOf(blocks'))  BY <1>2 DEF CandlesRebuilt
  <1>4. MinutesOf(blocks') = Below(blocks', 1)  BY <1>1, MinutesAre DEF ChainOK
  <1>5. RolledUp(Below(blocks', 1)) = ReferenceOf(blocks')  BY <1>1, RolledUpIs
  <1>6. candles' = ReferenceOf(blocks')  BY <1>3, <1>4, <1>5 DEF CandlesReplaced
  <1> QED  BY <1>2, <1>6 DEF CandlesReplaced, Reference

LEMMA CandlesRestoredStep ==
  ASSUME CandleInv, CandlesRestored
  PROVE  Whole' => candles' = Reference' /\ followed' = Finalized(Reference', blocks')
  <1>1. UNCHANGED engineVars  BY RestoredStep DEF CandlesRestored, CandleInv, EngineInv
  <1>2. blocks' = blocks /\ ChainOK(blocks)  BY <1>1 DEF engineVars, CandleInv, EngineInv, Retained
  <1>3. Whole  BY DEF CandlesRestored, Restored, Whole
  <1>4. candles' = ReferenceOf(blocks)  BY <1>2, IngestedIs DEF CandlesRestored
  <1>5. followed' = Finalized(ReferenceOf(blocks), blocks)
    BY <1>3 DEF CandlesRestored, CandleInv, Reference
  <1> QED  BY <1>2, <1>4, <1>5 DEF Reference

(* Every way of keeping the candles keeps it.                              *)
THEOREM NextCandleInv == CandleInv /\ [CandleNext]_candleVars => CandleInv'
  <1> SUFFICES ASSUME CandleInv, [CandleNext]_candleVars PROVE CandleInv'  OBVIOUS
  <1>1. Offered \subseteq Blocks  BY BlockAssumption DEF Offered, BlockAssumption
  <1>2. [Next]_engineVars
    <2>1. ASSUME NEW b \in Offered,
                 CandlesAppended(b) \/ CandlesReplaced(b) \/ CandlesDuplicated(b)
          PROVE  Next
      BY <2>1 DEF CandlesAppended, CandlesReplaced, CandlesDuplicated, Next
    <2>2. CandlesRestored => Next  BY DEF CandlesRestored, Next
    <2>3. UNCHANGED candleVars => UNCHANGED engineVars  BY DEF candleVars
    <2> QED  BY <2>1, <2>2, <2>3 DEF CandleNext
  <1>3. EngineInv'  BY <1>2, NextEngineInv DEF CandleInv
  <1>4. ASSUME NEW b \in Offered, CandlesAppended(b) PROVE CandleInv'
    <2>1. b \in Blocks  BY <1>1
    <2> QED  BY <1>3, <1>4, <2>1, CandlesAppendedStep DEF CandleInv
  <1>5. ASSUME NEW b \in Offered, CandlesReplaced(b) PROVE CandleInv'
    BY <1>3, <1>5, CandlesReplacedStep DEF CandleInv
  <1>6. CASE CandlesRestored  BY <1>3, <1>6, CandlesRestoredStep DEF CandleInv
  <1>7. ASSUME UNCHANGED candleVars PROVE CandleInv'
    <2>1. blocks' = blocks /\ candles' = candles /\ followed' = followed
      BY <1>7 DEF candleVars, engineVars
    <2> QED  BY <1>3, <2>1 DEF CandleInv, Whole, Reference
  <1>8. ASSUME NEW b, CandlesDuplicated(b) PROVE CandleInv'
    BY <1>7, <1>8 DEF CandlesDuplicated, Duplicated, candleVars
  <1> QED  BY <1>4, <1>5, <1>6, <1>7, <1>8 DEF CandleNext

(* However the chain came to be, whenever every retained block applies the *)
(* candles of every interval are those of its events, each once and in     *)
(* order, and a follower told only of changes holds all of them.           *)
THEOREM Candles == CandleSpec => []CandlesFollowed
  <1>1. CandleInv => CandlesFollowed  BY DEF CandleInv, CandlesFollowed
  <1> QED  BY <1>1, InitCandleInv, NextCandleInv, PTL DEF CandleSpec

-----------------------------------------------------------------------------
(* Naturals.                                                               *)

(* A nonempty set of naturals has a least element, since 0..u shrinks with *)
(* u and sets of finite sets have minimal elements.                        *)
LEMMA LeastNat ==
  ASSUME NEW S \in SUBSET Nat, S # {}
  PROVE  \E m \in S : \A x \in S : m <= x
  <1> DEFINE R == StrictSubsetOrdering(Nat)
             T == {0..u : u \in S}
  <1>1. T \subseteq FiniteSubsetsOf(Nat) /\ T # {}
    <2>1. \A u \in S : IsFiniteSet(0..u) /\ 0..u \subseteq Nat BY FS_Interval
    <2> QED  BY <2>1 DEF FiniteSubsetsOf
  <1>2. PICK I \in T : \A J \in T : <<J, I>> \notin R
    <2> HIDE DEF R, T
    <2>1. IsWellFoundedOn(StrictSubsetOrdering(Nat), FiniteSubsetsOf(Nat))
      BY FS_StrictSubsetOrderingWellFounded
    <2>2. IsWellFoundedOn(R, FiniteSubsetsOf(Nat)) BY <2>1 DEF R
    <2> QED  BY <1>1, <2>2, WFMin
  <1>3. PICK m \in S : I = 0..m OBVIOUS
  <1>4. ASSUME NEW x \in S, x < m PROVE FALSE
    <2>1. 0..x \subseteq 0..m /\ 0..x # 0..m
      <3>1. m \in 0..m /\ m \notin 0..x BY <1>4
      <3> QED  BY <1>4, <3>1
    <2>2. <<0..x, 0..m>> \in R BY <2>1 DEF StrictSubsetOrdering
    <2> QED  BY <2>2, <1>2, <1>3
  <1> QED  BY <1>4

(* A nonempty set of indices has a greatest one.                           *)
LEMMA MaxIndex ==
  ASSUME NEW n \in Nat, NEW S \in SUBSET (1..n), S # {}
  PROVE  Max(S) \in S /\ \A x \in S : x <= Max(S)
  <1> DEFINE T == {n - x : x \in S}
  <1>1. T \in SUBSET Nat /\ T # {}
    <2>1. \A x \in S : x \in 1..n OBVIOUS
    <2>2. \A x \in S : n - x \in Nat BY <2>1
    <2> QED  BY <2>2
  <1>2. PICK m \in T : \A x \in T : m <= x BY <1>1, LeastNat
  <1>3. PICK k \in S : m = n - k OBVIOUS
  <1>4. \A x \in S : k >= x
    <2> SUFFICES ASSUME NEW x \in S PROVE k >= x OBVIOUS
    <2>1. n - x \in T OBVIOUS
    <2> QED  BY <1>2, <1>3, <2>1
  <1>5. \E y \in S : \A x \in S : y >= x BY <1>4
  <1> HIDE DEF T
  <1> QED  BY <1>5 DEF Max

(* Min and Max of two numbers.                                             *)
LEMMA PairMinMax ==
  ASSUME NEW a \in Int, NEW b \in Int
  PROVE  /\ Max({a, b}) = IF a >= b THEN a ELSE b
         /\ Min({a, b}) = IF a <= b THEN a ELSE b
  <1>1. \E x \in {a, b} : \A y \in {a, b} : x >= y OBVIOUS
  <1>2. \E x \in {a, b} : \A y \in {a, b} : x <= y OBVIOUS
  <1>3. Max({a, b}) \in {a, b} /\ \A y \in {a, b} : Max({a, b}) >= y BY <1>1 DEF Max
  <1>4. Min({a, b}) \in {a, b} /\ \A y \in {a, b} : Min({a, b}) <= y BY <1>2 DEF Min
  <1> QED  BY <1>3, <1>4

-----------------------------------------------------------------------------
(* Bins and blocks.                                                        *)

LEMMA WindowRange ==
  ASSUME NEW a \in Ids
  PROVE  /\ Window(a) = {id \in Ids : a - Radius <= id /\ id <= a + Radius}
         /\ a \in Window(a)
  <1>1. MaxId \in Nat /\ Radius \in Nat BY PoolAssumption DEF PoolAssumption
  <1>0. a \in Nat BY DEF Ids
  <1>2. Max({0, a - Radius}) = IF 0 >= a - Radius THEN 0 ELSE a - Radius
    BY <1>0, <1>1, PairMinMax
  <1>3. Min({MaxId, a + Radius}) = IF MaxId <= a + Radius THEN MaxId ELSE a + Radius
    <2>1. MaxId \in Int /\ a + Radius \in Int BY <1>0, <1>1
    <2> QED  BY <2>1, PairMinMax
  <1> QED  BY <1>1, <1>2, <1>3 DEF Window, Ids

LEMMA BetweenRange ==
  ASSUME NEW a \in Ids, NEW b \in Ids
  PROVE  Between(a, b) \subseteq Ids /\ a \in Between(a, b) /\ b \in Between(a, b)
  <1>1. MaxId \in Nat BY PoolAssumption DEF PoolAssumption
  <1>2. Min({a, b}) = (IF a <= b THEN a ELSE b) /\ Max({a, b}) = (IF a >= b THEN a ELSE b)
    BY <1>1, PairMinMax DEF Ids
  <1>3. Min({a, b}) \in Ids /\ Max({a, b}) \in Ids BY <1>2
  <1>4. Max({0, Min({a, b})}) = Min({a, b}) /\ Min({MaxId, Max({a, b})}) = Max({a, b})
    <2> DEFINE x == Min({a, b})
               y == Max({a, b})
    <2>1. x \in Int /\ 0 <= x /\ y \in Int /\ y <= MaxId BY <1>1, <1>3 DEF Ids
    <2> HIDE DEF x, y
    <2>2. Max({0, x}) = x BY <2>1, PairMinMax
    <2>3. Min({MaxId, y}) = y
      <3>1. MaxId \in Int /\ y \in Int BY <1>1, <2>1
      <3>2. Min({MaxId, y}) = IF MaxId <= y THEN MaxId ELSE y BY <3>1, PairMinMax
      <3> QED  BY <2>1, <3>1, <3>2
    <2> QED  BY <2>2, <2>3 DEF x, y
  <1> QED  BY <1>1, <1>2, <1>3, <1>4 DEF Between, Ids

(* What is true of the events of a block.                                  *)
LEMMA EventFacts ==
  ASSUME minted \in Nat, NEW events \in Eventful
  PROVE  /\ Len(events) \in Nat /\ DOMAIN events = 1..Len(events)
         /\ \A i \in DOMAIN events : events[i] \in Event
  <1>1. PICK m \in 0..(MaxEvents - minted) : events \in [1..m -> Event]
    BY DEF Eventful, SeqOf
  <1>2. MaxEvents \in Nat BY PoolAssumption DEF PoolAssumption
  <1>3. m \in Nat BY <1>1, <1>2
  <1>4. events \in Seq(Event) BY <1>1, <1>3
  <1> QED  BY <1>4

(* The active bin moves only by swaps, to a bin that was traded.           *)
LEMMA ActiveFacts ==
  ASSUME minted \in Nat, NEW events \in Eventful, NEW a \in Ids
  PROVE  /\ \A n \in 1..(Len(events) + 1) : ActiveBefore(a, events, n) \in Ids
         /\ ActiveAfter(a, events) \in Ids
         /\ ActiveAfter(a, events) # a => ActiveAfter(a, events) \in Traded(a, events)
  <1>1. Len(events) \in Nat /\ DOMAIN events = 1..Len(events) BY EventFacts
  <1>2. \A i \in DOMAIN events : events[i].id \in Ids BY EventFacts DEF Event
  <1>3. ASSUME NEW n \in 1..(Len(events) + 1)
        PROVE  \/ ActiveBefore(a, events, n) = a
               \/ \E i \in SwapsAt(events) : ActiveBefore(a, events, n) = events[i].id
    <2> DEFINE earlier == {i \in SwapsAt(events) : i < n}
    <2>1. CASE earlier = {} BY <2>1 DEF ActiveBefore
    <2>2. CASE earlier # {}
      <3>1. earlier \in SUBSET (1..Len(events)) BY <1>1 DEF SwapsAt
      <3>2. Max(earlier) \in earlier BY <1>1, <2>2, <3>1, MaxIndex
      <3>3. ActiveBefore(a, events, n) = events[Max(earlier)].id BY <2>2 DEF ActiveBefore
      <3> QED  BY <3>2, <3>3
    <2> QED  BY <2>1, <2>2
  <1>4. SwapsAt(events) \subseteq DOMAIN events BY DEF SwapsAt
  <1>5. \A n \in 1..(Len(events) + 1) : ActiveBefore(a, events, n) \in Ids
    BY <1>2, <1>3, <1>4
  <1>6. Len(events) + 1 \in 1..(Len(events) + 1) BY <1>1
  <1>7. ASSUME ActiveAfter(a, events) # a PROVE ActiveAfter(a, events) \in Traded(a, events)
    <2>1. PICK i \in SwapsAt(events) : ActiveAfter(a, events) = events[i].id
      BY <1>3, <1>6, <1>7 DEF ActiveAfter
    <2>2. i \in 1..(Len(events) + 1) /\ events[i].id \in Ids BY <1>1, <1>2, <1>4
    <2>3. events[i].id \in Between(ActiveBefore(a, events, i), events[i].id)
      BY <1>5, <2>2, BetweenRange
    <2> QED  BY <2>1, <2>3 DEF Traded
  <1> QED  BY <1>5, <1>6, <1>7 DEF ActiveAfter

-----------------------------------------------------------------------------
(* The engine.                                                             *)

BinRecords == [content : {0, 1}, revision : Nat]
BinMaps == UNION {[S -> BinRecords] : S \in SUBSET Ids}

(* A state of the engine that has the window, with the chain's content.    *)
States ==
  {s \in [hash : Nat, active : Ids, content : [Ids -> {0, 1}], revision : Nat, bins : BinMaps] :
     /\ Window(s.active) \subseteq DOMAIN s.bins
     /\ \A id \in DOMAIN s.bins : s.bins[id].content = s.content[id]}

RetainedOK == retained \in Seq(States) /\ retained # <<>> /\ minted \in Nat /\ forced \in BOOLEAN

LEMMA BinMapFacts ==
  ASSUME NEW b \in BinMaps
  PROVE  DOMAIN b \subseteq Ids /\ b \in [DOMAIN b -> BinRecords]
  BY DEF BinMaps

LEMMA BinMapIntro ==
  ASSUME NEW S \in SUBSET Ids, NEW b \in [S -> BinRecords]
  PROVE  b \in BinMaps
  BY DEF BinMaps

LEMMA StateFacts ==
  ASSUME NEW s \in States
  PROVE  /\ s.hash \in Nat /\ s.active \in Ids /\ s.content \in [Ids -> {0, 1}]
         /\ s.revision \in Nat
         /\ DOMAIN s.bins \subseteq Ids /\ s.bins \in [DOMAIN s.bins -> BinRecords]
         /\ Window(s.active) \subseteq DOMAIN s.bins
         /\ \A id \in DOMAIN s.bins : s.bins[id].content = s.content[id]
  <1>1. s.bins \in BinMaps BY DEF States
  <1> QED  BY <1>1, BinMapFacts DEF States

(* What a read selects: the new window is read, or was there and stays.    *)
LEMMA Selected ==
  ASSUME minted \in Nat, NEW events \in Eventful, NEW full \in BOOLEAN, NEW a \in Ids
  PROVE  LET obs == Observation(a, events, full)
             after == ActiveAfter(a, events)
         IN /\ obs.ids \subseteq Ids /\ after \in obs.ids
            /\ obs.replace => obs.ids = Window(after)
            /\ ~obs.replace => /\ Traded(a, events) \subseteq obs.ids
                               /\ Window(after) \subseteq obs.ids \cup Window(a)
            /\ obs.replace \in BOOLEAN
  <1> DEFINE after == ActiveAfter(a, events)
             ids == Crossed(a, events) \cup Named(events) \cup {after} \cup Edge(a, after)
  <1>0. MaxId \in Nat /\ Radius \in Nat BY PoolAssumption DEF PoolAssumption
  <1>1. after \in Ids BY ActiveFacts
  <1>2. Crossed(a, events) = UNION {Between(ActiveBefore(a, events, i), events[i].id) : i \in SwapsAt(events)}
    BY DEF Crossed
  <1>3. Traded(a, events) = Crossed(a, events) \cup Named(events)
    <2>1. \A x : x \in Traded(a, events) <=> x \in Crossed(a, events) \/ x \in Named(events)
      BY DEF Traded, Crossed
    <2> QED  BY <2>1
  <1>4. Crossed(a, events) \subseteq Ids /\ Named(events) \subseteq Ids
    <2>1. \A i \in DOMAIN events : events[i].id \in Ids BY EventFacts DEF Event
    <2>2. \A i \in SwapsAt(events) : i \in DOMAIN events /\ i \in 1..(Len(events) + 1)
      BY EventFacts DEF SwapsAt
    <2>3. \A i \in SwapsAt(events) :
            Between(ActiveBefore(a, events, i), events[i].id) \subseteq Ids
      BY <2>1, <2>2, ActiveFacts, BetweenRange
    <2> QED  BY <1>2, <2>1, <2>3 DEF Named
  <1>5. Window(a) = {id \in Ids : a - Radius <= id /\ id <= a + Radius}
    BY WindowRange
  <1>6. /\ Window(after) = {id \in Ids : after - Radius <= id /\ id <= after + Radius}
        /\ after \in Window(after)
    BY <1>1, WindowRange
  <1>7. Edge(a, after) \subseteq Ids /\ Window(after) \subseteq Edge(a, after) \cup Window(a)
    <2>1. a \in Nat /\ after \in Nat BY <1>1 DEF Ids
    <2>2. CASE after > a
      <3>1. Min({MaxId, after + Radius}) = IF MaxId <= after + Radius THEN MaxId ELSE after + Radius
        <4>1. MaxId \in Int /\ after + Radius \in Int BY <1>0, <2>1
        <4> QED  BY <4>1, PairMinMax
      <3>2. Edge(a, after) = (a + Radius + 1)..Min({MaxId, after + Radius}) BY <2>2 DEF Edge
      <3>3. after <= MaxId /\ Ids = 0..MaxId BY <1>1 DEF Ids
      <3> HIDE DEF after
      <3>4. \A id : id \in Edge(a, after) <=>
              id \in Nat /\ a + Radius + 1 <= id /\ id <= MaxId /\ id <= after + Radius
        BY <1>0, <2>1, <3>1, <3>2
      <3>5. Edge(a, after) \subseteq Ids BY <1>0, <3>3, <3>4
      <3>6. ASSUME NEW id \in Window(after), id \notin Window(a) PROVE id \in Edge(a, after)
        <4>1. id \in Nat /\ id <= MaxId /\ after - Radius <= id /\ id <= after + Radius
          BY <1>0, <1>6, <3>3, <3>6
        <4>2. ~(id <= a + Radius) BY <1>0, <1>5, <2>1, <2>2, <3>3, <3>6, <4>1
        <4> QED  BY <1>0, <2>1, <3>4, <4>1, <4>2
      <3> QED  BY <3>5, <3>6
    <2>3. CASE after < a
      <3>1. Max({0, after - Radius}) = IF 0 >= after - Radius THEN 0 ELSE after - Radius
        <4>1. 0 \in Int /\ after - Radius \in Int BY <1>0, <2>1
        <4> QED  BY <4>1, PairMinMax
      <3>2. Edge(a, after) = Max({0, after - Radius})..(a - Radius - 1) BY <2>1, <2>3 DEF Edge
      <3>3. a <= MaxId /\ Ids = 0..MaxId BY DEF Ids
      <3> HIDE DEF after
      <3>4. \A id : id \in Edge(a, after) <=>
              id \in Nat /\ after - Radius <= id /\ id <= a - Radius - 1
        BY <1>0, <2>1, <3>1, <3>2
      <3>5. Edge(a, after) \subseteq Ids BY <1>0, <2>1, <3>3, <3>4
      <3>6. ASSUME NEW id \in Window(after), id \notin Window(a) PROVE id \in Edge(a, after)
        <4>1. id \in Nat /\ id <= MaxId /\ after - Radius <= id /\ id <= after + Radius
          BY <1>0, <1>6, <3>3, <3>6
        <4>2. ~(a - Radius <= id) BY <1>0, <1>5, <2>1, <2>3, <3>3, <3>6, <4>1
        <4> QED  BY <1>0, <2>1, <3>4, <4>1, <4>2
      <3> QED  BY <3>5, <3>6
    <2>4. CASE after = a
      <3>1. Edge(a, after) = {} BY <2>1, <2>4 DEF Edge
      <3> QED  BY <2>4, <3>1
    <2> QED  BY <2>1, <2>2, <2>3, <2>4
  <1>8. Observation(a, events, full) =
          IF full \/ Cardinality(ids) > MaxReads THEN [ids |-> Window(after), replace |-> TRUE]
          ELSE [ids |-> ids, replace |-> FALSE]
    BY DEF Observation
  <1>9. CASE full \/ Cardinality(ids) > MaxReads
    <2>1. Observation(a, events, full) = [ids |-> Window(after), replace |-> TRUE] BY <1>8, <1>9
    <2> QED  BY <1>6, <2>1
  <1>10. CASE ~(full \/ Cardinality(ids) > MaxReads)
    <2>1. Observation(a, events, full) = [ids |-> ids, replace |-> FALSE] BY <1>8, <1>10
    <2> QED  BY <1>1, <1>3, <1>4, <1>7, <2>1
  <1> QED  BY <1>9, <1>10

(* A toggled content is one, and differs only where it was toggled.        *)
LEMMA ToggledFacts ==
  ASSUME NEW content \in [Ids -> {0, 1}], NEW ids
  PROVE  /\ Toggled(content, ids) \in [Ids -> {0, 1}]
         /\ \A id \in Ids : Toggled(content, ids)[id] # content[id] <=> id \in ids
  BY DEF Toggled

(* A block leads from a state to a state: its bins are read or kept, those *)
(* read are new or as before, and one that was traded is new.              *)
LEMMA AfterFacts ==
  ASSUME minted \in Nat, NEW p \in States, NEW events \in Eventful, NEW full \in BOOLEAN
  PROVE  LET s == After(p, events, full)
             obs == Observation(p.active, events, full)
         IN /\ s \in States
            /\ s.revision = p.revision + 1 /\ s.active = ActiveAfter(p.active, events)
            /\ DOMAIN s.bins = obs.ids \cup (IF obs.replace THEN {} ELSE DOMAIN p.bins)
            /\ \A id \in DOMAIN s.bins : id \notin obs.ids => s.bins[id] = p.bins[id]
            /\ \A id \in obs.ids \cap DOMAIN p.bins :
                 IF Unchanged(p.bins, id, s.content) THEN s.bins[id] = p.bins[id]
                 ELSE s.bins[id].revision > p.bins[id].revision
            /\ s.active # p.active => ~Unchanged(p.bins, s.active, s.content)
  <1> DEFINE s == After(p, events, full)
             obs == Observation(p.active, events, full)
             content == Toggled(p.content, Traded(p.active, events))
             ids == obs.ids \cup (IF obs.replace THEN {} ELSE DOMAIN p.bins)
             a == ActiveAfter(p.active, events)
  <1>1. p.active \in Ids /\ p.content \in [Ids -> {0, 1}] /\ p.revision \in Nat
    BY StateFacts
  <1>2. /\ DOMAIN p.bins \subseteq Ids /\ p.bins \in [DOMAIN p.bins -> BinRecords]
        /\ Window(p.active) \subseteq DOMAIN p.bins
        /\ \A id \in DOMAIN p.bins : p.bins[id].content = p.content[id]
    BY StateFacts
  <1>3. /\ obs.ids \subseteq Ids /\ a \in obs.ids /\ obs.replace \in BOOLEAN
        /\ obs.replace => obs.ids = Window(a)
        /\ ~obs.replace => Traded(p.active, events) \subseteq obs.ids
        /\ ~obs.replace => Window(a) \subseteq obs.ids \cup Window(p.active)
    BY <1>1, Selected
  <1>4. /\ content \in [Ids -> {0, 1}]
        /\ \A id \in Ids : content[id] # p.content[id] <=> id \in Traded(p.active, events)
    BY <1>1, ToggledFacts
  <1>5. a \in Ids /\ (a # p.active => a \in Traded(p.active, events)) BY <1>1, ActiveFacts
  <1>6. Len(events) \in Nat BY EventFacts
  <1>7. /\ s.hash = minted + Len(events) /\ s.active = a /\ s.content = content
        /\ s.revision = p.revision + 1 /\ s.bins = BinsAfter(p.bins, obs, content)
        /\ s = [hash |-> s.hash, active |-> s.active, content |-> s.content,
                revision |-> s.revision, bins |-> s.bins]
    BY DEF After
  <1> HIDE DEF s, obs, content, a
  <1>8. s.bins = [id \in ids |-> IF id \in obs.ids THEN Observed(p.bins, id, content) ELSE p.bins[id]]
    BY <1>7 DEF BinsAfter
  <1>9. ids \subseteq Ids BY <1>2, <1>3
  <1>10. ASSUME NEW id \in obs.ids
         PROVE  /\ Observed(p.bins, id, content) \in BinRecords
                /\ Observed(p.bins, id, content).content = content[id]
                /\ id \in DOMAIN p.bins =>
                     IF Unchanged(p.bins, id, content)
                     THEN Observed(p.bins, id, content) = p.bins[id]
                     ELSE Observed(p.bins, id, content).revision > p.bins[id].revision
    <2>1. id \in Ids /\ content[id] \in {0, 1} BY <1>3, <1>4
    <2>2. id \in DOMAIN p.bins => p.bins[id] \in BinRecords BY <1>2
    <2>3. id \in DOMAIN p.bins => p.bins[id].revision \in Nat BY <2>2 DEF BinRecords
    <2>4. /\ RevisionOf(p.bins, id) \in Nat
          /\ id \in DOMAIN p.bins => RevisionOf(p.bins, id) = p.bins[id].revision
      BY <2>3 DEF RevisionOf
    <2>5. CASE Unchanged(p.bins, id, content)
      BY <2>2, <2>5 DEF Observed, Unchanged
    <2>6. CASE ~Unchanged(p.bins, id, content)
      <3>1. Observed(p.bins, id, content) = [content |-> content[id], revision |-> RevisionOf(p.bins, id) + 1]
        BY <2>6 DEF Observed, Bin
      <3> QED  BY <2>1, <2>4, <2>6, <3>1 DEF BinRecords
    <2> QED  BY <2>5, <2>6
  <1>11. ASSUME NEW id \in ids, id \notin obs.ids
         PROVE  p.bins[id] \in BinRecords /\ p.bins[id].content = content[id]
    <2>1. ~obs.replace /\ id \in DOMAIN p.bins BY <1>3, <1>11
    <2>2. id \notin Traded(p.active, events) BY <1>3, <1>11, <2>1
    <2>3. content[id] = p.content[id] BY <1>2, <1>4, <2>1, <2>2
    <2> QED  BY <1>2, <2>1, <2>3
  <1>12. s.bins \in [ids -> BinRecords] BY <1>8, <1>10, <1>11
  <1>13. \A id \in ids : s.bins[id].content = content[id] BY <1>8, <1>10, <1>11
  <1>14. Window(a) \subseteq ids BY <1>2, <1>3
  <1>15. s \in States
    <2>1. s.bins \in BinMaps BY <1>9, <1>12, BinMapIntro
    <2>2. DOMAIN s.bins = ids BY <1>8
    <2>3. minted + Len(events) \in Nat /\ p.revision + 1 \in Nat BY <1>1, <1>6
    <2> HIDE DEF ids
    <2>4. s \in [hash : Nat, active : Ids, content : [Ids -> {0, 1}], revision : Nat, bins : BinMaps]
      BY <1>4, <1>5, <1>7, <2>1, <2>3
    <2> QED  BY <1>7, <1>13, <1>14, <2>2, <2>4 DEF States
  <1>16. \A id \in ids : id \notin obs.ids => s.bins[id] = p.bins[id] BY <1>8
  <1>17. \A id \in obs.ids \cap DOMAIN p.bins :
           IF Unchanged(p.bins, id, content) THEN s.bins[id] = p.bins[id]
           ELSE s.bins[id].revision > p.bins[id].revision
    <2>1. \A id \in obs.ids : id \in ids /\ s.bins[id] = Observed(p.bins, id, content) BY <1>8
    <2> QED  BY <1>10, <2>1
  <1>18. a # p.active => ~Unchanged(p.bins, a, content)
    <2> SUFFICES ASSUME a # p.active, a \in DOMAIN p.bins PROVE p.bins[a].content # content[a]
      BY DEF Unchanged
    <2>1. content[a] # p.content[a] BY <1>4, <1>5
    <2> QED  BY <1>2, <2>1
  <1>19. DOMAIN s.bins = ids BY <1>8
  <1>20. s.active \in obs.ids /\ s.revision = p.revision + 1 /\ s.active = ActiveAfter(p.active, events)
    BY <1>3, <1>7 DEF a
  <1>21. \A id \in DOMAIN s.bins : id \notin obs.ids => s.bins[id] = p.bins[id] BY <1>16, <1>19
  <1>22. \A id \in obs.ids \cap DOMAIN p.bins :
           IF Unchanged(p.bins, id, s.content) THEN s.bins[id] = p.bins[id]
           ELSE s.bins[id].revision > p.bins[id].revision
    BY <1>7, <1>17
  <1>23. s.active # p.active => ~Unchanged(p.bins, s.active, s.content) BY <1>7, <1>18
  <1> QED  BY <1>15, <1>19, <1>20, <1>21, <1>22, <1>23 DEF s, obs
-----------------------------------------------------------------------------
(* The retained states.                                                    *)

LEMMA CreatedOK ==
  ASSUME NEW a \in Ids
  PROVE  Created(a) \in States
  <1>1. Window(a) \subseteq Ids BY WindowRange
  <1>2. Created(a).bins \in [Window(a) -> BinRecords] BY DEF Created, Bin, BinRecords
  <1>3. Created(a).bins \in BinMaps BY <1>1, <1>2, BinMapIntro
  <1> QED  BY <1>1, <1>3 DEF Created, Bin, States

LEMMA RetainedFacts ==
  ASSUME RetainedOK
  PROVE  /\ Len(retained) \in Nat \ {0} /\ DOMAIN retained = 1..Len(retained)
         /\ \A n \in DOMAIN retained : retained[n] \in States
         /\ Current = retained[Len(retained)] /\ Current \in States
  <1>1. Len(retained) \in Nat /\ DOMAIN retained = 1..Len(retained) /\ Len(retained) # 0
    BY DEF RetainedOK
  <1>2. \A n \in DOMAIN retained : retained[n] \in States BY DEF RetainedOK
  <1> QED  BY <1>1, <1>2 DEF Current, Last

LEMMA StatesAppended ==
  ASSUME NEW S, NEW s \in Seq(S), NEW x \in S
  PROVE  /\ Append(s, x) \in Seq(S) /\ Append(s, x) # <<>>
         /\ Len(Append(s, x)) = Len(s) + 1
         /\ DOMAIN Append(s, x) = 1..(Len(s) + 1)
         /\ \A i \in 1..Len(s) : Append(s, x)[i] = s[i]
         /\ Append(s, x)[Len(s) + 1] = x
  <1>1. Append(s, x) \in Seq(S) /\ Len(Append(s, x)) = Len(s) + 1 OBVIOUS
  <1>0. Len(s) \in Nat OBVIOUS
  <1>2. Append(s, x) # <<>>
    <2>1. Len(Append(s, x)) # 0 BY <1>0, <1>1
    <2>2. Len(<<>>) = 0 OBVIOUS
    <2> QED  BY <2>1, <2>2
  <1> QED  BY <1>1, <1>2

LEMMA InitRetained == PoolInit => RetainedOK
  <1> SUFFICES ASSUME PoolInit PROVE RetainedOK OBVIOUS
  <1>1. PICK a \in Ids : retained = <<Created(a)>> BY DEF PoolInit
  <1>2. Created(a) \in States BY CreatedOK
  <1>3. retained \in Seq(States) /\ retained # <<>> BY <1>1, <1>2
  <1> QED  BY <1>3 DEF PoolInit, RetainedOK

(* What a block appends is a state, whichever retained one it extends.     *)
LEMMA NextRetained == RetainedOK /\ [PoolNext]_poolVars => RetainedOK'
  <1> SUFFICES ASSUME RetainedOK, [PoolNext]_poolVars PROVE RetainedOK' OBVIOUS
  <1>1. /\ Len(retained) \in Nat \ {0} /\ DOMAIN retained = 1..Len(retained)
        /\ \A n \in DOMAIN retained : retained[n] \in States
        /\ Current \in States /\ retained \in Seq(States) /\ minted \in Nat
    BY RetainedFacts DEF RetainedOK
  <1>2. \A events \in Eventful : Len(events) \in Nat BY <1>1, EventFacts
  <1>3. ASSUME NEW events \in Eventful, Block(events) PROVE RetainedOK'
    <2>1. After(Current, events, forced) \in States BY <1>1, AfterFacts DEF RetainedOK
    <2>2. retained' = Append(retained, After(Current, events, forced)) /\ minted' = minted + Len(events)
      BY <1>3 DEF Block
    <2>3. forced' = FALSE BY <1>3 DEF Block
    <2>4. retained' \in Seq(States) /\ retained' # <<>> BY <1>1, <2>1, <2>2, StatesAppended
    <2>5. minted' \in Nat BY <1>1, <1>2, <2>2
    <2> QED  BY <2>3, <2>4, <2>5 DEF RetainedOK
  <1>4. ASSUME NEW n \in DOMAIN retained
        PROVE  SubSeq(retained, 1, n) \in Seq(States) /\ Len(SubSeq(retained, 1, n)) = n
    BY <1>1
  <1>5. ASSUME NEW events \in Eventful, NEW n \in DOMAIN retained, Reorg(n, events) PROVE RetainedOK'
    <2>1. After(retained[n], events, FALSE) \in States BY <1>1, AfterFacts
    <2>2. /\ retained' = Append(SubSeq(retained, 1, n), After(retained[n], events, FALSE))
          /\ minted' = minted + Len(events) /\ forced' = forced
      BY <1>5 DEF Reorg
    <2> DEFINE kept == SubSeq(retained, 1, n)
    <2>3. kept \in Seq(States) BY <1>4
    <2>4. retained' \in Seq(States) /\ retained' # <<>>
      <3> DEFINE new == After(retained[n], events, FALSE)
      <3>1. retained' = Append(kept, new) /\ new \in States BY <2>1, <2>2
      <3> HIDE DEF kept, new
      <3>2. Append(kept, new) \in Seq(States) /\ Append(kept, new) # <<>> BY <2>3, <3>1, StatesAppended
      <3> QED  BY <3>1, <3>2
    <2>5. minted' \in Nat /\ forced' \in BOOLEAN BY <1>1, <1>2, <2>2 DEF RetainedOK
    <2> QED  BY <2>4, <2>5 DEF RetainedOK
  <1>6. ASSUME NEW n \in DOMAIN retained, Rewind(n) PROVE RetainedOK'
    <2>1. retained' = SubSeq(retained, 1, n) /\ minted' = minted /\ forced' = forced
      BY <1>6 DEF Rewind
    <2>2. retained' # <<>> BY <1>1, <1>4, <2>1
    <2> QED  BY <1>1, <1>4, <2>1, <2>2 DEF RetainedOK
  <1>7. ASSUME Restart \/ EndBackfill \/ Load \/ Receive \/ Drain \/ Attested \/ Fails PROVE RetainedOK'
    <2>1. retained' = retained /\ minted' = minted /\ forced' \in {forced, TRUE}
      BY <1>7 DEF Restart, EndBackfill, Load, Receive, Drain, Attested, Fails
    <2> QED  BY <2>1 DEF RetainedOK
  <1>8. ASSUME UNCHANGED poolVars PROVE RetainedOK' BY <1>8 DEF poolVars, RetainedOK
  <1> QED  BY <1>3, <1>5, <1>6, <1>7, <1>8 DEF PoolNext

LEMMA RetainedInvariance == PoolSpec => []RetainedOK
  BY InitRetained, NextRetained, PTL DEF PoolSpec

LEMMA RetainedExact == RetainedOK => WindowExact
  BY RetainedFacts, StateFacts DEF WindowExact

(* The engine always holds the window around the active bin, and holds of  *)
(* each bin what the chain does, though after a block it has read no more  *)
(* than the bins its events name and the edge that came into view          *)
(* (selectObservedBinIds, canonical-block-source.mjs, and                  *)
(* #applyPoolStateObservation, engine.ts): nothing it did not read changed.*)
THEOREM WindowIsExact == PoolSpec => []WindowExact
  BY RetainedInvariance, RetainedExact, PTL
-----------------------------------------------------------------------------
(* The stream.  A point is a state and its number; at[c] is the point that *)
(* the frames up to the c-th lead to.                                      *)
Points == [number : Nat, state : States]
Now == [number |-> Len(retained), state |-> Current]

(* Frame f leads from point x to point y.                                  *)
Leads(x, f, y) ==
  /\ f.number = y.number /\ f.hash = y.state.hash
  /\ f.active = y.state.active /\ f.revision = y.state.revision
  /\ f.replace \in BOOLEAN
  /\ DOMAIN f.bins \subseteq DOMAIN y.state.bins
  /\ \A id \in DOMAIN f.bins : f.bins[id] = y.state.bins[id]
  /\ f.replace =>
       /\ x = y \/ (x.number < y.number /\ x.state.revision < y.state.revision)
       /\ y.state.active \in DOMAIN f.bins
  /\ ~f.replace =>
       /\ x.number < y.number /\ x.state.revision < y.state.revision
       /\ DOMAIN x.state.bins \subseteq DOMAIN y.state.bins
       /\ \A id \in DOMAIN x.state.bins :
            IF id \in DOMAIN f.bins
            THEN y.state.bins[id].revision >= x.state.bins[id].revision
            ELSE y.state.bins[id] = x.state.bins[id]
       /\ y.state.active = x.state.active \/ y.state.active \in DOMAIN f.bins

InStep(at, frames) ==
  /\ at \in [0..Len(frames) -> Points]
  /\ \A c \in 1..Len(frames) : frames[c] = Reset \/ Leads(at[c - 1], frames[c], at[c])

(* In a backfill the engine may be ahead of the stream.                    *)
StreamOK(at) ==
  /\ \E F : log \in Seq(F)
  /\ InStep(at, log)
  /\ phase \in {"live", "backfill"}
  /\ \/ at[Len(log)] = Now
     \/ /\ phase = "backfill"
        /\ at[Len(log)].number < Now.number
        /\ at[Len(log)].state.revision < Now.state.revision

(* What is shown is part of the state at a point, with its active bin.     *)
ViewOf(shown, x) ==
  /\ shown.number = x.number /\ shown.hash = x.state.hash
  /\ shown.active = x.state.active /\ shown.revision = x.state.revision
  /\ DOMAIN shown.bins \subseteq Window(x.state.active) \cap DOMAIN x.state.bins
  /\ x.state.active \in DOMAIN shown.bins
  /\ \A id \in DOMAIN shown.bins : shown.bins[id] = x.state.bins[id]

(* The cursors after k, in order, with no reset among them.                *)
Chain(k, cs) ==
  /\ cs \in Seq(Nat) /\ k + Len(cs) <= Len(log)
  /\ \A i \in DOMAIN cs : cs[i] = k + i /\ log[k + i] # Reset

(* A browser shows a view of the point at its cursor, and has the updates  *)
(* that lead from there to what it received last.                          *)
BrowserOK(at) ==
  \/ browser = NotLoaded
  \/ /\ browser.state = "live" /\ DOMAIN browser = DOMAIN NotLoaded
     /\ browser.shown.cursor \in Nat
     /\ browser.shown.cursor <= Len(log)
     /\ ViewOf(browser.shown, at[browser.shown.cursor])
     /\ Chain(browser.shown.cursor, browser.batch)
     /\ Chain(browser.shown.cursor + Len(browser.batch), browser.pending)
     /\ browser.cursor = browser.shown.cursor + Len(browser.batch) + Len(browser.pending)

PoolInv == RetainedOK /\ \E at : StreamOK(at) /\ BrowserOK(at)

-----------------------------------------------------------------------------
(* What the engine publishes leads from the point before to the one after. *)

LEMMA BlockLeads ==
  ASSUME minted \in Nat, NEW p \in States, NEW events \in Eventful, NEW full \in BOOLEAN,
         NEW m \in Nat, NEW n \in Nat, m < n
  PROVE  LET s == After(p, events, full)
             obs == Observation(p.active, events, full)
         IN Leads([number |-> m, state |-> p],
                  Frame(n, s, Replacements(p.bins, obs, s.content), obs.replace),
                  [number |-> n, state |-> s])
  <1> DEFINE s == After(p, events, full)
             obs == Observation(p.active, events, full)
             ids == Replacements(p.bins, obs, s.content)
             f == Frame(n, s, ids, obs.replace)
  <1>1. /\ s \in States /\ s.revision = p.revision + 1
        /\ DOMAIN s.bins = obs.ids \cup (IF obs.replace THEN {} ELSE DOMAIN p.bins)
        /\ \A id \in DOMAIN s.bins : id \notin obs.ids => s.bins[id] = p.bins[id]
        /\ \A id \in obs.ids \cap DOMAIN p.bins :
             IF Unchanged(p.bins, id, s.content) THEN s.bins[id] = p.bins[id]
             ELSE s.bins[id].revision > p.bins[id].revision
        /\ s.active # p.active => ~Unchanged(p.bins, s.active, s.content)
    BY AfterFacts
  <1>2. /\ obs.replace \in BOOLEAN /\ s.active \in obs.ids
        /\ obs.replace => obs.ids = Window(s.active)
    <2>1. p.active \in Ids BY StateFacts
    <2>2. s.active = ActiveAfter(p.active, events) BY AfterFacts
    <2> QED  BY <2>1, <2>2, Selected
  <1>3. /\ f.number = n /\ f.hash = s.hash /\ f.active = s.active /\ f.revision = s.revision
        /\ f.replace = obs.replace
        /\ DOMAIN f.bins = ids /\ \A id \in ids : f.bins[id] = s.bins[id]
    BY DEF Frame
  <1>4. p.revision \in Nat /\ s.revision > p.revision
    <2>1. p.revision \in Nat BY StateFacts
    <2> QED  BY <1>1, <2>1
  <1>5. /\ ids \subseteq obs.ids
        /\ \A id \in obs.ids : id \notin ids => ~obs.replace /\ Unchanged(p.bins, id, s.content)
        /\ obs.replace => ids = obs.ids
        /\ ~obs.replace => \A id \in ids : ~Unchanged(p.bins, id, s.content)
    BY DEF Replacements
  <1>6. \A id \in DOMAIN p.bins : p.bins[id].revision \in Nat
    BY StateFacts DEF BinRecords
  <1> HIDE DEF s, obs, ids, f
  <1> DEFINE x == [number |-> m, state |-> p]
             y == [number |-> n, state |-> s]
  <1>7. x.number = m /\ x.state = p /\ y.number = n /\ y.state = s OBVIOUS
  <1> HIDE DEF x, y
  <1>8. ids \subseteq DOMAIN s.bins BY <1>1, <1>5
  <1>9. ASSUME f.replace
        PROVE  x.number < y.number /\ x.state.revision < y.state.revision /\ y.state.active \in DOMAIN f.bins
    BY <1>2, <1>3, <1>4, <1>5, <1>7, <1>9
  <1>10. ASSUME ~f.replace
         PROVE  /\ x.number < y.number /\ x.state.revision < y.state.revision
                /\ DOMAIN p.bins \subseteq DOMAIN s.bins
                /\ s.active = p.active \/ s.active \in DOMAIN f.bins
    BY <1>1, <1>2, <1>3, <1>4, <1>5, <1>7, <1>10
  <1>11. ASSUME ~f.replace, NEW id \in DOMAIN p.bins
         PROVE  IF id \in DOMAIN f.bins THEN s.bins[id].revision >= p.bins[id].revision
                ELSE s.bins[id] = p.bins[id]
    <2>1. CASE id \in ids
      <3>1. id \in obs.ids /\ ~Unchanged(p.bins, id, s.content) BY <1>3, <1>5, <1>11, <2>1
      <3>2. s.bins[id].revision > p.bins[id].revision BY <1>1, <3>1
      <3>3. s.bins[id].revision \in Nat BY <1>1, <1>8, <2>1, StateFacts DEF BinRecords
      <3> QED  BY <1>3, <1>6, <2>1, <3>2, <3>3
    <2>2. CASE id \notin ids
      <3>1. id \in DOMAIN s.bins BY <1>10, <1>11
      <3>2. s.bins[id] = p.bins[id] BY <1>1, <1>5, <2>2, <3>1
      <3> QED  BY <1>3, <2>2, <3>2
    <2> QED  BY <2>1, <2>2
  <1>12. Leads(x, f, y)
    BY <1>2, <1>3, <1>7, <1>8, <1>9, <1>10, <1>11 DEF Leads
  <1> QED  BY <1>12 DEF s, obs, ids, f, x, y

(* The snapshot that ends a backfill leads to the state it is of.          *)
LEMMA SnapshotLeads ==
  ASSUME NEW s \in States, NEW n \in Nat, NEW x \in Points,
         \/ x = [number |-> n, state |-> s]
         \/ x.number < n /\ x.state.revision < s.revision
  PROVE  Leads(x, Frame(n, s, DOMAIN s.bins \cap Window(s.active), TRUE),
               [number |-> n, state |-> s])
  <1> DEFINE ids == DOMAIN s.bins \cap Window(s.active)
             f == Frame(n, s, ids, TRUE)
             y == [number |-> n, state |-> s]
  <1>1. s.active \in ids BY StateFacts, WindowRange
  <1>2. /\ f.number = n /\ f.hash = s.hash /\ f.active = s.active /\ f.revision = s.revision
        /\ f.replace = TRUE
        /\ DOMAIN f.bins = ids /\ \A id \in ids : f.bins[id] = s.bins[id]
    BY DEF Frame
  <1>3. y.number = n /\ y.state = s OBVIOUS
  <1>4. ids \subseteq DOMAIN s.bins OBVIOUS
  <1>5. x = y \/ (x.number < n /\ x.state.revision < s.revision) OBVIOUS
  <1> HIDE DEF ids, f, y
  <1>6. Leads(x, f, y) BY <1>1, <1>2, <1>3, <1>4, <1>5 DEF Leads
  <1> QED  BY <1>6 DEF ids, f, y
-----------------------------------------------------------------------------
(* The browser.                                                            *)

LEMMA PointFacts ==
  ASSUME NEW x \in Points
  PROVE  /\ x.number \in Nat /\ x.state \in States /\ x.state.revision \in Nat
         /\ x.state.active \in Window(x.state.active)
         /\ Window(x.state.active) \subseteq DOMAIN x.state.bins
         /\ \A id \in DOMAIN x.state.bins : x.state.bins[id].revision \in Nat
  <1>1. x.number \in Nat /\ x.state \in States BY DEF Points
  <1>2. x.state.bins \in [DOMAIN x.state.bins -> BinRecords] BY <1>1, StateFacts
  <1>3. \A id \in DOMAIN x.state.bins : x.state.bins[id].revision \in Nat BY <1>2 DEF BinRecords
  <1> QED  BY <1>1, <1>3, StateFacts, WindowRange

LEMMA EmptyDomain == DOMAIN <<>> = {}
  OBVIOUS

(* A frame applied to a view of the point before gives one of that after.  *)
LEMMA ShowsView ==
  ASSUME NEW x \in Points, NEW y \in Points, NEW shown, NEW c,
         ViewOf(shown, x), Leads(x, log[c], y)
  PROVE  ViewOf(Shows(shown, c), y) /\ Shows(shown, c).cursor = c
  <1> DEFINE f == log[c]
             base == DOMAIN Base(shown, f)
             ids == (DOMAIN f.bins \cup base) \cap Window(f.active)
             t == Shows(shown, c)
  <1>1. /\ t.cursor = c /\ t.number = f.number /\ t.hash = f.hash /\ t.active = f.active
        /\ t.revision = f.revision
        /\ DOMAIN t.bins = ids
        /\ \A id \in ids : t.bins[id] = IF id \in DOMAIN f.bins THEN f.bins[id] ELSE shown.bins[id]
    BY DEF Shows
  <1>2. /\ f.number = y.number /\ f.hash = y.state.hash
        /\ f.active = y.state.active /\ f.revision = y.state.revision
        /\ DOMAIN f.bins \subseteq DOMAIN y.state.bins
        /\ \A id \in DOMAIN f.bins : f.bins[id] = y.state.bins[id]
        /\ f.replace \in BOOLEAN
    BY DEF Leads
  <1>3. y.state.active \in Window(y.state.active) BY PointFacts
  <1>4. base = IF f.replace THEN {} ELSE DOMAIN shown.bins
    BY EmptyDomain DEF Base
  <1>5. ASSUME f.replace PROVE ViewOf(t, y)
    <2>1. base = {} /\ y.state.active \in DOMAIN f.bins BY <1>4, <1>5 DEF Leads
    <2> HIDE DEF f, t, base
    <2> QED  BY <1>1, <1>2, <1>3, <2>1 DEF ViewOf
  <1>6. ASSUME ~f.replace PROVE ViewOf(t, y)
    <2>1. base = DOMAIN shown.bins BY <1>4, <1>6
    <2>2. /\ DOMAIN x.state.bins \subseteq DOMAIN y.state.bins
          /\ \A id \in DOMAIN x.state.bins :
               id \notin DOMAIN f.bins => y.state.bins[id] = x.state.bins[id]
          /\ y.state.active = x.state.active \/ y.state.active \in DOMAIN f.bins
      BY <1>6 DEF Leads
    <2>3. /\ DOMAIN shown.bins \subseteq DOMAIN x.state.bins
          /\ x.state.active \in DOMAIN shown.bins
          /\ \A id \in DOMAIN shown.bins : shown.bins[id] = x.state.bins[id]
      BY DEF ViewOf
    <2> HIDE DEF f, t, base
    <2>4. y.state.active \in ids BY <1>2, <1>3, <2>1, <2>2, <2>3
    <2>5. \A id \in ids : id \in DOMAIN y.state.bins /\ t.bins[id] = y.state.bins[id]
      BY <1>1, <1>2, <2>1, <2>2, <2>3
    <2> QED  BY <1>1, <1>2, <2>4, <2>5 DEF ViewOf
  <1> QED  BY <1>1, <1>5, <1>6

(* And it is not refused, unless it is a snapshot of what is shown.        *)
LEMMA FitsOrSame ==
  ASSUME NEW x \in Points, NEW y \in Points, NEW shown, NEW c,
         ViewOf(shown, x), Leads(x, log[c], y), c > shown.cursor
  PROVE  Fits(shown, c) \/ (log[c].replace /\ log[c].revision = shown.revision)
  <1> DEFINE f == log[c]
             base == DOMAIN Base(shown, f)
  <1>1. /\ f.number = y.number /\ f.hash = y.state.hash /\ f.revision = y.state.revision
        /\ \A id \in DOMAIN f.bins : f.bins[id] = y.state.bins[id]
        /\ DOMAIN f.bins \subseteq DOMAIN y.state.bins
        /\ f.replace \in BOOLEAN
    BY DEF Leads
  <1>2. shown.number = x.number /\ shown.revision = x.state.revision BY DEF ViewOf
  <1>3. base = IF f.replace THEN {} ELSE DOMAIN shown.bins BY EmptyDomain DEF Base
  <1>4. x.number \in Nat /\ y.number \in Nat /\ x.state.revision \in Nat /\ y.state.revision \in Nat
    BY PointFacts
  <1>5. CASE f.replace /\ x = y BY <1>1, <1>2, <1>5
  <1>6. CASE f.replace /\ x # y
    <2>1. x.number < y.number /\ x.state.revision < y.state.revision BY <1>6 DEF Leads
    <2>2. f.number >= shown.number /\ f.number # shown.number /\ f.revision > shown.revision
      BY <1>1, <1>2, <1>4, <2>1
    <2>3. base = {} BY <1>3, <1>6
    <2> QED  BY <2>2, <2>3 DEF Fits
  <1>7. CASE ~f.replace
    <2>1. x.number < y.number /\ x.state.revision < y.state.revision BY <1>7 DEF Leads
    <2>2. f.number >= shown.number /\ f.number # shown.number /\ f.revision > shown.revision
      BY <1>1, <1>2, <1>4, <2>1
    <2>3. base = DOMAIN shown.bins /\ Base(shown, f) = shown.bins BY <1>3, <1>7 DEF Base
    <2>4. ASSUME NEW id \in DOMAIN f.bins \cap base
          PROVE  f.bins[id].revision >= Base(shown, f)[id].revision
      <3>1. id \in DOMAIN x.state.bins /\ shown.bins[id] = x.state.bins[id] BY <2>3, <2>4 DEF ViewOf
      <3>2. y.state.bins[id].revision >= x.state.bins[id].revision BY <1>7, <2>4, <3>1 DEF Leads
      <3> QED  BY <1>1, <2>3, <2>4, <3>1, <3>2
    <2> QED  BY <2>2, <2>4 DEF Fits
  <1> QED  BY <1>1, <1>5, <1>6, <1>7

(* Updates are applied one after the other: the function that ShowsAll     *)
(* chooses exists, since there is no least length for which it does not.   *)
LEMMA ShowsAllInTurn ==
  ASSUME NEW shown, NEW cs \in Seq(Nat)
  PROVE  \E after : /\ after[0] = shown
                    /\ \A n \in 1..Len(cs) : after[n] = Shows(after[n - 1], cs[n])
                    /\ ShowsAll(shown, cs) = after[Len(cs)]
  <1> DEFINE Turn(g, m) == g = [n \in 0..m |-> IF n = 0 THEN shown ELSE Shows(g[n - 1], cs[n])]
             Without == {m \in Nat : ~\E g : Turn(g, m)}
  <1>1. Without = {}
    <2> SUFFICES ASSUME Without # {} PROVE FALSE OBVIOUS
    <2>1. PICK m \in Without : \A k \in Without : m <= k BY LeastNat
    <2>2. m \in Nat /\ ~\E g : Turn(g, m) BY <2>1
    <2>3. CASE m = 0
      <3> DEFINE g == [n \in 0..m |-> shown]
      <3>1. \A n \in 0..m : n = 0 BY <2>3
      <3>2. Turn(g, m) BY <3>1
      <3> QED  BY <2>2, <3>2
    <2>4. CASE m # 0
      <3>1. m - 1 \in Nat /\ ~(m <= m - 1) BY <2>2, <2>4
      <3>2. m - 1 \notin Without
        <4> HIDE DEF Without
        <4> QED  BY <2>1, <3>1
      <3>3. PICK g : Turn(g, m - 1) BY <3>1, <3>2
      <3> DEFINE h == [n \in 0..m |-> IF n = m THEN Shows(g[m - 1], cs[m]) ELSE g[n]]
      <3>4. \A n \in 0..(m - 1) : g[n] = IF n = 0 THEN shown ELSE Shows(g[n - 1], cs[n])
        BY <3>3
      <3>5. \A n \in 0..m : h[n] = IF n = 0 THEN shown ELSE Shows(h[n - 1], cs[n])
        <4> SUFFICES ASSUME NEW n \in 0..m PROVE h[n] = IF n = 0 THEN shown ELSE Shows(h[n - 1], cs[n])
          OBVIOUS
        <4>1. CASE n = m
          <5>1. n # 0 /\ n - 1 \in 0..m /\ n - 1 # m BY <2>2, <2>4, <4>1
          <5>2. h[n - 1] = g[n - 1] /\ h[n] = Shows(g[m - 1], cs[m]) BY <4>1, <5>1
          <5> QED  BY <4>1, <5>1, <5>2
        <4>2. CASE n # m
          <5>1. n \in 0..(m - 1) /\ h[n] = g[n] BY <2>2, <4>2
          <5>2. n # 0 => n - 1 \in 0..m /\ n - 1 # m /\ h[n - 1] = g[n - 1] BY <2>2, <4>2
          <5> QED  BY <3>4, <5>1, <5>2
        <4> QED  BY <4>1, <4>2
      <3>6. Turn(h, m) BY <3>5
      <3> QED  BY <2>2, <3>6
    <2> QED  BY <2>3, <2>4
  <1>2. Len(cs) \in Nat OBVIOUS
  <1> DEFINE after == CHOOSE g : Turn(g, Len(cs))
  <1>3. Turn(after, Len(cs))
    <2>1. \E g : Turn(g, Len(cs)) BY <1>1, <1>2
    <2> QED  BY <2>1
  <1>4. ShowsAll(shown, cs) = after[Len(cs)] BY DEF ShowsAll
  <1> HIDE DEF after
  <1>5. \A n \in 0..Len(cs) : after[n] = IF n = 0 THEN shown ELSE Shows(after[n - 1], cs[n])
    BY <1>3
  <1> QED  BY <1>2, <1>4, <1>5

LEMMA ChainView ==
  ASSUME Len(log) \in Nat, NEW at, InStep(at, log),
         NEW shown, shown.cursor \in Nat, shown.cursor <= Len(log),
         ViewOf(shown, at[shown.cursor]),
         NEW cs, Chain(shown.cursor, cs)
  PROVE  /\ ViewOf(ShowsAll(shown, cs), at[shown.cursor + Len(cs)])
         /\ ShowsAll(shown, cs).cursor = shown.cursor + Len(cs)
  <1> DEFINE k == shown.cursor
  <1>1. /\ cs \in Seq(Nat) /\ Len(cs) \in Nat /\ DOMAIN cs = 1..Len(cs) /\ k + Len(cs) <= Len(log)
        /\ \A i \in 1..Len(cs) : cs[i] = k + i /\ log[k + i] # Reset
    BY DEF Chain
  <1>2. PICK after : /\ after[0] = shown
                     /\ \A n \in 1..Len(cs) : after[n] = Shows(after[n - 1], cs[n])
                     /\ ShowsAll(shown, cs) = after[Len(cs)]
    BY <1>1, ShowsAllInTurn
  <1> DEFINE Bad == {n \in 0..Len(cs) : ~(ViewOf(after[n], at[k + n]) /\ after[n].cursor = k + n)}
  <1>3. Bad = {}
    <2> SUFFICES ASSUME Bad # {} PROVE FALSE OBVIOUS
    <2>1. PICK n \in Bad : \A j \in Bad : n <= j
      <3>1. Bad \in SUBSET Nat OBVIOUS
      <3> QED  BY <3>1, LeastNat
    <2>2. n \in 0..Len(cs) /\ ~(ViewOf(after[n], at[k + n]) /\ after[n].cursor = k + n) BY <2>1
    <2>3. n # 0 BY <1>2, <2>2
    <2>4. n - 1 \in 0..Len(cs) /\ n \in 1..Len(cs) /\ n - 1 \notin Bad BY <1>1, <2>1, <2>2, <2>3
    <2>5. ViewOf(after[n - 1], at[k + n - 1])
      <3>1. k + (n - 1) = k + n - 1 BY <2>2
      <3> QED  BY <2>4, <3>1
    <2>6. k + n \in 1..Len(log) /\ k + n - 1 \in 0..Len(log) /\ k + n \in 0..Len(log)
      BY <1>1, <2>4
    <2>7. Leads(at[k + n - 1], log[k + n], at[k + n]) BY <1>1, <2>4, <2>6 DEF InStep
    <2>8. at[k + n - 1] \in Points /\ at[k + n] \in Points BY <2>6 DEF InStep
    <2>9. after[n] = Shows(after[n - 1], k + n) BY <1>1, <1>2, <2>4
    <2>10. ViewOf(after[n], at[k + n]) /\ after[n].cursor = k + n
      BY <2>5, <2>7, <2>8, <2>9, ShowsView
    <2> QED  BY <2>2, <2>10
  <1>4. Len(cs) \in 0..Len(cs) BY <1>1
  <1> QED  BY <1>2, <1>3, <1>4
-----------------------------------------------------------------------------
(* PoolInv is inductive.                                                   *)

LEMMA PointOf ==
  ASSUME NEW r \in Seq(States), r # <<>>
  PROVE  [number |-> Len(r), state |-> Last(r)] \in Points
  <1>1. Len(r) \in Nat /\ Len(r) # 0 /\ DOMAIN r = 1..Len(r) OBVIOUS
  <1>2. Last(r) \in States BY <1>1 DEF Last
  <1> QED  BY <1>1, <1>2 DEF Points

(* A frame is published: the points so far stay, and so does what the      *)
(* browser has of them.                                                    *)
LEMMA Grown ==
  ASSUME NEW F, log \in Seq(F), NEW at, InStep(at, log), BrowserOK(at),
         NEW f, Published(f), browser' = browser,
         NEW y \in Points, f = Reset \/ Leads(at[Len(log)], f, y)
  PROVE  \E next : /\ InStep(next, log') /\ BrowserOK(next)'
                   /\ next[Len(log')] = y /\ \E G : log' \in Seq(G)
  <1> PICK n : n = Len(log) OBVIOUS
  <1> DEFINE next == [c \in 0..(n + 1) |-> IF c <= n THEN at[c] ELSE y]
  <1>1. n \in Nat /\ at \in [0..n -> Points]
        /\ \A c \in 1..n : log[c] = Reset \/ Leads(at[c - 1], log[c], at[c])
    BY DEF InStep
  <1>2. log' = Append(log, f) BY DEF Published
  <1>3. log \in Seq(F \cup {f}) /\ f \in F \cup {f} OBVIOUS
  <1>4. /\ log' \in Seq(F \cup {f}) /\ Len(log') = n + 1
        /\ \A c \in 1..n : log'[c] = log[c]
        /\ log'[n + 1] = f
    BY <1>2, <1>3, StatesAppended
  <1>5. next \in [0..(n + 1) -> Points] BY <1>1
  <1>6. \A c \in 0..n : next[c] = at[c] BY <1>1
  <1>7. next[n + 1] = y BY <1>1
  <1> HIDE DEF next
  <1>8. ASSUME NEW c \in 1..(n + 1) PROVE log'[c] = Reset \/ Leads(next[c - 1], log'[c], next[c])
    <2>1. CASE c <= n
      <3>1. c \in 1..n /\ c \in 0..n /\ c - 1 \in 0..n BY <1>1, <2>1
      <3> QED  BY <1>1, <1>4, <1>6, <3>1
    <2>2. CASE c = n + 1
      <3>1. c - 1 = n /\ n \in 0..n BY <1>1, <2>2
      <3> QED  BY <1>4, <1>6, <1>7, <2>2, <3>1
    <2> QED  BY <1>1, <2>1, <2>2
  <1>9. InStep(next, log') BY <1>4, <1>5, <1>8 DEF InStep
  <1>10. BrowserOK(next)'
    <2>1. CASE browser = NotLoaded BY <2>1 DEF BrowserOK, NotLoaded
    <2>2. CASE browser # NotLoaded
      <3> DEFINE k == browser.shown.cursor
      <3>1. /\ browser.state = "live" /\ DOMAIN browser = DOMAIN NotLoaded /\ k \in Nat /\ k <= n
            /\ ViewOf(browser.shown, at[k]) /\ Chain(k, browser.batch)
            /\ Chain(k + Len(browser.batch), browser.pending)
            /\ browser.cursor = k + Len(browser.batch) + Len(browser.pending)
        BY <2>2 DEF BrowserOK
      <3>2. ASSUME NEW j \in Nat, NEW cs, Chain(j, cs) PROVE Chain(j, cs)'
        <4>1. /\ cs \in Seq(Nat) /\ j + Len(cs) <= n
              /\ \A i \in DOMAIN cs : cs[i] = j + i /\ log[j + i] # Reset
          BY <3>2 DEF Chain
        <4>2. Len(cs) \in Nat /\ DOMAIN cs = 1..Len(cs) BY <4>1
        <4>3. \A i \in DOMAIN cs : j + i \in 1..n BY <1>1, <4>1, <4>2
        <4>4. \A i \in DOMAIN cs : log'[j + i] # Reset BY <1>4, <4>1, <4>3
        <4>5. j + Len(cs) <= n + 1 BY <1>1, <4>1, <4>2
        <4> QED  BY <1>4, <4>1, <4>4, <4>5 DEF Chain
      <3>3. ViewOf(browser.shown, next[k]) /\ k <= n + 1 BY <1>1, <1>6, <3>1
      <3>4. Len(browser.batch) \in Nat BY <3>1 DEF Chain
      <3>5. k + Len(browser.batch) \in Nat BY <3>1, <3>4
      <3>6. PICK j, l, cs, ds : j = k /\ l = k + Len(browser.batch) /\ cs = browser.batch /\ ds = browser.pending
        OBVIOUS
      <3>7. Chain(j, cs)' /\ Chain(l, ds)' BY <3>1, <3>2, <3>5, <3>6
      <3>8. /\ j = browser'.shown.cursor /\ l = browser'.shown.cursor + Len(browser'.batch)
            /\ cs = browser'.batch /\ ds = browser'.pending
        BY <3>6
      <3> QED  BY <1>4, <3>1, <3>3, <3>7, <3>8 DEF BrowserOK, Chain, ViewOf
    <2> QED  BY <2>1, <2>2
  <1> QED  BY <1>4, <1>7, <1>9, <1>10

(* The stream begins with it.                                              *)
LEMMA InitPoolInv == PoolInit => PoolInv
  <1> SUFFICES ASSUME PoolInit PROVE PoolInv OBVIOUS
  <1>1. RetainedOK BY InitRetained
  <1>2. Now \in Points BY <1>1, PointOf DEF Now, Current, RetainedOK
  <1>3. log = <<>> /\ Len(log) = 0 /\ browser = NotLoaded /\ phase = "live" BY DEF PoolInit
  <1> DEFINE at == [c \in 0..0 |-> Now]
  <1>4. at[Len(log)] = Now BY <1>3
  <1>5. InStep(at, log)
    <2>1. at \in [0..Len(log) -> Points] BY <1>2, <1>3
    <2>2. 1..Len(log) = {} BY <1>3
    <2> QED  BY <2>1, <2>2 DEF InStep
  <1>6. \E F : log \in Seq(F)
    <2>1. log \in Seq({}) BY <1>3
    <2> QED  BY <2>1
  <1> HIDE DEF at
  <1> QED  BY <1>1, <1>3, <1>4, <1>5, <1>6 DEF PoolInv, StreamOK, BrowserOK

(* The actions of the service.                                             *)
LEMMA ServicePoolInv ==
  ASSUME RetainedOK, RetainedOK', NEW at, StreamOK(at), BrowserOK(at),
         \/ \E events \in Eventful : Block(events) \/ \E n \in DOMAIN retained : Reorg(n, events)
         \/ \E n \in DOMAIN retained : Rewind(n)
         \/ Restart \/ EndBackfill
  PROVE  \E next : (StreamOK(next) /\ BrowserOK(next))'
  <1>1. /\ Len(retained) \in Nat \ {0} /\ DOMAIN retained = 1..Len(retained)
        /\ \A n \in DOMAIN retained : retained[n] \in States
        /\ Current \in States /\ minted \in Nat /\ forced \in BOOLEAN
    BY RetainedFacts DEF RetainedOK
  <1>2. Now' \in Points
    <2>1. retained' \in Seq(States) /\ retained' # <<>> BY DEF RetainedOK
    <2>2. [number |-> Len(retained'), state |-> Last(retained')] \in Points BY <2>1, PointOf
    <2> QED  BY <2>2 DEF Now, Current
  <1>3. PICK F : log \in Seq(F) BY DEF StreamOK
  <1>4. InStep(at, log) /\ Len(log) \in Nat /\ at[Len(log)] \in Points
    <2>1. InStep(at, log) BY DEF StreamOK
    <2>2. Len(log) \in Nat BY <1>3
    <2> QED  BY <2>1, <2>2 DEF InStep
  <1>5. phase = "live" => at[Len(log)] = Now BY DEF StreamOK
  <1>6. ASSUME NEW f, Published(f), browser' = browser, phase' = "live",
               f = Reset \/ Leads(at[Len(log)], f, Now')
        PROVE  \E next : (StreamOK(next) /\ BrowserOK(next))'
    <2>1. PICK next : /\ InStep(next, log') /\ BrowserOK(next)'
                      /\ next[Len(log')] = Now' /\ \E G : log' \in Seq(G)
      BY <1>2, <1>3, <1>4, <1>6, Grown
    <2> QED  BY <1>6, <2>1 DEF StreamOK
  <1>7. ASSUME NEW events \in Eventful, Block(events)
        PROVE  \E next : (StreamOK(next) /\ BrowserOK(next))'
    <2> DEFINE s == After(Current, events, forced)
               obs == Observation(Current.active, events, forced)
               f == Frame(Len(retained) + 1, s, Replacements(Current.bins, obs, s.content), obs.replace)
    <2>1. s \in States /\ s.revision = Current.revision + 1 BY <1>1, AfterFacts
    <2>2. retained' = Append(retained, s) /\ browser' = browser /\ phase' = phase BY <1>7 DEF Block
    <2>3. Len(retained') = Len(retained) + 1 /\ Current' = s
      <3>1. retained \in Seq(States) BY DEF RetainedOK
      <3> HIDE DEF s
      <3>2. Len(retained') = Len(retained) + 1 /\ retained'[Len(retained) + 1] = s
        BY <2>1, <2>2, <3>1, StatesAppended
      <3> QED  BY <3>2 DEF Current, Last
    <2>4. Now' = [number |-> Len(retained) + 1, state |-> s] BY <2>3 DEF Now
    <2>5. CASE phase = "live"
      <3>1. Published(f) BY <1>7, <2>2, <2>3, <2>5 DEF Block
      <3>2. Leads(Now, f, Now')
        <4>1. Len(retained) \in Nat /\ Len(retained) + 1 \in Nat /\ Len(retained) < Len(retained) + 1
          BY <1>1
        <4>2. Leads([number |-> Len(retained), state |-> Current], f,
                    [number |-> Len(retained) + 1, state |-> s])
          BY <1>1, <4>1, BlockLeads
        <4> QED  BY <2>4, <4>2 DEF Now
      <3> HIDE DEF f
      <3> QED  BY <1>5, <1>6, <2>2, <2>5, <3>1, <3>2
    <2>6. CASE phase # "live"
      <3>1. log' = log /\ phase = "backfill" BY <1>7, <2>6 DEF Block, StreamOK
      <3>2. at[Len(log)].number < Now'.number /\ at[Len(log)].state.revision < Now'.state.revision
        <4>1. /\ at[Len(log)].number <= Now.number
              /\ at[Len(log)].state.revision <= Now.state.revision
          <5>1. Now \in Points BY PointOf DEF Now, Current, RetainedOK
          <5> QED  BY <1>4, <5>1, PointFacts DEF StreamOK
        <4>2. Now.number = Len(retained) /\ Now.state = Current BY DEF Now
        <4>3. Now'.number = Len(retained) + 1 /\ Now'.state.revision = Current.revision + 1
          BY <2>1, <2>4
        <4>4. Current.revision \in Nat BY <1>1, StateFacts
        <4> QED  BY <1>1, <1>4, <4>1, <4>2, <4>3, <4>4, PointFacts
      <3>3. StreamOK(at)' BY <1>3, <1>4, <2>2, <3>1, <3>2 DEF StreamOK
      <3>4. BrowserOK(at)' BY <2>2, <3>1 DEF BrowserOK, Chain, ViewOf
      <3> QED  BY <3>3, <3>4
    <2> QED  BY <2>5, <2>6
  <1>8. ASSUME NEW n \in DOMAIN retained, Rewind(n) \/ \E events \in Eventful : Reorg(n, events)
        PROVE  \E next : (StreamOK(next) /\ BrowserOK(next))'
    <2>1. Published(Reset) /\ browser' = browser /\ phase' = "live" BY <1>8 DEF Rewind, Reorg
    <2> QED  BY <1>6, <2>1
  <1>9. ASSUME Restart PROVE \E next : (StreamOK(next) /\ BrowserOK(next))'
    <2>1. log' = log /\ browser' = browser /\ retained' = retained /\ phase' = "backfill" /\ phase = "live"
      BY <1>9 DEF Restart
    <2>2. Now' = Now BY <2>1 DEF Now, Current
    <2>3. StreamOK(at)' BY <1>3, <1>4, <1>5, <2>1, <2>2 DEF StreamOK
    <2>4. BrowserOK(at)' BY <2>1 DEF BrowserOK, Chain, ViewOf
    <2> QED  BY <2>3, <2>4
  <1>10. ASSUME EndBackfill PROVE \E next : (StreamOK(next) /\ BrowserOK(next))'
    <2> DEFINE f == Frame(Len(retained), Current, DOMAIN Current.bins \cap Window(Current.active), TRUE)
    <2>1. Published(f) /\ browser' = browser /\ retained' = retained /\ phase' = "live"
      BY <1>10 DEF EndBackfill
    <2>2. Now' = Now BY <2>1 DEF Now, Current
    <2>3. Leads(at[Len(log)], f, Now)
      <3>1. \/ at[Len(log)] = [number |-> Len(retained), state |-> Current]
            \/ (at[Len(log)].number < Len(retained) /\ at[Len(log)].state.revision < Current.revision)
        BY DEF StreamOK, Now
      <3>2. Leads(at[Len(log)], f, [number |-> Len(retained), state |-> Current])
        BY <1>1, <1>4, <3>1, SnapshotLeads
      <3> QED  BY <3>2 DEF Now
    <2> HIDE DEF f
    <2> QED  BY <1>6, <2>1, <2>2, <2>3
  <1> QED  BY <1>7, <1>8, <1>9, <1>10

LEMMA EmptyChain ==
  ASSUME NEW k \in Nat, k <= Len(log)
  PROVE  Chain(k, <<>>)
  <1>1. <<>> \in Seq(Nat) /\ Len(<<>>) = 0 /\ k + 0 = k OBVIOUS
  <1> QED  BY <1>1, EmptyDomain DEF Chain

(* The actions of the browser.                                             *)
LEMMA BrowserPoolInv ==
  ASSUME RetainedOK, NEW at, StreamOK(at), BrowserOK(at),
         Load \/ Receive \/ Drain \/ Attested \/ Fails
  PROVE  (StreamOK(at) /\ BrowserOK(at))'
  <1>1. UNCHANGED <<retained, phase, log>>
    BY DEF Load, Receive, Drain, Attested, Fails
  <1>2. StreamOK(at)' BY <1>1 DEF StreamOK, Now, Current
  <1>3. InStep(at, log) /\ Len(log) \in Nat
    <2>1. InStep(at, log) BY DEF StreamOK
    <2> QED  BY <2>1 DEF StreamOK
  <1>4. ASSUME Resets PROVE BrowserOK(at)' BY <1>4 DEF Resets, BrowserOK, NotLoaded
  <1>5. ASSUME Load PROVE BrowserOK(at)'
    <2> DEFINE ids == DOMAIN Current.bins \cap Window(Current.active)
               shown == [cursor   |-> Len(log),
                         number   |-> Len(retained),
                         hash     |-> Current.hash,
                         active   |-> Current.active,
                         revision |-> Current.revision,
                         bins     |-> [id \in ids |-> Current.bins[id]]]
    <2>1. browser' = [state |-> "live", cursor |-> Len(log), shown |-> shown,
                      pending |-> <<>>, batch |-> <<>>]
      BY <1>5 DEF Load
    <2>2. at[Len(log)] = Now BY <1>5 DEF Load, StreamOK
    <2>3. Current \in States BY RetainedFacts
    <2>4. Current.active \in ids BY <2>3, StateFacts, WindowRange
    <2>5. /\ DOMAIN shown.bins = ids /\ \A id \in ids : shown.bins[id] = Current.bins[id]
          /\ shown.cursor = Len(log) /\ shown.number = Len(retained) /\ shown.hash = Current.hash
          /\ shown.active = Current.active /\ shown.revision = Current.revision
      OBVIOUS
    <2> HIDE DEF shown
    <2>6. ViewOf(shown, at[shown.cursor]) BY <2>2, <2>4, <2>5 DEF ViewOf, Now
    <2>7. Chain(Len(log), <<>>) /\ Len(<<>>) = 0 BY <1>3, EmptyChain
    <2>8. /\ browser'.state = "live" /\ browser'.shown = shown /\ browser'.batch = <<>>
          /\ browser'.pending = <<>> /\ browser'.cursor = Len(log)
          /\ DOMAIN browser' = DOMAIN NotLoaded
      BY <2>1 DEF NotLoaded
    <2>9. Len(log) + 0 = Len(log) /\ Len(log) + 0 + 0 = Len(log) /\ Len(log) <= Len(log) BY <1>3
    <2>10. ViewOf(browser.shown, at[browser.shown.cursor])'  BY <2>6, <2>8
    <2>11. /\ Chain(browser.shown.cursor, browser.batch)'
           /\ Chain(browser.shown.cursor + Len(browser.batch), browser.pending)'
      BY <1>1, <2>5, <2>7, <2>8, <2>9 DEF Chain
    <2>12. /\ browser'.shown.cursor \in Nat /\ browser'.shown.cursor <= Len(log')
           /\ browser'.cursor
                = browser'.shown.cursor + Len(browser'.batch) + Len(browser'.pending)
           /\ browser'.state = "live" /\ DOMAIN browser' = DOMAIN NotLoaded
      BY <1>1, <1>3, <2>5, <2>7, <2>8, <2>9
    <2> QED  BY <2>10, <2>11, <2>12 DEF BrowserOK
  <1>6. ASSUME browser # NotLoaded
        PROVE  /\ browser.state = "live" /\ DOMAIN browser = DOMAIN NotLoaded
               /\ browser.shown.cursor \in Nat
               /\ browser.shown.cursor <= Len(log)
               /\ ViewOf(browser.shown, at[browser.shown.cursor])
               /\ Chain(browser.shown.cursor, browser.batch)
               /\ Chain(browser.shown.cursor + Len(browser.batch), browser.pending)
               /\ browser.cursor = browser.shown.cursor + Len(browser.batch) + Len(browser.pending)
               /\ Len(browser.batch) \in Nat /\ Len(browser.pending) \in Nat
    BY <1>6 DEF BrowserOK, Chain
  <1> DEFINE k == browser.shown.cursor
             m == Len(browser.batch)
(* What has to be shown of the browser's next state.                       *)
  <1>7. ASSUME NEW shown, NEW batch, NEW pending, NEW cursor,
               /\ browser'.state = "live" /\ DOMAIN browser' = DOMAIN NotLoaded
               /\ browser'.shown = shown /\ browser'.batch = batch
               /\ browser'.pending = pending /\ browser'.cursor = cursor,
               shown.cursor \in Nat, shown.cursor <= Len(log), ViewOf(shown, at[shown.cursor]),
               Chain(shown.cursor, batch), Chain(shown.cursor + Len(batch), pending),
               cursor = shown.cursor + Len(batch) + Len(pending)
        PROVE  BrowserOK(at)'
    BY <1>1, <1>7 DEF BrowserOK, Chain, ViewOf
  <1>8. ASSUME Receive PROVE BrowserOK(at)'
    <2>1. CASE Resets BY <1>4, <2>1
    <2>2. CASE ~Resets
      <3> DEFINE c == browser.cursor + 1
      <3>1. /\ browser.state = "live" /\ browser.cursor < Len(log) /\ log[c] # Reset
            /\ browser' = [browser EXCEPT !.cursor = c, !.pending = Append(@, c)]
        BY <1>8, <2>2 DEF Receive
      <3>2. browser # NotLoaded BY <3>1 DEF NotLoaded
      <3>3. /\ DOMAIN browser = DOMAIN NotLoaded
            /\ browser.cursor = k + m + Len(browser.pending) /\ m \in Nat /\ k \in Nat
            /\ Len(browser.pending) \in Nat /\ Chain(k + m, browser.pending)
            /\ k <= Len(log) /\ Chain(k, browser.batch) /\ ViewOf(browser.shown, at[k])
        BY <1>6, <3>2
      <3> DEFINE pending == Append(browser.pending, c)
      <3>4. /\ browser'.state = "live" /\ DOMAIN browser' = DOMAIN NotLoaded
            /\ browser'.shown = browser.shown /\ browser'.batch = browser.batch
            /\ browser'.pending = pending /\ browser'.cursor = c
        BY <3>1, <3>3 DEF NotLoaded
      <3>5. Chain(k + m, pending) /\ c = k + m + Len(pending)
        <4> PICK j, q, ps : j = k + m /\ q = Len(browser.pending) /\ ps = browser.pending OBVIOUS
        <4>1. /\ j \in Nat /\ q \in Nat /\ ps \in Seq(Nat) /\ c = j + q + 1 /\ c <= Len(log) /\ c \in Nat
              /\ DOMAIN ps = 1..q /\ \A i \in DOMAIN ps : ps[i] = j + i /\ log[j + i] # Reset
          <5>1. Chain(j, ps) BY <3>3
          <5>2. ps \in Seq(Nat) /\ \A i \in DOMAIN ps : ps[i] = j + i /\ log[j + i] # Reset
            BY <5>1 DEF Chain
          <5>3. q = Len(ps) /\ DOMAIN ps = 1..q BY <5>2
          <5>4. j \in Nat /\ q \in Nat /\ browser.cursor = j + q BY <3>3
          <5>5. c = j + q + 1 /\ c \in Nat BY <5>4
          <5>6. c <= Len(log) BY <1>3, <3>1, <5>4
          <5> QED  BY <5>2, <5>3, <5>4, <5>5, <5>6
        <4>2. /\ Append(ps, c) \in Seq(Nat) /\ Len(Append(ps, c)) = q + 1
              /\ DOMAIN Append(ps, c) = 1..(q + 1)
              /\ \A i \in 1..q : Append(ps, c)[i] = ps[i]
              /\ Append(ps, c)[q + 1] = c
          BY <4>1, StatesAppended
        <4>3. \A i \in 1..(q + 1) : Append(ps, c)[i] = j + i /\ log[j + i] # Reset
          <5> SUFFICES ASSUME NEW i \in 1..(q + 1) PROVE Append(ps, c)[i] = j + i /\ log[j + i] # Reset
            OBVIOUS
          <5>1. CASE i \in 1..q BY <4>1, <4>2, <5>1
          <5>2. CASE i = q + 1
            <6>1. j + i = c BY <4>1, <5>2
            <6> QED  BY <3>1, <4>2, <5>2, <6>1
          <5> QED  BY <4>1, <5>1, <5>2
        <4>4. j + Len(Append(ps, c)) <= Len(log) BY <4>1, <4>2
        <4>5. Chain(j, Append(ps, c)) BY <4>2, <4>3, <4>4 DEF Chain
        <4> QED  BY <4>1, <4>2, <4>5
      <3> QED  BY <1>7, <3>3, <3>4, <3>5
    <2> QED  BY <2>1, <2>2
  <1>9. ASSUME Drain PROVE BrowserOK(at)'
    <2>1. CASE Resets BY <1>4, <2>1
    <2>2. CASE ~Resets
      <3>1. /\ browser.state = "live" /\ browser.batch = <<>>
            /\ browser' = [browser EXCEPT !.batch = browser.pending, !.pending = <<>>]
        BY <1>9, <2>2 DEF Drain
      <3>2. browser # NotLoaded BY <3>1 DEF NotLoaded
      <3>3. m = 0 BY <3>1
      <3>4. /\ browser'.state = "live" /\ DOMAIN browser' = DOMAIN NotLoaded
            /\ browser'.shown = browser.shown /\ browser'.batch = browser.pending
            /\ browser'.pending = <<>> /\ browser'.cursor = browser.cursor
        BY <1>6, <3>1, <3>2 DEF NotLoaded
      <3>5. /\ k + m = k /\ browser.cursor = k + Len(browser.pending)
            /\ k + Len(browser.pending) \in Nat /\ k + Len(browser.pending) <= Len(log)
        BY <1>6, <3>2, <3>3 DEF Chain
      <3>6. Chain(k, browser.pending) BY <1>6, <3>2, <3>5
      <3>7. Chain(k + Len(browser.pending), <<>>) /\ Len(<<>>) = 0 BY <3>5, EmptyChain
      <3>8. browser.cursor = k + Len(browser.pending) + Len(<<>>) BY <3>5, <3>7
      <3> QED  BY <1>6, <1>7, <3>2, <3>4, <3>6, <3>7, <3>8
    <2> QED  BY <2>1, <2>2
  <1>10. ASSUME Attested PROVE BrowserOK(at)'
    <2>1. /\ browser.batch # <<>>
          /\ browser' = [browser EXCEPT !.shown = ShowsAll(browser.shown, browser.batch), !.batch = <<>>]
      BY <1>10 DEF Attested
    <2>2. browser # NotLoaded BY <2>1 DEF NotLoaded
    <2> DEFINE shown == ShowsAll(browser.shown, browser.batch)
    <2>3. ViewOf(shown, at[k + m]) /\ shown.cursor = k + m BY <1>3, <1>6, <2>2, ChainView
    <2>4. /\ browser'.state = "live" /\ DOMAIN browser' = DOMAIN NotLoaded
          /\ browser'.shown = shown /\ browser'.batch = <<>>
          /\ browser'.pending = browser.pending /\ browser'.cursor = browser.cursor
      BY <1>6, <2>1, <2>2 DEF NotLoaded
    <2> HIDE DEF shown
    <2>5. k + m \in Nat /\ k + m <= Len(log) /\ k + m + 0 = k + m BY <1>3, <1>6, <2>2 DEF Chain
    <2>6. Chain(k + m, <<>>) /\ Len(<<>>) = 0 BY <2>5, EmptyChain
    <2>7. Chain(k + m, browser.pending) /\ browser.cursor = k + m + Len(browser.pending)
      BY <1>6, <2>2
    <2> QED  BY <1>7, <2>3, <2>4, <2>5, <2>6, <2>7
  <1> QED  BY <1>2, <1>4, <1>5, <1>8, <1>9, <1>10 DEF Fails

(* Every action keeps it.                                                  *)
LEMMA NextPoolInv == PoolInv /\ [PoolNext]_poolVars => PoolInv'
  <1> SUFFICES ASSUME PoolInv, [PoolNext]_poolVars PROVE PoolInv' OBVIOUS
  <1>1. RetainedOK /\ RetainedOK' BY NextRetained DEF PoolInv
  <1>2. PICK at : StreamOK(at) /\ BrowserOK(at) BY DEF PoolInv
  <1>3. ASSUME \/ \E events \in Eventful : Block(events) \/ \E n \in DOMAIN retained : Reorg(n, events)
               \/ \E n \in DOMAIN retained : Rewind(n)
               \/ Restart \/ EndBackfill
        PROVE  \E next : (StreamOK(next) /\ BrowserOK(next))'
    BY <1>1, <1>2, <1>3, ServicePoolInv
  <1>4. ASSUME Load \/ Receive \/ Drain \/ Attested \/ Fails
        PROVE  (StreamOK(at) /\ BrowserOK(at))'
    BY <1>1, <1>2, <1>4, BrowserPoolInv
  <1>5. ASSUME UNCHANGED poolVars PROVE (StreamOK(at) /\ BrowserOK(at))'
    <2>1. UNCHANGED <<retained, phase, log, browser>> BY <1>5 DEF poolVars
    <2>2. StreamOK(at)' BY <1>2, <2>1 DEF StreamOK, Now, Current
    <2>3. BrowserOK(at)' BY <1>2, <2>1 DEF BrowserOK, Chain, ViewOf
    <2> QED  BY <2>2, <2>3
  <1>6. PoolNext \/ UNCHANGED poolVars OBVIOUS
  <1> QED  BY <1>1, <1>3, <1>4, <1>5, <1>6 DEF PoolNext, PoolInv

(* The inductive invariant holds of every state.                           *)
THEOREM PoolInvariance == PoolSpec => []PoolInv
  BY InitPoolInv, NextPoolInv, PTL DEF PoolSpec

LEMMA InvFollows == PoolInv => BrowserFollows
  <1> SUFFICES ASSUME PoolInv PROVE BrowserFollows OBVIOUS
  <1>1. RetainedOK BY DEF PoolInv
  <1>2. PICK at : StreamOK(at) /\ BrowserOK(at) BY DEF PoolInv
  <1>3. InStep(at, log) /\ Len(log) \in Nat
    <2>1. InStep(at, log) BY <1>2 DEF StreamOK
    <2> QED  BY <1>2, <2>1 DEF StreamOK
  <1> DEFINE k == browser.shown.cursor
             m == Len(browser.batch)
             q == Len(browser.pending)
  <1>4. ASSUME browser.state = "live"
        PROVE  /\ k \in Nat /\ k <= Len(log) /\ ViewOf(browser.shown, at[k])
               /\ Chain(k + m, browser.pending) /\ browser.cursor = k + m + q
               /\ m \in Nat /\ q \in Nat
    BY <1>2, <1>4 DEF BrowserOK, Chain, NotLoaded
  <1>5. ShownTrue
    <2> SUFFICES ASSUME CaughtUp
                 PROVE  /\ browser.shown.revision = Current.revision
                        /\ browser.shown.active = Current.active
                        /\ Current.active \in DOMAIN browser.shown.bins
                        /\ DOMAIN browser.shown.bins \subseteq Window(Current.active)
                        /\ \A id \in DOMAIN browser.shown.bins :
                             browser.shown.bins[id] = Current.bins[id]
      BY DEF ShownTrue
    <2>1. m = 0 /\ q = 0 /\ browser.cursor = Len(log) /\ browser.state = "live" /\ phase = "live"
      BY DEF CaughtUp
    <2>2. k = Len(log) BY <1>4, <2>1
    <2>3. at[Len(log)] = Now BY <1>2, <2>1 DEF StreamOK
    <2> QED  BY <1>4, <2>1, <2>2, <2>3 DEF ViewOf, Now
  <1>6. UpdatesFit
    <2> DEFINE c == browser.cursor + 1
               shown == ShowsAll(browser.shown, browser.pending)
    <2> SUFFICES ASSUME browser.state = "live", browser.batch = <<>>,
                        browser.cursor < Len(log), log[c] # Reset
                 PROVE  Fits(shown, c) \/ (log[c].replace /\ log[c].revision = shown.revision)
      BY DEF UpdatesFit
    <2>1. m = 0 /\ k + m = k /\ browser.cursor = k + q BY <1>4
    <2>2. ViewOf(shown, at[k + q]) /\ shown.cursor = k + q
      <3>1. Chain(k, browser.pending) BY <1>4, <2>1
      <3> QED  BY <1>3, <1>4, <3>1, ChainView
    <2>3. /\ c \in 1..Len(log) /\ c - 1 = k + q /\ c > k + q
          /\ k + q \in 0..Len(log) /\ c \in 0..Len(log)
      BY <1>3, <1>4, <2>1
    <2>4. at[k + q] \in Points /\ at[c] \in Points /\ Leads(at[k + q], log[c], at[c])
      BY <1>3, <2>3 DEF InStep
    <2> HIDE DEF shown
    <2> QED  BY <2>2, <2>3, <2>4, FitsOrSame
  <1> QED  BY <1>5, <1>6 DEF BrowserFollows

(* Whatever blocks, reorganisations and restarts there are, a browser that *)
(* has received and applied all of the stream shows the pool's state and   *)
(* active bin, no bin outside the window and none but the engine's bins;   *)
(* and while it awaits no read, no update of the stream is refused but a   *)
(* snapshot of what it shows already (applyPoolStateUpdate,                *)
(* analytics-data.ts; onPoolState, pool-workspace-context.tsx).            *)
THEOREM FollowsTruly == PoolSpec => []BrowserFollows
  BY PoolInvariance, InvFollows, PTL
=============================================================================
