-------------------------- MODULE StreamHub_proofs --------------------------
(***************************************************************************)
(* IInv is an inductive invariant of the stream hub, and what follows from *)
(* it: for any topics, browsers and sizes, no browser has a silent gap and *)
(* replay is exact.                                                        *)
(***************************************************************************)
EXTENDS StreamHubInv, FiniteSetTheorems, SequenceTheorems, TLAPS

-----------------------------------------------------------------------------
(* Sets of cursors.                                                        *)

(* A nonempty set of naturals has a least element.                         *)
LEMMA LeastExists ==
  ASSUME NEW S \in SUBSET Nat, S # {}
  PROVE  \E m \in S : \A x \in S : m <= x
<1> DEFINE R == StrictSubsetOrdering(Nat)
           T == {0..u : u \in S}
<1>1. IsWellFoundedOn(R, FiniteSubsetsOf(Nat))
  BY FS_StrictSubsetOrderingWellFounded
<1>2. T \subseteq FiniteSubsetsOf(Nat)
  <2> SUFFICES ASSUME NEW u \in S PROVE 0..u \in FiniteSubsetsOf(Nat) OBVIOUS
  <2>1. IsFiniteSet(0..u) BY FS_Interval
  <2> QED BY <2>1 DEF FiniteSubsetsOf
<1>3. T # {} OBVIOUS
<1>4. PICK I \in T : \A J \in T : <<J, I>> \notin R
  <2> HIDE DEF R, T
  <2> QED BY <1>1, <1>2, <1>3, WFMin
<1>5. PICK m \in S : I = 0..m OBVIOUS
<1>6. ASSUME NEW x \in S, x < m PROVE FALSE
  <2>1. 0..x \subseteq 0..m /\ m \notin 0..x /\ m \in 0..m BY <1>6
  <2>2. 0..x # 0..m BY <2>1
  <2>3. <<0..x, 0..m>> \in R BY <2>1, <2>2 DEF StrictSubsetOrdering
  <2> QED BY <2>3, <1>4, <1>5
<1> QED BY <1>6

(* Min and Max of the sets the hub keeps.                                  *)
LEMMA MinFacts ==
  ASSUME NEW S \in SUBSET Nat, S # {}
  PROVE  Min(S) \in S /\ \A x \in S : Min(S) <= x
BY LeastExists DEF Min

LEMMA MaxFacts ==
  ASSUME NEW S \in SUBSET Nat, S # {}, NEW n \in Nat, \A x \in S : x <= n
  PROVE  Max(S) \in S /\ \A x \in S : x <= Max(S)
<1> DEFINE U == {u \in Nat : \A x \in S : x <= u}
<1>1. PICK m \in U : \A u \in U : m <= u
  <2>1. n \in U /\ U \in SUBSET Nat OBVIOUS
  <2> QED BY <2>1, LeastExists
<1>2. m \in S
  <2> SUFFICES ASSUME m \notin S PROVE FALSE OBVIOUS
  <2>1. PICK x \in S : TRUE OBVIOUS
  <2>2. x \in Nat /\ x <= m /\ x # m BY <1>1, <2>1
  <2>3. \A y \in S : y <= m - 1 BY <1>1
  <2>4. m - 1 \in U BY <2>2, <2>3, <1>1
  <2> QED BY <2>4, <1>1
<1>3. \E y \in S : \A x \in S : y >= x BY <1>1, <1>2
<1> QED BY <1>3 DEF Max

LEMMA MaxOr0Facts ==
  ASSUME NEW n \in Nat, NEW S \in SUBSET (1..n)
  PROVE  MaxOr0(S) \in 0..n /\ \A x \in S : x <= MaxOr0(S)
<1>1. S \in SUBSET Nat /\ \A x \in S : x <= n OBVIOUS
<1>2. S # {} => Max(S) \in S /\ \A x \in S : x <= Max(S) BY <1>1, MaxFacts
<1>3. CASE S = {} BY <1>3 DEF MaxOr0
<1>4. CASE S # {}
  <2>1. MaxOr0(S) = Max(S) BY <1>4 DEF MaxOr0
  <2>2. Max(S) \in 1..n /\ \A x \in S : x <= Max(S) BY <1>2, <1>4
  <2> QED BY <2>1, <2>2
<1> QED BY <1>3, <1>4

(* The overflow of a set is what is older than its newest elements: it has *)
(* no element newer than one that stays, and its size cap is kept.         *)
LEMMA OverflowFacts ==
  ASSUME NEW n \in Nat, NEW S \in SUBSET (1..n), NEW w \in Nat
  PROVE  /\ Overflow(S, w) \subseteq S
         /\ \A c \in Overflow(S, w), d \in S \ Overflow(S, w) : c < d
<1> DEFINE Newer(c) == {d \in S : d > c}
<1>1. ASSUME NEW c \in S PROVE IsFiniteSet(Newer(c)) /\ Cardinality(Newer(c)) \in Nat
  <2>1. IsFiniteSet(1..n) BY FS_Interval
  <2>2. Newer(c) \in SUBSET (1..n) OBVIOUS
  <2> HIDE DEF Newer
  <2> QED BY <2>1, <2>2, FS_Subset, FS_CardinalityType
<1>2. ASSUME NEW c \in Overflow(S, w), NEW d \in S \ Overflow(S, w) PROVE c < d
  <2>1. c \in S /\ Cardinality(Newer(c)) >= w /\ ~(Cardinality(Newer(d)) >= w)
    BY DEF Overflow
  <2>2. SUFFICES ASSUME d <= c PROVE FALSE BY <2>1
  <2>3. Newer(c) \in SUBSET Newer(d)
    <3>1. c \in Nat /\ d \in Nat /\ S \in SUBSET Nat BY <2>1
    <3>2. \A x \in S : x > c => x > d BY <3>1, <2>2
    <3> QED BY <3>2
  <2>4. Cardinality(Newer(c)) <= Cardinality(Newer(d))
    <3> HIDE DEF Newer
    <3> QED BY <2>1, <2>3, <1>1, FS_Subset
  <2> QED BY <2>1, <2>4, <1>1
<1> QED BY <1>2 DEF Overflow

(* The newest element stays, whatever the (positive) size.                 *)
LEMMA NewestStays ==
  ASSUME NEW n \in Nat, NEW S \in SUBSET (1..n), NEW w \in Nat \ {0},
         NEW c \in S, \A d \in S : d <= c
  PROVE  c \notin Overflow(S, w)
<1>1. {d \in S : d > c} = {}
  <2>1. \A d \in S : d \in Nat /\ c \in Nat /\ ~(d > c) OBVIOUS
  <2> QED BY <2>1
<1>2. Cardinality({d \in S : d > c}) = 0 BY <1>1, FS_EmptySet
<1> QED BY <1>2 DEF Overflow
-----------------------------------------------------------------------------
(* The table.                                                              *)

(* Inserting a batch and trimming keeps the table's promise.               *)
LEMMA TrimKeepsTable ==
  ASSUME NEW old \in Seq(AllTopics), NEW hist \in Seq(AllTopics),
         Len(hist) > Len(old), \A c \in 1..Len(old) : hist[c] = old[c],
         NEW S, Table(old, S)
  PROVE  Table(hist, TrimRows(hist, S \cup (Len(old) + 1)..Len(hist)))
<1> DEFINE n == Len(hist)
           U == S \cup (Len(old) + 1)..n
           K == TopicTrimmed(hist, U)
           R == K \ Overflow(K, GlobalReplaySize)
           Same(c) == {d \in U : hist[d] = hist[c]}
<1>1. /\ n \in Nat /\ Len(old) \in Nat /\ n > Len(old)
      /\ ReplaySize \in Nat \ {0} /\ GlobalReplaySize \in Nat \ {0}
      /\ S \subseteq 1..Len(old)
  BY SizeAssumption DEF Table
<1>2. U \in SUBSET (1..n) /\ n \in U
  <2> HIDE DEF n
  <2>1. \A c \in S : c \in 1..n
    <3>1. \A c \in S : c \in 1..Len(old) BY <1>1
    <3> QED BY <1>1, <3>1
  <2>2. \A c \in (Len(old) + 1)..n : c \in 1..n BY <1>1
  <2>3. n \in (Len(old) + 1)..n BY <1>1
  <2> QED BY <2>1, <2>2, <2>3
<1>3. K \in SUBSET U /\ \A c \in U : c \in K <=> c \notin Overflow(Same(c), ReplaySize)
  BY DEF TopicTrimmed
<1> HIDE DEF n, U, K
<1>4. K \in SUBSET (1..n) /\ \A c \in K \ R, r \in R : c < r
  <2>1. K \in SUBSET (1..n) BY <1>2, <1>3
  <2> QED BY <1>1, <2>1, OverflowFacts
<1>5. ASSUME NEW x \in U
      PROVE  \E r \in K : hist[r] = hist[x] /\ x <= r
  <2>1. Same(x) \in SUBSET Nat /\ x \in Same(x) /\ \A d \in Same(x) : d <= n
    <3>1. \A d \in U : d \in 1..n BY <1>2
    <3>2. \A d \in U : d \in Nat /\ d <= n BY <3>1, <1>1
    <3> QED BY <3>2
  <2> DEFINE r == Max(Same(x))
  <2>2. r \in Same(x) /\ \A d \in Same(x) : d <= r
    <3> HIDE DEF Same
    <3> QED BY <2>1, <1>1, MaxFacts
  <2> HIDE DEF r
  <2>3. r \in U /\ hist[r] = hist[x] /\ Same(r) = Same(x) BY <2>2
  <2>4. r \notin Overflow(Same(r), ReplaySize)
    <3>1. Same(r) \in SUBSET (1..n) BY <1>2
    <3> HIDE DEF Same
    <3> QED BY <2>2, <2>3, <3>1, <1>1, NewestStays
  <2> QED BY <2>1, <2>2, <2>3, <2>4, <1>3
<1>6. ASSUME NEW c \in 1..n, NEW x \in U, hist[x] = hist[c], c < x,
             \A d \in R : hist[d] = hist[c] => c < d
      PROVE  Lacks(hist, R, c)
  <2>1. PICK r \in K : hist[r] = hist[c] /\ c < r
    <3>1. PICK r \in K : hist[r] = hist[x] /\ x <= r BY <1>5
    <3>2. c \in Nat /\ x \in Nat /\ r \in Nat
      <4>1. x \in 1..n /\ r \in 1..n BY <1>2, <1>4
      <4> QED BY <4>1, <1>1
    <3> QED BY <3>1, <3>2, <1>6
  <2>2. CASE r \in R BY <2>1, <2>2, <1>6 DEF Lacks
  <2>3. CASE r \notin R
    <3>1. \A q \in R : r < q BY <2>3, <1>4
    <3>2. \A q \in R : c < q
      <4>1. R \subseteq 1..n /\ r \in 1..n BY <1>4
      <4> QED BY <3>1, <2>1, <4>1
    <3> QED BY <3>2 DEF Lacks
  <2> QED BY <2>2, <2>3
<1>7. ASSUME NEW c \in (1..n) \ R PROVE Lacks(hist, R, c)
  <2> R \subseteq K BY DEF R
  <2>1. CASE c \notin U
    <3>1. c \in (1..Len(old)) \ S BY <2>1, <1>1 DEF U, n
    <3>2. Lacks(old, S, c) BY <3>1 DEF Table
    <3>3. \A d \in U \ S : c < d BY <3>1, <1>1 DEF U, n
    <3>4. \A r \in S : hist[r] = old[r] /\ r \in U BY <1>1 DEF U
    <3>5. hist[c] = old[c] BY <3>1
    <3>6. CASE \A r \in S : c < r
      BY <3>6, <3>3, <1>3 DEF Lacks
    <3>7. CASE \E r \in S : old[r] = old[c] /\ \A q \in S : old[q] = old[c] => c < q
      <4>1. PICK r \in S : old[r] = old[c] /\ c < r
                            /\ \A q \in S : old[q] = old[c] => c < q
        BY <3>7
      <4>2. \A d \in R : hist[d] = hist[c] => c < d
        BY <4>1, <3>3, <3>4, <3>5, <1>3
      <4> QED BY <4>1, <4>2, <3>4, <3>5, <1>6
    <3> QED BY <3>2, <3>6, <3>7 DEF Lacks
  <2>2. CASE c \in U \ K
    <3>1. c \in Overflow(Same(c), ReplaySize) BY <2>2, <1>3
    <3>2. PICK r \in K : hist[r] = hist[c] /\ c <= r BY <2>2, <1>5
    <3>3. c < r BY <3>2, <2>2, <1>4
    <3>4. ASSUME NEW d \in R, hist[d] = hist[c] PROVE c < d
      <4>1. d \in U /\ Same(d) = Same(c) /\ d \in Same(c) BY <3>4, <1>3
      <4>2. d \notin Overflow(Same(c), ReplaySize) BY <4>1, <1>3
      <4>3. Same(c) \in SUBSET (1..n) BY <1>2
      <4> HIDE DEF Same
      <4> QED BY <3>1, <4>1, <4>2, <4>3, <1>1, OverflowFacts
    <3> QED BY <3>2, <3>3, <3>4, <1>3, <1>6
  <2>3. CASE c \in K
    BY <2>3, <1>4 DEF Lacks
  <2> QED BY <2>1, <2>2, <2>3
<1>8. n \in R
  <2>1. n \in K
    <3>1. Same(n) \in SUBSET (1..n) /\ n \in Same(n) BY <1>2
    <3>2. \A d \in Same(n) : d <= n BY <1>1, <3>1
    <3> HIDE DEF Same
    <3> QED BY <3>1, <3>2, <1>1, <1>2, <1>3, NewestStays
  <2>2. \A d \in K : d <= n BY <1>1, <1>4
  <2> QED BY <2>1, <2>2, <1>1, <1>4, NewestStays
<1>9. R \subseteq 1..n BY <1>4
<1>10. TrimRows(hist, U) = R BY DEF TrimRows, K
<1> QED BY <1>7, <1>8, <1>9, <1>10 DEF Table, n, U
-----------------------------------------------------------------------------
(* The window.  #retain of the next event, stage by stage.                 *)

(* What the buffers hold, as one set.                                      *)
All(buffers) == UNION {buffers[x] : x \in AllTopics}

(* Stage 1: the newest ReplaySize events of the topic stay, and the mark   *)
(* moves up to the newest event that goes.                                 *)
LEMMA SpliceKeepsWindow ==
  ASSUME history \in Seq(AllTopics), NEW c \in 1..Len(history), NEW t, t = history[c],
         NEW fed, NEW top \in Nat, top < c,
         Window(history, eventsByTopic, retainedEvents, droppedThrough,
                globalDroppedThrough, fed, top)
  PROVE  /\ Window(history, Buffers1(c, t), All(Buffers1(c, t)), Dropped1(c, t),
                   globalDroppedThrough, fed \cup {c}, c)
         /\ (retainedEvents \cup {c}) \ Spliced(c, t) = All(Buffers1(c, t))
<1> DEFINE E == fed \cup {c}
           P == Pushed(c, t)
           X == Spliced(c, t)
           B == Buffers1(c, t)
           D == Dropped1(c, t)
<1>1. t \in AllTopics /\ c \in Nat /\ ReplaySize \in Nat
  BY SizeAssumption
<1>2. /\ fed \subseteq 1..top
      /\ eventsByTopic \in [AllTopics -> SUBSET fed]
      /\ retainedEvents = All(eventsByTopic)
      /\ droppedThrough \in [AllTopics -> 0..top]
      /\ globalDroppedThrough \in 0..top
      /\ \A x \in AllTopics : \A d \in eventsByTopic[x] :
           history[d] = x /\ d > droppedThrough[x] /\ d > globalDroppedThrough
      /\ \A d \in fed : d > globalDroppedThrough /\ d > droppedThrough[history[d]]
                         => d \in eventsByTopic[history[d]]
  BY DEF Window, All
<1>3. /\ P \in [AllTopics -> SUBSET E]
      /\ P[t] = eventsByTopic[t] \cup {c}
      /\ \A x \in AllTopics : x # t => P[x] = eventsByTopic[x]
  BY <1>1, <1>2 DEF Pushed
<1>4. E \subseteq 1..c
  BY <1>1, <1>2
<1>5. ASSUME NEW x \in AllTopics, NEW d \in P[x]
      PROVE  history[d] = x /\ d > droppedThrough[x] /\ d > globalDroppedThrough
  <2>1. CASE d \in eventsByTopic[x] BY <2>1, <1>2
  <2>2. CASE d \notin eventsByTopic[x]
    <3>1. d = c /\ x = t BY <2>2, <1>3, <1>5
    <3>2. droppedThrough[x] \in 0..top BY <1>2
    <3> QED BY <3>1, <3>2, <1>1, <1>2
  <2> QED BY <2>1, <2>2
<1>6. /\ X \subseteq P[t]
      /\ \A d \in X, e \in P[t] \ X : d < e
      /\ P[t] \in SUBSET (1..c)
  <2>1. P[t] \in SUBSET (1..c) BY <1>1, <1>3, <1>4
  <2> HIDE DEF P
  <2> QED BY <2>1, <1>1, OverflowFacts DEF Spliced, P
<1>7. /\ B \in [AllTopics -> SUBSET E]
      /\ B[t] = P[t] \ X
      /\ \A x \in AllTopics : x # t => B[x] = eventsByTopic[x]
  <2> HIDE DEF P, X
  <2> QED BY <1>1, <1>3 DEF Buffers1, P, X
<1>8. CASE X = {}
  <2>1. D = droppedThrough BY <1>8 DEF Dropped1
  <2>2. B = P
    <3>1. \A x \in AllTopics : B[x] = P[x] BY <1>3, <1>7, <1>8
    <3> HIDE DEF P, B
    <3> QED BY <3>1, <1>3, <1>7
  <2>3. D \in [AllTopics -> 0..c]
    <3>1. \A x \in AllTopics : droppedThrough[x] \in 0..c BY <1>1, <1>2
    <3> QED BY <3>1, <2>1, <1>2
  <2>4. ASSUME NEW d \in E, d > globalDroppedThrough, d > D[history[d]]
        PROVE  d \in B[history[d]]
    <3>1. d = c \/ d \in fed OBVIOUS
    <3>2. history[d] \in AllTopics BY <1>4
    <3> HIDE DEF P, B, D, E
    <3>3. CASE d = c BY <3>3, <2>2, <1>3
    <3>4. CASE d \in fed
      <4>1. d \in eventsByTopic[history[d]] BY <3>4, <2>1, <2>4, <1>2
      <4> QED BY <4>1, <3>2, <2>2, <1>3
    <3> QED BY <3>1, <3>3, <3>4
  <2>5. globalDroppedThrough \in 0..c BY <1>1, <1>2
  <2> HIDE DEF P, B, D, X, E
  <2>6. Window(history, B, All(B), D, globalDroppedThrough, E, c)
    BY <1>4, <1>5, <1>7, <2>1, <2>2, <2>3, <2>4, <2>5 DEF Window, All
  <2>7. (retainedEvents \cup {c}) \ X = All(B)
    BY <1>1, <1>2, <1>3, <1>8, <2>2 DEF All
  <2> QED BY <2>6, <2>7 DEF B, D, X, E
<1>9. CASE X # {}
  <2> DEFINE m == Max(X)
  <2>1. m \in X /\ \A d \in X : d <= m
    <3>1. X \in SUBSET Nat /\ \A d \in X : d <= c BY <1>1, <1>6
    <3> HIDE DEF X
    <3> QED BY <3>1, <1>1, <1>9, MaxFacts
  <2>2. D = [droppedThrough EXCEPT ![t] = m] BY <1>9 DEF Dropped1
  <2> HIDE DEF m
  <2>3. m \in 1..c /\ m > droppedThrough[t] /\ m > globalDroppedThrough
    BY <2>1, <1>1, <1>5, <1>6
  <2>4. D \in [AllTopics -> 0..c] /\ D[t] = m
        /\ \A x \in AllTopics : x # t => D[x] = droppedThrough[x]
    <3>1. \A x \in AllTopics : droppedThrough[x] \in 0..c BY <1>1, <1>2
    <3>2. droppedThrough \in [AllTopics -> 0..c] BY <3>1, <1>2
    <3> HIDE DEF D
    <3> QED BY <3>2, <2>2, <2>3, <1>1
  <2>5. ASSUME NEW x \in AllTopics, NEW d \in B[x]
        PROVE  history[d] = x /\ d > D[x] /\ d > globalDroppedThrough
    <3> HIDE DEF P, B, D, X, E
    <3>1. CASE x # t BY <3>1, <2>4, <1>2, <1>7
    <3>2. CASE x = t BY <3>2, <2>1, <2>4, <1>1, <1>5, <1>6, <1>7
    <3> QED BY <3>1, <3>2
  <2>6. ASSUME NEW d \in E, d > globalDroppedThrough, d > D[history[d]]
        PROVE  d \in B[history[d]]
    <3>0. d \in 1..c /\ history[d] \in AllTopics BY <1>4
    <3> HIDE DEF P, B, D, X
    <3>1. CASE history[d] # t
      BY <3>0, <3>1, <2>4, <2>6, <1>1, <1>2, <1>7
    <3>2. CASE history[d] = t
      <4>1. d > m BY <3>2, <2>4, <2>6
      <4>2. d \notin X BY <4>1, <2>1, <2>3, <3>0
      <4>3. d \in P[t]
        <5>1. CASE d = c BY <5>1, <1>3
        <5>2. CASE d # c
          <6>1. d > droppedThrough[t]
            <7>1. droppedThrough[t] \in Nat /\ d \in Nat /\ m \in Nat
              BY <1>1, <1>2, <2>3, <3>0
            <7> QED BY <7>1, <4>1, <2>3
          <6> QED BY <6>1, <5>2, <3>2, <2>6, <1>2, <1>3
        <5> QED BY <5>1, <5>2
      <4> QED BY <4>2, <4>3, <3>2, <1>7
    <3> QED BY <3>1, <3>2
  <2>7. globalDroppedThrough \in 0..c BY <1>1, <1>2
  <2>8. (retainedEvents \cup {c}) \ X = All(B)
    <3> HIDE DEF P, B, D, X
    <3>1. retainedEvents \cup {c} = All(P) BY <1>1, <1>2, <1>3 DEF All
    <3>2. \A x \in AllTopics : B[x] = P[x] \ X
      BY <1>3, <1>5, <1>6, <1>7
    <3> QED BY <3>1, <3>2 DEF All
  <2> HIDE DEF P, B, D, X, E
  <2>9. Window(history, B, All(B), D, globalDroppedThrough, E, c)
    BY <1>4, <1>7, <2>4, <2>5, <2>6, <2>7 DEF Window, All
  <2> QED BY <2>8, <2>9 DEF B, D, X, E
<1> QED BY <1>8, <1>9

(* Stage 2: the trimmed topics lose a prefix, and their marks follow.      *)
LEMMA CutKeepsWindow ==
  ASSUME NEW c \in Nat, NEW t, NEW E, \A d \in E : history[d] \in AllTopics,
         Window(history, Buffers1(c, t), All(Buffers1(c, t)), Dropped1(c, t),
                globalDroppedThrough, E, c),
         (retainedEvents \cup {c}) \ Spliced(c, t) = All(Buffers1(c, t))
  PROVE  Window(history, Buffers2(c, t), Retained2(c, t), Dropped2(c, t),
                globalDroppedThrough, E, c)
<1> DEFINE B1 == Buffers1(c, t)
           D1 == Dropped1(c, t)
           B2 == Buffers2(c, t)
           D2 == Dropped2(c, t)
<1>1. /\ E \subseteq 1..c
      /\ B1 \in [AllTopics -> SUBSET E]
      /\ D1 \in [AllTopics -> 0..c]
      /\ globalDroppedThrough \in 0..c
      /\ \A x \in AllTopics : \A d \in B1[x] :
           history[d] = x /\ d > D1[x] /\ d > globalDroppedThrough
      /\ \A d \in E : d > globalDroppedThrough /\ d > D1[history[d]]
                      => d \in B1[history[d]]
  BY DEF Window
<1> HIDE DEF B1, D1
<1>2. ASSUME NEW x \in AllTopics PROVE CutOf(c, t, x) \in 0..c
  <2>1. CASE x \notin Trimmed(c, t) BY <2>1 DEF CutOf
  <2>2. CASE x \in Trimmed(c, t)
    <3> DEFINE S == B1[x] \cup B1[Reset]
    <3>1. S \in SUBSET (1..c)
      <4>1. Reset \in AllTopics BY DEF AllTopics
      <4> QED BY <4>1, <1>1
    <3>2. Overflow(S, ReplaySize) \in SUBSET (1..c)
      <4> HIDE DEF S
      <4> QED BY <3>1 DEF Overflow
    <3>3. MaxOr0(Overflow(S, ReplaySize)) \in 0..c
      <4> HIDE DEF S
      <4> QED BY <3>2, MaxOr0Facts
    <3> QED BY <2>2, <3>3 DEF CutOf, B1
  <2> QED BY <2>1, <2>2
<1>3. \A x \in AllTopics : B2[x] = {d \in B1[x] : d > CutOf(c, t, x)}
  BY DEF Buffers2, B1
<1>4. \A x \in AllTopics :
        D2[x] = IF CutOf(c, t, x) > D1[x] THEN CutOf(c, t, x) ELSE D1[x]
  BY DEF Dropped2, D1
<1>5. B2 \in [AllTopics -> SUBSET E]
  <2>1. \A x \in AllTopics : {d \in B1[x] : d > CutOf(c, t, x)} \in SUBSET E
    BY <1>1
  <2> QED BY <2>1 DEF Buffers2, B1
<1>6. D2 \in [AllTopics -> 0..c]
  <2>1. \A x \in AllTopics :
          (IF CutOf(c, t, x) > D1[x] THEN CutOf(c, t, x) ELSE D1[x]) \in 0..c
    BY <1>1, <1>2
  <2> QED BY <2>1 DEF Dropped2, D1
<1> HIDE DEF B2, D2
<1>7. ASSUME NEW x \in AllTopics, NEW d \in B2[x]
      PROVE  history[d] = x /\ d > D2[x] /\ d > globalDroppedThrough
  <2>1. d \in B1[x] /\ d > CutOf(c, t, x) BY <1>3, <1>7
  <2> QED BY <2>1, <1>1, <1>4
<1>8. ASSUME NEW d \in E, d > globalDroppedThrough, d > D2[history[d]]
      PROVE  d \in B2[history[d]]
  <2>1. d \in Nat /\ D1[history[d]] \in Nat /\ CutOf(c, t, history[d]) \in Nat
    BY <1>1, <1>2, <1>8
  <2>2. d > D1[history[d]] /\ d > CutOf(c, t, history[d]) BY <2>1, <1>4, <1>8
  <2> QED BY <2>2, <1>1, <1>3, <1>8
<1>9. Retained2(c, t) = All(B2)
  <2>1. Retained2(c, t) = All(B1) \ UNION {B1[x] \ B2[x] : x \in AllTopics}
    BY DEF Retained2, B1, B2
  <2>2. ASSUME NEW x \in AllTopics, NEW d \in B2[x], NEW y \in AllTopics
        PROVE  d \in B1[x] /\ d \notin B1[y] \ B2[y]
    <3>1. d \in B1[x] /\ history[d] = x BY <1>1, <1>3
    <3>2. d \in B1[y] => y = x BY <3>1, <1>1
    <3> QED BY <3>1, <3>2
  <2> QED BY <2>1, <2>2, <1>3 DEF All
<1> QED
  BY <1>1, <1>5, <1>6, <1>7, <1>8, <1>9 DEF Window, All, B2, D2

(* Stage 3: the oldest events of all topics leave under the global mark,   *)
(* which then covers every topic mark that is forgotten.                   *)
LEMMA EvictKeepsWindow ==
  ASSUME NEW c \in Nat, NEW t, NEW E, \A d \in E : history[d] \in AllTopics,
         Window(history, Buffers2(c, t), Retained2(c, t), Dropped2(c, t),
                globalDroppedThrough, E, c)
  PROVE  Window(history, Buffers3(c, t), Retained2(c, t) \ Evicted(c, t),
                Dropped4(c, t), Global3(c, t), E, c)
<1> DEFINE B2 == Buffers2(c, t)
           D2 == Dropped2(c, t)
           S  == Retained2(c, t)
           X  == Evicted(c, t)
           G  == Global3(c, t)
           B3 == Buffers3(c, t)
           D3 == Dropped3(c, t)
           D4 == Dropped4(c, t)
<1>1. /\ E \subseteq 1..c
      /\ B2 \in [AllTopics -> SUBSET E]
      /\ S = All(B2)
      /\ D2 \in [AllTopics -> 0..c]
      /\ globalDroppedThrough \in 0..c
      /\ \A x \in AllTopics : \A d \in B2[x] :
           history[d] = x /\ d > D2[x] /\ d > globalDroppedThrough
      /\ \A d \in E : d > globalDroppedThrough /\ d > D2[history[d]]
                      => d \in B2[history[d]]
  BY DEF Window, All
<1>2. B3 = [x \in AllTopics |-> B2[x] \ X] BY DEF Buffers3
<1>3. D3 = [x \in AllTopics |-> IF B3[x] = {} /\ B2[x] # {} THEN 0 ELSE D2[x]]
  BY DEF Dropped3
<1>4. /\ D4 = [x \in AllTopics |->
                 IF Crowded(c, t) /\ D3[x] <= G THEN 0 ELSE D3[x]]
  BY DEF Dropped4
<1>5. G = IF X = {} THEN globalDroppedThrough ELSE Max(X) BY DEF Global3
<1>6. X = Overflow(S, GlobalReplaySize) BY DEF Evicted
<1> HIDE DEF B2, D2, S, X, G, B3, D3, D4
<1>7. /\ S \in SUBSET E /\ S \in SUBSET (1..c)
      /\ \A d \in S : d > globalDroppedThrough
  <2>1. ASSUME NEW d \in S PROVE d \in E /\ d > globalDroppedThrough
    <3>1. PICK x \in AllTopics : d \in B2[x] BY <1>1 DEF All
    <3>2. B2[x] \in SUBSET E BY <1>1
    <3> QED BY <3>1, <3>2, <1>1
  <2>2. \A d \in E : d \in 1..c BY <1>1
  <2> QED BY <2>1, <2>2
<1>8. X \subseteq S /\ \A d \in X, e \in S \ X : d < e
  BY <1>6, <1>7, SizeAssumption, OverflowFacts
<1>9. /\ G \in 0..c /\ G >= globalDroppedThrough
      /\ \A d \in X : d <= G
      /\ \A e \in S \ X : e > G
  <2>1. CASE X = {}
    <3>1. G = globalDroppedThrough BY <2>1, <1>5
    <3> QED BY <3>1, <2>1, <1>1, <1>7
  <2>2. CASE X # {}
    <3>1. X \in SUBSET Nat /\ \A d \in X : d <= c BY <1>7, <1>8
    <3>2. G \in X /\ \A d \in X : d <= G BY <3>1, <2>2, <1>5, MaxFacts
    <3>3. G > globalDroppedThrough /\ G \in 1..c
      BY <3>2, <1>1, <1>7, <1>8
    <3> QED BY <3>2, <3>3, <1>1, <1>8
  <2> QED BY <2>1, <2>2
<1>10. B3 \in [AllTopics -> SUBSET E] BY <1>1, <1>2
<1>11. S \ X = All(B3)
  <2>1. \A x \in AllTopics : B3[x] = B2[x] \ X BY <1>2
  <2> QED BY <2>1, <1>1 DEF All
<1>12. ASSUME NEW x \in AllTopics
       PROVE  /\ D4[x] \in 0..c
              /\ D4[x] = D2[x] \/ (D4[x] = 0 /\ D2[x] <= G)
  <2>1. D3[x] = D2[x] \/ (D3[x] = 0 /\ D2[x] <= G)
    <3>1. CASE B3[x] = {} /\ B2[x] # {}
      <4>1. PICK d \in B2[x] : d \in X BY <3>1, <1>2
      <4>2. d > D2[x] /\ d <= G /\ d \in Nat /\ D2[x] \in Nat /\ G \in Nat
        BY <4>1, <1>1, <1>7, <1>8, <1>9
      <4> QED BY <4>2, <3>1, <1>3
    <3>2. CASE ~(B3[x] = {} /\ B2[x] # {}) BY <3>2, <1>3
    <3> QED BY <3>1, <3>2
  <2>2. D2[x] \in 0..c BY <1>1
  <2>3. D4[x] = IF Crowded(c, t) /\ D3[x] <= G THEN 0 ELSE D3[x] BY <1>4
  <2>4. CASE Crowded(c, t) /\ D3[x] <= G BY <2>1, <2>2, <2>3, <2>4
  <2>5. CASE ~(Crowded(c, t) /\ D3[x] <= G)
    <3>1. D4[x] = D3[x] BY <2>3, <2>5
    <3> QED BY <3>1, <2>1, <2>2
  <2> QED BY <2>4, <2>5
<1>13. D4 \in [AllTopics -> 0..c] BY <1>4, <1>12
<1>14. ASSUME NEW x \in AllTopics, NEW d \in B3[x]
       PROVE  history[d] = x /\ d > D4[x] /\ d > G
  <2>1. d \in B2[x] /\ d \in S \ X BY <1>1, <1>2 DEF All
  <2>2. d \in 1..c /\ d > D2[x] /\ D2[x] \in Nat BY <2>1, <1>1, <1>7
  <2> QED BY <2>1, <2>2, <1>1, <1>9, <1>12
<1>15. ASSUME NEW d \in E, d > G, d > D4[history[d]]
       PROVE  d \in B3[history[d]]
  <2> DEFINE x == history[d]
  <2>1. x \in AllTopics /\ d \in Nat BY <1>1
  <2>2. D2[x] \in Nat /\ G \in Nat /\ globalDroppedThrough \in Nat
    BY <2>1, <1>1, <1>9
  <2>3. d > D2[x] /\ d > globalDroppedThrough
    BY <2>1, <2>2, <1>9, <1>12, <1>15
  <2>4. d \in B2[x] BY <2>3, <1>1
  <2>5. d \notin X BY <2>1, <2>2, <1>9, <1>15
  <2> QED BY <2>1, <2>4, <2>5, <1>2
<1> QED
  BY <1>1, <1>9, <1>10, <1>11, <1>13, <1>14, <1>15
  DEF Window, All, B3, D4, S, X, G

(* #retain of the next event keeps the window sound.                       *)
LEMMA RetainKeepsWindow ==
  ASSUME history \in Seq(AllTopics), NEW c \in 1..Len(history),
         NEW fed, NEW top \in Nat, top < c, top <= Len(history),
         Window(history, eventsByTopic, retainedEvents, droppedThrough,
                globalDroppedThrough, fed, top),
         Retain(c, history[c])
  PROVE  Window(history, eventsByTopic', retainedEvents', droppedThrough',
                globalDroppedThrough', fed \cup {c}, c)
<1> DEFINE t == history[c]
           E == fed \cup {c}
<1>1. \A d \in E : history[d] \in AllTopics
  <2>1. fed \subseteq 1..top BY DEF Window
  <2> QED BY <2>1
<1>2. /\ Window(history, Buffers1(c, t), All(Buffers1(c, t)), Dropped1(c, t),
                globalDroppedThrough, E, c)
      /\ (retainedEvents \cup {c}) \ Spliced(c, t) = All(Buffers1(c, t))
  BY SpliceKeepsWindow
<1> HIDE DEF t, E
<1>3. c \in Nat OBVIOUS
<1>4. Window(history, Buffers2(c, t), Retained2(c, t), Dropped2(c, t),
             globalDroppedThrough, E, c)
  BY <1>1, <1>2, <1>3, CutKeepsWindow
<1>5. Window(history, Buffers3(c, t), Retained2(c, t) \ Evicted(c, t),
             Dropped4(c, t), Global3(c, t), E, c)
  BY <1>1, <1>3, <1>4, EvictKeepsWindow
<1> QED BY <1>5 DEF Retain, t, E

-----------------------------------------------------------------------------
(* restore().                                                              *)

LEMMA PairMax ==
  ASSUME NEW a \in Nat, NEW b \in Nat
  PROVE  Max({a, b}) \in {a, b} /\ Max({a, b}) >= a /\ Max({a, b}) >= b
<1>1. a + b \in Nat /\ \A x \in {a, b} : x <= a + b OBVIOUS
<1>2. {a, b} \in SUBSET Nat /\ {a, b} # {} OBVIOUS
<1>3. Max({a, b}) \in {a, b} /\ \A x \in {a, b} : x <= Max({a, b})
  BY <1>1, <1>2, MaxFacts
<1> QED BY <1>3

(* The mark that a restored set of events implies.                         *)
LEMMA BeforeFacts ==
  ASSUME NEW n \in Nat, NEW S \in SUBSET (1..n)
  PROVE  /\ Before(S) \in 0..n
         /\ \A x \in S : x > Before(S)
         /\ \A y \in Nat : S # {} /\ (\A x \in S : y < x) => y <= Before(S)
<1>1. CASE S = {} BY <1>1 DEF Before
<1>2. CASE S # {}
  <2>1. S \in SUBSET Nat OBVIOUS
  <2>2. Min(S) \in S /\ \A x \in S : Min(S) <= x BY <1>2, <2>1, MinFacts
  <2>3. Before(S) = Min(S) - 1 BY <1>2 DEF Before
  <2> DEFINE m == Min(S)
  <2>4. m \in 1..n /\ m \in S /\ \A x \in S : m <= x BY <2>2
  <2>5. Before(S) = m - 1 BY <2>3
  <2> HIDE DEF m
  <2>6. Before(S) \in 0..n BY <2>4, <2>5
  <2>7. ASSUME NEW x \in S PROVE x > Before(S)
    <3>1. x \in 1..n /\ m <= x BY <2>4
    <3> QED BY <3>1, <2>4, <2>5
  <2>8. ASSUME NEW y \in Nat, \A x \in S : y < x PROVE y <= Before(S)
    <3>1. y < m BY <2>4, <2>8
    <3> QED BY <3>1, <2>4, <2>5
  <2> QED BY <2>6, <2>7, <2>8
<1> QED BY <1>1, <1>2

(* When every row has been retained, the marks that restore() adds cover   *)
(* every event the table had lost, so the window is sound for the whole    *)
(* history; and the sequence resumes at its end.                           *)
LEMMA RestoreCompletesWindow ==
  ASSUME history \in Seq(AllTopics), Table(history, rows),
         previous \in {0} \cup rows, \A r \in rows : r <= previous,
         NEW marks, NEW global,
         marks = [t \in AllTopics |-> Max({droppedThrough[t], Before(eventsByTopic[t])})],
         global = Max({globalDroppedThrough, Before(rows)}),
         Window(history, eventsByTopic, retainedEvents, droppedThrough,
                globalDroppedThrough, rows, previous)
  PROVE  /\ previous = Len(history)
         /\ Window(history, eventsByTopic, retainedEvents, marks, global,
                   1..previous, previous)
<1>1. /\ rows \subseteq 1..Len(history) /\ Len(history) \in Nat
      /\ history # <<>> => Len(history) \in rows
      /\ \A c \in (1..Len(history)) \ rows : Lacks(history, rows, c)
  BY DEF Table
<1>2. previous = Len(history)
  <2>1. CASE history = <<>>
    <3>1. Len(history) = 0 /\ rows = {} BY <2>1, <1>1
    <3> QED BY <3>1
  <2>2. CASE history # <<>>
    <3>1. Len(history) \in rows /\ Len(history) <= previous BY <2>2, <1>1
    <3>2. previous \in rows
      <4>1. Len(history) \in 1..Len(history) BY <3>1, <1>1
      <4> QED BY <4>1, <3>1
    <3> QED BY <3>1, <3>2, <1>1
  <2> QED BY <2>1, <2>2
<1>3. previous \in Nat BY <1>1, <1>2
<1>4. /\ rows \subseteq 1..previous
      /\ eventsByTopic \in [AllTopics -> SUBSET rows]
      /\ retainedEvents = UNION {eventsByTopic[x] : x \in AllTopics}
      /\ droppedThrough \in [AllTopics -> 0..previous]
      /\ globalDroppedThrough \in 0..previous
      /\ \A x \in AllTopics : \A d \in eventsByTopic[x] :
           history[d] = x /\ d > droppedThrough[x] /\ d > globalDroppedThrough
      /\ \A d \in rows : d > globalDroppedThrough /\ d > droppedThrough[history[d]]
                         => d \in eventsByTopic[history[d]]
  BY DEF Window
<1>5. /\ global \in 0..previous
      /\ global >= globalDroppedThrough /\ global >= Before(rows)
      /\ \A r \in rows : r > Before(rows)
      /\ \A y \in Nat : rows # {} /\ (\A r \in rows : y < r) => y <= Before(rows)
      /\ Before(rows) \in Nat
      /\ global \in {globalDroppedThrough, Before(rows)}
  <2>1. /\ Before(rows) \in 0..previous
        /\ \A r \in rows : r > Before(rows)
        /\ \A y \in Nat : rows # {} /\ (\A r \in rows : y < r) => y <= Before(rows)
    BY <1>3, <1>4, BeforeFacts
  <2> DEFINE a == globalDroppedThrough
             b == Before(rows)
  <2>2. a \in 0..previous /\ b \in 0..previous BY <2>1, <1>4
  <2>3. a \in Nat /\ b \in Nat /\ global = Max({a, b}) BY <2>2
  <2> HIDE DEF a, b
  <2>4. global \in {a, b} /\ global >= a /\ global >= b BY <2>3, PairMax
  <2>5. global \in 0..previous BY <2>2, <2>4
  <2> QED BY <2>1, <2>4, <2>5 DEF a, b
<1>6. ASSUME NEW x \in AllTopics
      PROVE  /\ marks[x] \in 0..previous
             /\ marks[x] >= droppedThrough[x] /\ marks[x] >= Before(eventsByTopic[x])
             /\ \A d \in eventsByTopic[x] : d > Before(eventsByTopic[x])
             /\ \A y \in Nat : eventsByTopic[x] # {} /\ (\A d \in eventsByTopic[x] : y < d)
                   => y <= Before(eventsByTopic[x])
             /\ marks[x] \in {droppedThrough[x], Before(eventsByTopic[x])}
             /\ droppedThrough[x] \in Nat /\ Before(eventsByTopic[x]) \in Nat
  <2>1. eventsByTopic[x] \in SUBSET (1..previous) BY <1>4
  <2>2. /\ Before(eventsByTopic[x]) \in 0..previous
        /\ \A d \in eventsByTopic[x] : d > Before(eventsByTopic[x])
        /\ \A y \in Nat : eventsByTopic[x] # {} /\ (\A d \in eventsByTopic[x] : y < d)
              => y <= Before(eventsByTopic[x])
    BY <2>1, <1>3, BeforeFacts
  <2>3. droppedThrough[x] \in 0..previous BY <1>4
  <2> DEFINE a == droppedThrough[x]
             b == Before(eventsByTopic[x])
  <2>4. a \in 0..previous /\ b \in 0..previous BY <2>2, <2>3
  <2>5. a \in Nat /\ b \in Nat /\ marks[x] = Max({a, b}) BY <2>4
  <2> HIDE DEF a, b
  <2>6. marks[x] \in {a, b} /\ marks[x] >= a /\ marks[x] >= b BY <2>5, PairMax
  <2>7. marks[x] \in 0..previous BY <2>4, <2>6
  <2> QED BY <2>2, <2>5, <2>6, <2>7 DEF a, b
<1>7. marks \in [AllTopics -> 0..previous] BY <1>6
<1>8. eventsByTopic \in [AllTopics -> SUBSET (1..previous)] BY <1>4
<1>9. ASSUME NEW x \in AllTopics, NEW d \in eventsByTopic[x]
      PROVE  history[d] = x /\ d > marks[x] /\ d > global
  <2>1. d \in rows /\ history[d] = x BY <1>4
  <2>2. d > droppedThrough[x] /\ d > globalDroppedThrough BY <1>4
  <2>3. d > Before(rows) BY <2>1, <1>5
  <2>4. d > Before(eventsByTopic[x]) BY <1>6
  <2>5. marks[x] \in {droppedThrough[x], Before(eventsByTopic[x])} BY <1>6
  <2>6. global \in {globalDroppedThrough, Before(rows)} BY <1>5
  <2> QED BY <2>1, <2>2, <2>3, <2>4, <2>5, <2>6
<1>10. ASSUME NEW c \in 1..previous, c > global, c > marks[history[c]]
       PROVE  c \in eventsByTopic[history[c]]
  <2> DEFINE x == history[c]
  <2>1. x \in AllTopics /\ c \in Nat BY <1>2, <1>3
  <2>2. /\ droppedThrough[x] \in Nat /\ marks[x] \in Nat
        /\ Before(eventsByTopic[x]) \in Nat
        /\ marks[x] >= droppedThrough[x] /\ marks[x] >= Before(eventsByTopic[x])
    <3>1. marks[x] \in 0..previous BY <2>1, <1>6
    <3> QED BY <3>1, <2>1, <1>6
  <2>3. /\ global \in Nat /\ globalDroppedThrough \in Nat /\ Before(rows) \in Nat
    <3>1. globalDroppedThrough \in 0..previous /\ global \in 0..previous BY <1>4, <1>5
    <3> QED BY <3>1, <1>5
  <2> HIDE DEF x
  <2>4. c > globalDroppedThrough /\ c > droppedThrough[x]
        /\ c > Before(rows) /\ c > Before(eventsByTopic[x])
    <3>1. c > global /\ c > marks[x] BY <1>10 DEF x
    <3>2. global >= globalDroppedThrough /\ global >= Before(rows) BY <1>5
    <3> QED BY <3>1, <3>2, <2>1, <2>2, <2>3
  <2>5. CASE c \in rows BY <2>4, <2>5, <1>4 DEF x
  <2>6. CASE c \notin rows
    <3>1. Lacks(history, rows, c) BY <2>6, <1>1, <1>2
    <3>2. ASSUME \A r \in rows : c < r PROVE FALSE
      <4>1. rows # {} BY <1>2, <1>3
      <4> QED BY <4>1, <3>2, <2>1, <2>3, <2>4, <1>5
    <3>3. ASSUME NEW r \in rows, history[r] = x,
                 \A q \in rows : history[q] = x => c < q
          PROVE  FALSE
      <4>1. c < r /\ r \in Nat BY <3>3, <1>3, <1>4
      <4>2. CASE r \in eventsByTopic[x]
        <5>1. \A d \in eventsByTopic[x] : c < d BY <3>3, <1>4, <2>1
        <5>2. c <= Before(eventsByTopic[x]) BY <5>1, <4>2, <2>1, <1>6
        <5>3. Before(eventsByTopic[x]) \in Nat BY <2>1, <1>6
        <5> QED BY <5>2, <5>3, <2>1, <2>4
      <4>3. CASE r \notin eventsByTopic[x]
        <5>1. ~(r > globalDroppedThrough /\ r > droppedThrough[x]) BY <4>3, <3>3, <1>4
        <5> QED BY <5>1, <4>1, <2>1, <2>2, <2>3, <2>4
      <4> QED BY <4>2, <4>3
    <3> QED BY <3>1, <3>2, <3>3 DEF Lacks, x
  <2> QED BY <2>5, <2>6 DEF x
<1>11. Window(history, eventsByTopic, retainedEvents, marks, global,
              1..previous, previous)
  BY <1>4, <1>5, <1>7, <1>8, <1>9, <1>10 DEF Window
<1> QED BY <1>2, <1>11

-----------------------------------------------------------------------------
(* What is owed.                                                           *)

(* What a longer history owes up to a cursor of the shorter one.           *)
LEMMA OwedGrows ==
  ASSUME NEW old \in Seq(AllTopics), NEW hist \in Seq(AllTopics),
         Len(hist) >= Len(old), \A c \in 1..Len(old) : hist[c] = old[c],
         NEW t, NEW a \in Nat, NEW m \in 0..Len(old)
  PROVE  OwedOf(hist, t, a, m) = OwedOf(old, t, a, m)
<1>1. Len(old) \in Nat /\ Len(hist) \in Nat OBVIOUS
<1>2. ASSUME NEW c \in Nat, c <= m PROVE c \in 1..Len(hist) <=> c \in 1..Len(old)
  BY <1>1, <1>2
<1>3. ASSUME NEW c
      PROVE  c \in OwedOf(hist, t, a, m) <=> c \in OwedOf(old, t, a, m)
  <2>1. CASE c \in Nat /\ c <= m BY <2>1, <1>2 DEF OwedOf
  <2>2. CASE ~(c \in Nat /\ c <= m) BY <2>2, <1>1 DEF OwedOf
  <2> QED BY <2>1, <2>2
<1> QED BY <1>3

(* What is owed is cut at any cursor by forgetting the later events, ...   *)
LEMMA OwedCut ==
  ASSUME NEW hist \in Seq(AllTopics), NEW t, NEW a \in Nat, NEW m \in Nat,
         NEW x \in Nat, x <= m
  PROVE  {c \in OwedOf(hist, t, a, m) : c <= x} = OwedOf(hist, t, a, x)
<1>1. \A c \in 1..Len(hist) : c \in Nat OBVIOUS
<1> QED BY <1>1 DEF OwedOf

(* ... is put together from two adjacent stretches, ...                    *)
LEMMA OwedJoin ==
  ASSUME NEW hist \in Seq(AllTopics), NEW t, NEW a \in Nat, NEW b \in Nat,
         NEW m \in Nat, a <= b, b <= m
  PROVE  OwedOf(hist, t, a, b) \cup OwedOf(hist, t, b, m) = OwedOf(hist, t, a, m)
<1>1. \A c \in 1..Len(hist) : c \in Nat OBVIOUS
<1> QED BY <1>1 DEF OwedOf

(* ... and grows by the next event if that concerns the topic.             *)
LEMMA OwedNext ==
  ASSUME NEW hist \in Seq(AllTopics), NEW t, NEW a \in Nat, NEW c \in 1..Len(hist),
         a < c
  PROVE  OwedOf(hist, t, a, c) =
           OwedOf(hist, t, a, c - 1) \cup (IF hist[c] \in {t, Reset} THEN {c} ELSE {})
<1>1. \A d \in 1..Len(hist) : d \in Nat /\ (d <= c <=> d <= c - 1 \/ d = c)
  OBVIOUS
<1>2. c \in Nat /\ c <= c OBVIOUS
<1> QED BY <1>1, <1>2 DEF OwedOf

LEMMA OwedNothing ==
  ASSUME NEW hist \in Seq(AllTopics), NEW t, NEW a \in Nat
  PROVE  OwedOf(hist, t, a, a) = {}
<1>1. \A c \in 1..Len(hist) : ~(a < c /\ c <= a) OBVIOUS
<1> QED BY <1>1 DEF OwedOf

(* The newest of three marks is at least each of them.                     *)
LEMMA TripleMax ==
  ASSUME NEW a \in Nat, NEW b \in Nat, NEW d \in Nat
  PROVE  /\ Max({a, b, d}) \in Nat
         /\ Max({a, b, d}) >= a /\ Max({a, b, d}) >= b /\ Max({a, b, d}) >= d
<1>1. a + b + d \in Nat /\ \A x \in {a, b, d} : x <= a + b + d OBVIOUS
<1>2. {a, b, d} \in SUBSET Nat /\ {a, b, d} # {} OBVIOUS
<1>3. Max({a, b, d}) \in {a, b, d} /\ \A x \in {a, b, d} : x <= Max({a, b, d})
  BY <1>1, <1>2, MaxFacts
<1> QED BY <1>3

(* A sound window fed the whole published history answers an accepted      *)
(* cursor with exactly what is owed after it.                              *)
LEMMA ReplayIsOwed ==
  ASSUME history \in Seq(AllTopics), sequence \in 0..Len(history),
         Window(history, eventsByTopic, retainedEvents, droppedThrough,
                globalDroppedThrough, 1..sequence, sequence),
         NEW t \in Topics, NEW after \in Nat, Replayable(after, t)
  PROVE  after <= sequence /\ Replay(after, t) = OwedOf(history, t, after, sequence)
<1>1. /\ eventsByTopic \in [AllTopics -> SUBSET (1..sequence)]
      /\ droppedThrough \in [AllTopics -> 0..sequence]
      /\ globalDroppedThrough \in 0..sequence
      /\ \A x \in AllTopics : \A c \in eventsByTopic[x] :
           history[c] = x /\ c > droppedThrough[x] /\ c > globalDroppedThrough
      /\ \A c \in 1..sequence : c > globalDroppedThrough /\ c > droppedThrough[history[c]]
                                => c \in eventsByTopic[history[c]]
  BY DEF Window
<1>2. t \in AllTopics /\ Reset \in AllTopics BY DEF AllTopics
<1>3. /\ sequence \in Nat /\ Len(history) \in Nat /\ sequence <= Len(history)
      /\ globalDroppedThrough \in Nat
      /\ droppedThrough[t] \in Nat /\ droppedThrough[Reset] \in Nat
  <2>1. sequence \in Nat /\ Len(history) \in Nat /\ sequence <= Len(history) OBVIOUS
  <2>2. droppedThrough[t] \in 0..sequence /\ droppedThrough[Reset] \in 0..sequence
    BY <1>1, <1>2
  <2> QED BY <2>1, <2>2, <1>1
<1>4. /\ after <= sequence /\ after >= globalDroppedThrough
      /\ after >= droppedThrough[t] /\ after >= droppedThrough[Reset]
  <2>1. DroppedFor(t) \in Nat /\ DroppedFor(t) >= globalDroppedThrough
        /\ DroppedFor(t) >= droppedThrough[t] /\ DroppedFor(t) >= droppedThrough[Reset]
    BY <1>3, TripleMax DEF DroppedFor
  <2> HIDE DEF DroppedFor
  <2>2. after <= sequence /\ after >= DroppedFor(t) BY DEF Replayable
  <2> QED BY <2>1, <2>2, <1>3
<1>5. ASSUME NEW c \in Replay(after, t) PROVE c \in OwedOf(history, t, after, sequence)
  <2>1. PICK x \in {t, Reset} : c \in eventsByTopic[x] /\ c > after BY DEF Replay
  <2>2. c \in 1..sequence /\ history[c] = x BY <2>1, <1>1, <1>2
  <2> QED BY <2>1, <2>2, <1>3 DEF OwedOf
<1>6. ASSUME NEW c \in OwedOf(history, t, after, sequence) PROVE c \in Replay(after, t)
  <2>1. c \in 1..sequence /\ after < c /\ history[c] \in {t, Reset}
    BY <1>3 DEF OwedOf
  <2>2. c > globalDroppedThrough /\ c > droppedThrough[history[c]]
    BY <2>1, <1>3, <1>4
  <2>3. c \in eventsByTopic[history[c]] BY <2>1, <2>2, <1>1
  <2> QED BY <2>1, <2>3 DEF Replay
<1> QED BY <1>4, <1>5, <1>6

-----------------------------------------------------------------------------
(* The window in the steps that do not retain an event.                    *)

(* The window in variables, as IInv states it.                             *)
HubOK == Window(history, eventsByTopic, retainedEvents, droppedThrough,
                globalDroppedThrough, Fed, Top)

LEMMA EmptyWindow ==
  ASSUME NEW hist
  PROVE  Window(hist, [t \in AllTopics |-> {}], {}, [t \in AllTopics |-> 0], 0, {}, 0)
BY DEF Window

(* A window says nothing of events later than its top.                     *)
LEMMA WindowGrows ==
  ASSUME NEW old, NEW hist, NEW n \in Nat, \A c \in 1..n : hist[c] = old[c],
         NEW buffers, NEW retained, NEW dropped, NEW global, NEW fed,
         NEW top \in 0..n, Window(old, buffers, retained, dropped, global, fed, top)
  PROVE  Window(hist, buffers, retained, dropped, global, fed, top)
<1>1. \A c \in fed : hist[c] = old[c]
  <2>1. fed \subseteq 1..top BY DEF Window
  <2>2. \A c \in 1..top : c \in 1..n OBVIOUS
  <2> QED BY <2>1, <2>2
<1>2. /\ buffers \in [AllTopics -> SUBSET fed]
      /\ \A x \in AllTopics : \A c \in buffers[x] :
           old[c] = x /\ c > dropped[x] /\ c > global
      /\ \A c \in fed : c > global /\ c > dropped[old[c]] => c \in buffers[old[c]]
  BY DEF Window
<1>3. \A x \in AllTopics : \A c \in buffers[x] :
         hist[c] = x /\ c > dropped[x] /\ c > global
  <2>1. \A x \in AllTopics : \A c \in buffers[x] : c \in fed BY <1>2
  <2> QED BY <1>1, <1>2, <2>1
<1>4. \A c \in fed : c > global /\ c > dropped[hist[c]] => c \in buffers[hist[c]]
  BY <1>1, <1>2
<1> QED BY <1>3, <1>4 DEF Window

(* The last event fed is one of the history.                               *)
LEMMA TopInHistory ==
  ASSUME StateOK, Table(history, rows)
  PROVE  Top \in 0..Len(history)
<1>1. rows \subseteq 1..Len(history) /\ Len(history) \in Nat BY DEF Table, StateOK
<1>2. previous \in 0..Len(history)
  <2>1. \A r \in rows : r \in 0..Len(history) BY <1>1
  <2>2. 0 \in 0..Len(history) BY <1>1
  <2> QED BY <2>1, <2>2 DEF StateOK
<1> QED BY <1>1, <1>2 DEF Top, StateOK

-----------------------------------------------------------------------------
(* One browser in each kind of step.                                       *)

(* A batch made durable does not change what a browser is owed so far.     *)
LEMMA BrowserGrows ==
  ASSUME NEW old \in Seq(AllTopics), NEW hist \in Seq(AllTopics),
         Len(hist) >= Len(old), \A c \in 1..Len(old) : hist[c] = old[c],
         NEW ph, NEW seq \in 0..Len(old), NEW b, BrowserOK(old, ph, seq, b)
  PROVE  BrowserOK(hist, ph, seq, b)
<1>1. Len(old) \in Nat /\ Len(hist) \in Nat OBVIOUS
<1>2. /\ b \in Client /\ b.base <= b.lastEventId /\ b.lastEventId <= Len(old)
      /\ b.base \in Nat /\ b.lastEventId \in Nat
  BY DEF BrowserOK, Client
<1>3. \A m \in 0..Len(old) : OwedOf(hist, b.topic, b.base, m) = OwedOf(old, b.topic, b.base, m)
  BY <1>2, OwedGrows
<1>4. \E m \in b.lastEventId..Len(hist) : b.got = OwedOf(hist, b.topic, b.base, m)
  <2>1. PICK m \in b.lastEventId..Len(old) : b.got = OwedOf(old, b.topic, b.base, m)
    BY DEF BrowserOK
  <2>2. m \in 0..Len(old) /\ m \in b.lastEventId..Len(hist) BY <1>1, <1>2
  <2> QED BY <2>1, <2>2, <1>3
<1>5. b.lastEventId \in 0..Len(old) /\ b.lastEventId <= Len(hist) BY <1>1, <1>2
<1> QED BY <1>2, <1>3, <1>4, <1>5 DEF BrowserOK

(* A browser that is not connected does not depend on the server.          *)
LEMMA BrowserApart ==
  ASSUME NEW hist, NEW ph, NEW seq, NEW ph2, NEW seq2, NEW b,
         BrowserOK(hist, ph, seq, b),
         b.state # "live" \/ (ph \notin {"serving", "committing"})
  PROVE  BrowserOK(hist, ph2, seq2, b)
BY DEF BrowserOK

(* A connection that breaks at any frame leaves the browser with what is   *)
(* owed up to its Last-Event-ID.                                           *)
LEMMA BrowserBreaks ==
  ASSUME history \in Seq(AllTopics), NEW ph, NEW seq, NEW k \in Clients,
         BrowserOK(history, phase, sequence, client[k]), NEW x \in LastReceived(k)
  PROVE  BrowserOK(history, ph, seq, Broken(k, x))
<1> DEFINE b == client[k]
           d == Broken(k, x)
<1>1. Len(history) \in Nat OBVIOUS
<1>2. /\ b \in Client /\ b.base <= b.lastEventId /\ b.lastEventId <= Len(history)
      /\ b.topic \in Topics /\ b.base \in Nat /\ b.lastEventId \in Nat
      /\ b.got \in SUBSET Nat
  BY DEF BrowserOK, Client
<1>3. PICK m \in b.lastEventId..Len(history) : b.got = OwedOf(history, b.topic, b.base, m)
  BY DEF BrowserOK
<1>4. m \in Nat /\ m <= Len(history) /\ b.lastEventId <= m BY <1>1, <1>2
<1>5. x \in Nat /\ x <= m /\ b.lastEventId <= x
  <2>1. x \in {b.lastEventId} \cup b.got /\ x >= b.lastEventId BY DEF LastReceived
  <2>2. \A c \in b.got : c \in Nat /\ c <= m BY <1>2, <1>3 DEF OwedOf
  <2> QED BY <2>1, <2>2, <1>2, <1>4
<1>6. /\ d \in Client /\ d.topic = b.topic /\ d.base = b.base /\ d.lastEventId = x
      /\ d.got = {c \in b.got : c <= x} /\ d.state = "closed"
  BY <1>2, <1>5 DEF Broken, Client, ClientStates
<1>7. d.got = OwedOf(history, d.topic, d.base, x)
  BY <1>2, <1>3, <1>4, <1>5, <1>6, OwedCut
<1> HIDE DEF b, d
<1>8. d.base <= d.lastEventId /\ d.lastEventId <= Len(history)
      /\ x \in d.lastEventId..Len(history)
  BY <1>1, <1>2, <1>4, <1>5, <1>6
<1>9. \E u \in d.lastEventId..Len(history) : d.got = OwedOf(history, d.topic, d.base, u)
  BY <1>7, <1>8
<1>10. BrowserOK(history, ph, seq, d)
  BY <1>6, <1>7, <1>8, <1>9 DEF BrowserOK
<1> QED BY <1>10 DEF d

(* A connected browser is written the next event if that concerns it.      *)
LEMMA BrowserWritten ==
  ASSUME history \in Seq(AllTopics), sequence \in Nat, sequence + 1 <= Len(history),
         NEW k \in Clients, BrowserOK(history, phase, sequence, client[k]),
         NEW ph \in {"serving", "committing"}
  PROVE  BrowserOK(history, ph, sequence + 1, Received(k, sequence + 1))
<1> DEFINE b == client[k]
           c == sequence + 1
           d == Received(k, c)
<1>1. Len(history) \in Nat /\ c \in 1..Len(history) OBVIOUS
<1>2. CASE b.state # "live"
  <2>1. d = b BY <1>2 DEF Received
  <2> QED BY <2>1, <1>2, BrowserApart
<1>3. CASE b.state = "live"
  <2>1. /\ b \in Client /\ b.base <= b.lastEventId /\ b.lastEventId <= sequence
        /\ b.base \in Nat /\ b.lastEventId \in Nat /\ b.got \in SUBSET Nat
        /\ b.got = OwedOf(history, b.topic, b.base, sequence)
    BY <1>3 DEF BrowserOK, Client
  <2>2. OwedOf(history, b.topic, b.base, c) =
          b.got \cup (IF history[c] \in {b.topic, Reset} THEN {c} ELSE {})
    <3>1. b.base < c /\ c - 1 = sequence BY <2>1
    <3> HIDE DEF b, c
    <3> QED BY <2>1, <3>1, <1>1, OwedNext
  <2>3. Concerns(c, b.topic) <=> history[c] \in {b.topic, Reset} BY DEF Concerns
  <2>4. /\ d \in Client /\ d.topic = b.topic /\ d.base = b.base
        /\ d.lastEventId = b.lastEventId
        /\ d.got = OwedOf(history, b.topic, b.base, c)
        /\ d.state \in {"live", "refetch"}
    <3>1. CASE Concerns(c, b.topic)
      <4>1. d = [b EXCEPT !.got = @ \cup {c},
                          !.state = IF history[c] = Reset THEN "refetch" ELSE @]
        BY <3>1, <1>3 DEF Received
      <4>2. c \in Nat BY <1>1
      <4> HIDE DEF b, c, d
      <4> QED BY <4>1, <4>2, <3>1, <2>1, <2>2, <2>3, <1>3 DEF Client, ClientStates
    <3>2. CASE ~Concerns(c, b.topic)
      <4>1. d = b BY <3>2 DEF Received
      <4> QED BY <4>1, <3>2, <2>1, <2>2, <2>3, <1>3
    <3> QED BY <3>1, <3>2
  <2>5. /\ d.lastEventId <= Len(history) /\ d.lastEventId <= c
        /\ c \in d.lastEventId..Len(history)
    BY <1>1, <2>1, <2>4
  <2> HIDE DEF b, d
  <2>6. \E u \in d.lastEventId..Len(history) : d.got = OwedOf(history, d.topic, d.base, u)
    BY <2>4, <2>5
  <2>7. BrowserOK(history, ph, c, d)
    BY <2>1, <2>4, <2>5, <2>6 DEF BrowserOK
  <2> QED BY <2>7 DEF d
<1> QED BY <1>2, <1>3

-----------------------------------------------------------------------------
(* Each step keeps the invariant.                                          *)

LEMMA InitIInv == Init => IInv
<1> SUFFICES ASSUME Init PROVE IInv OBVIOUS
<1>1. history = <<>> /\ history \in Seq(AllTopics) /\ Len(history) = 0 BY DEF Init
<1>2. StateOK BY <1>1 DEF Init, StateOK, Phases
<1>3. Table(history, rows) BY <1>1 DEF Init, Table
<1>4. Fed = {} /\ Top = 0
  <2>1. phase = "serving" /\ sequence = 0 BY DEF Init
  <2> QED BY <2>1 DEF Fed, Top
<1>5. HubOK
  <2>1. /\ eventsByTopic = [t \in AllTopics |-> {}] /\ retainedEvents = {}
        /\ droppedThrough = [t \in AllTopics |-> 0] /\ globalDroppedThrough = 0
    BY DEF Init
  <2> QED BY <2>1, <1>4, EmptyWindow DEF HubOK
<1>6. Browsers
  <2>1. PICK topicOf \in [Clients -> Topics] :
          client = [k \in Clients |->
                      [topic |-> topicOf[k], base |-> 0, lastEventId |-> 0,
                       got |-> {}, state |-> "closed"]]
    BY DEF Init
  <2>2. ASSUME NEW k \in Clients
        PROVE  /\ client[k] \in Client /\ client[k].base = 0 /\ client[k].lastEventId = 0
               /\ client[k].got = {} /\ client[k].state = "closed"
    BY <2>1 DEF Client, ClientStates
  <2>3. ASSUME NEW k \in Clients PROVE BrowserOK(history, phase, sequence, client[k])
    <3> DEFINE b == client[k]
    <3>1. OwedOf(history, b.topic, 0, 0) = {} BY <1>1, OwedNothing
    <3>2. 0 \in 0..Len(history) BY <1>1
    <3>3. /\ b \in Client /\ b.base = 0 /\ b.lastEventId = 0
          /\ b.got = {} /\ b.state = "closed"
      BY <2>2
    <3> HIDE DEF b
    <3>4. \E m \in b.lastEventId..Len(history) : b.got = OwedOf(history, b.topic, b.base, m)
      BY <3>1, <3>2, <3>3
    <3>5. BrowserOK(history, phase, sequence, b)
      BY <3>1, <3>3, <3>4, <1>1 DEF BrowserOK
    <3> QED BY <3>5 DEF b
  <2>4. client \in [Clients -> Client] BY <2>1, <2>2
  <2> QED BY <2>3, <2>4 DEF Browsers
<1> QED BY <1>2, <1>3, <1>5, <1>6 DEF IInv, HubOK

(* The history with a batch appended.                                      *)
LEMMA BatchAppended ==
  ASSUME history \in Seq(AllTopics), NEW batch \in Batches
  PROVE  /\ history \o batch \in Seq(AllTopics)
         /\ Len(history \o batch) > Len(history)
         /\ \A c \in 1..Len(history) : (history \o batch)[c] = history[c]
<1>1. batch \in Seq(AllTopics) /\ Len(batch) >= 1
  <2>1. CASE batch = <<Reset>> BY <2>1 DEF AllTopics
  <2>2. CASE batch # <<Reset>>
    <3>1. PICK n \in 1..MaxBatch : batch \in [1..n -> Topics] BY <2>2 DEF Batches
    <3>2. n \in Nat /\ n >= 1 BY BoundAssumption
    <3>3. batch \in Seq(Topics) /\ Len(batch) = n BY <3>1, <3>2
    <3>4. batch \in Seq(AllTopics)
      <4>1. Topics \subseteq AllTopics BY DEF AllTopics
      <4>2. batch \in [1..n -> AllTopics] BY <3>1, <4>1
      <4> QED BY <4>2, <3>2
    <3> QED BY <3>2, <3>3, <3>4
  <2> QED BY <2>1, <2>2
<1>2. Len(history) \in Nat /\ Len(batch) \in Nat BY <1>1
<1> HIDE DEF Batches
<1> QED BY <1>1, <1>2, ConcatProperties

LEMMA PersistBatchIInv ==
  ASSUME IInv, NEW batch \in Batches, PersistBatch(batch)
  PROVE  IInv'
<1> DEFINE hist == history \o batch
<1>1. /\ StateOK /\ Table(history, rows) /\ HubOK /\ Browsers
      /\ history \in Seq(AllTopics) /\ Len(history) \in Nat
  BY DEF IInv, HubOK, StateOK
<1>2. /\ phase = "serving" /\ sequence = Len(history) /\ history' = hist
      /\ rows' = TrimRows(hist, rows \cup (Len(history) + 1)..Len(hist))
      /\ UNCHANGED <<phase, previous, hubVars, client>>
  BY DEF PersistBatch
<1>3. /\ hist \in Seq(AllTopics) /\ Len(hist) > Len(history) /\ Len(hist) \in Nat
      /\ \A c \in 1..Len(history) : hist[c] = history[c]
  BY <1>1, BatchAppended
<1> HIDE DEF hist
<1>4. StateOK'
  <2>1. previous = 0 BY <1>1, <1>2 DEF StateOK
  <2> QED BY <2>1, <1>1, <1>2, <1>3 DEF StateOK, hubVars
<1>5. Table(history, rows)'
  BY <1>1, <1>2, <1>3, TrimKeepsTable
<1>6. HubOK'
  <2>1. Fed = 1..sequence /\ Top = sequence /\ Fed' = Fed /\ Top' = Top
    BY <1>2 DEF Fed, Top, hubVars
  <2>2. Window(hist, eventsByTopic, retainedEvents, droppedThrough,
               globalDroppedThrough, Fed, Top)
    <3>1. Top \in 0..Len(history) BY <2>1, <1>1, <1>2
    <3>2. Window(history, eventsByTopic, retainedEvents, droppedThrough,
                 globalDroppedThrough, Fed, Top)
      BY <1>1 DEF HubOK
    <3> QED BY <3>1, <3>2, <1>1, <1>3, WindowGrows
  <2> QED BY <2>1, <2>2, <1>2 DEF HubOK, hubVars
<1>7. Browsers'
  <2>1. sequence' = sequence /\ phase' = phase /\ client' = client
    BY <1>2 DEF hubVars
  <2>2. ASSUME NEW k \in Clients PROVE BrowserOK(hist, phase, sequence, client[k])
    <3>1. BrowserOK(history, phase, sequence, client[k]) BY <1>1 DEF Browsers
    <3>2. sequence \in 0..Len(history) /\ Len(hist) >= Len(history) BY <1>1, <1>2, <1>3
    <3> QED BY <3>1, <3>2, <1>1, <1>3, BrowserGrows
  <2> QED BY <2>1, <2>2, <1>1, <1>2 DEF Browsers
<1> QED BY <1>4, <1>5, <1>6, <1>7 DEF IInv, HubOK

LEMMA CommitEventIInv ==
  ASSUME IInv, CommitEvent
  PROVE  IInv'
<1> DEFINE c == sequence + 1
<1>1. /\ StateOK /\ Table(history, rows) /\ HubOK /\ Browsers
      /\ history \in Seq(AllTopics) /\ Len(history) \in Nat /\ sequence \in Nat
  BY DEF IInv, HubOK, StateOK
<1>2. /\ phase \in {"serving", "committing"} /\ phase' \in {"serving", "committing"}
      /\ c <= Len(history) /\ sequence' = c /\ Retain(c, history[c])
      /\ client' = [k \in Clients |-> Received(k, c)]
      /\ UNCHANGED <<history, rows, previous>>
  BY DEF CommitEvent
<1>3. c \in 1..Len(history) /\ sequence < c /\ sequence <= Len(history)
  BY <1>1, <1>2
<1>4. StateOK'
  BY <1>1, <1>2, <1>3 DEF StateOK, Phases
<1>5. Table(history, rows)' BY <1>1, <1>2
<1>6. HubOK'
  <2>1. Fed = 1..sequence /\ Top = sequence BY <1>2 DEF Fed, Top
  <2>2. Fed' = 1..c /\ Top' = c
    BY <1>2 DEF Fed, Top
  <2>3. 1..c = 1..sequence \cup {c} BY <1>1
  <2>4. Window(history, eventsByTopic', retainedEvents', droppedThrough',
               globalDroppedThrough', (1..sequence) \cup {c}, c)
    <3>1. Window(history, eventsByTopic, retainedEvents, droppedThrough,
                 globalDroppedThrough, 1..sequence, sequence)
      BY <2>1, <1>1 DEF HubOK
    <3> HIDE DEF c
    <3> QED BY <3>1, <1>1, <1>2, <1>3, RetainKeepsWindow
  <2> QED BY <2>2, <2>3, <2>4, <1>2 DEF HubOK
<1>7. Browsers'
  <2>1. ASSUME NEW k \in Clients PROVE BrowserOK(history, phase', c, Received(k, c))
    <3>1. BrowserOK(history, phase, sequence, client[k]) BY <1>1 DEF Browsers
    <3> QED BY <3>1, <1>1, <1>2, BrowserWritten
  <2>2. \A k \in Clients : Received(k, c) \in Client BY <2>1 DEF BrowserOK
  <2> HIDE DEF c
  <2>3. client' \in [Clients -> Client] BY <2>2, <1>2
  <2>4. \A k \in Clients : client'[k] = Received(k, c) BY <1>2
  <2> QED BY <2>1, <2>3, <2>4, <1>2 DEF Browsers
<1> QED BY <1>4, <1>5, <1>6, <1>7 DEF IInv, HubOK

(* A step that changes only the browsers keeps the rest of the invariant.  *)
LEMMA OnlyBrowsers ==
  ASSUME IInv, UNCHANGED <<history, rows, phase, previous, hubVars>>, Browsers'
  PROVE  IInv'
<1>1. Fed' = Fed /\ Top' = Top BY DEF Fed, Top, hubVars
<1>2. StateOK' BY DEF IInv, StateOK, hubVars
<1>3. Table(history, rows)' BY DEF IInv
<1>4. HubOK' BY <1>1 DEF IInv, HubOK, hubVars
<1> QED BY <1>2, <1>3, <1>4 DEF IInv, HubOK

(* So does a change of one browser that leaves it sound.                   *)
LEMMA OneBrowser ==
  ASSUME IInv, UNCHANGED <<history, rows, phase, previous, hubVars>>,
         NEW k \in Clients, NEW b, BrowserOK(history, phase, sequence, b),
         client' = [client EXCEPT ![k] = b]
  PROVE  IInv'
<1>1. Browsers BY DEF IInv
<1>2. b \in Client BY DEF BrowserOK
<1>3. client' \in [Clients -> Client] BY <1>1, <1>2 DEF Browsers
<1>4. ASSUME NEW j \in Clients PROVE BrowserOK(history, phase, sequence, client'[j])
  <2>1. CASE j = k
    <3>1. client'[j] = b BY <2>1, <1>1 DEF Browsers
    <3> QED BY <3>1
  <2>2. CASE j # k
    <3>1. client'[j] = client[j] BY <2>2, <1>1 DEF Browsers
    <3> QED BY <3>1, <1>1 DEF Browsers
  <2> QED BY <2>1, <2>2
<1>5. history' = history /\ phase' = phase /\ sequence' = sequence BY DEF hubVars
<1>6. Browsers' BY <1>3, <1>4, <1>5 DEF Browsers
<1> QED BY <1>6, OnlyBrowsers

LEMMA ConnectIInv ==
  ASSUME IInv, NEW k \in Clients, Connect(k)
  PROVE  IInv'
<1> DEFINE b == client[k]
           frames == Replay(b.lastEventId, b.topic)
           refused == \/ ~Replayable(b.lastEventId, b.topic)
                      \/ Cardinality(frames) > MaxReplayFrames
           reset == \/ Cardinality(Subscribers) >= MaxSubscribers
                    \/ \E c \in frames : history[c] = Reset
           n == IF refused THEN [b EXCEPT !.state = "refetch"]
                ELSE [b EXCEPT !.got = @ \cup frames,
                               !.state = IF reset THEN "refetch" ELSE "live"]
<1>1. /\ StateOK /\ HubOK /\ client \in [Clients -> Client]
      /\ BrowserOK(history, phase, sequence, b)
      /\ history \in Seq(AllTopics) /\ Len(history) \in Nat
      /\ sequence \in Nat /\ sequence \in 0..Len(history)
  BY DEF IInv, HubOK, Browsers, StateOK
<1>2. /\ phase = "serving" /\ b.state = "closed" /\ client' = [client EXCEPT ![k] = n]
      /\ UNCHANGED <<history, rows, phase, previous, hubVars>>
  BY <1>1 DEF Connect
<1>3. /\ b \in Client /\ b.topic \in Topics /\ b.base \in Nat /\ b.lastEventId \in Nat
      /\ b.got \in SUBSET Nat /\ b.base <= b.lastEventId
      /\ b.lastEventId <= Len(history)
      /\ b.got = OwedOf(history, b.topic, b.base, b.lastEventId)
  BY <1>1, <1>2 DEF BrowserOK, Client
<1>4. BrowserOK(history, phase, sequence, n)
  <2>1. CASE refused
    <3>1. n = [b EXCEPT !.state = "refetch"] BY <2>1
    <3> HIDE DEF b, n, frames, refused, reset
    <3>2. /\ n \in Client /\ n.topic = b.topic /\ n.base = b.base
          /\ n.lastEventId = b.lastEventId /\ n.got = b.got /\ n.state = "refetch"
      BY <3>1, <1>3 DEF Client, ClientStates
    <3>3. n.lastEventId \in n.lastEventId..Len(history) BY <3>2, <1>1, <1>3
    <3> QED BY <3>2, <3>3, <1>3 DEF BrowserOK
  <2>2. CASE ~refused
    <3>1. Replayable(b.lastEventId, b.topic) BY <2>2
    <3>2. n = [b EXCEPT !.got = @ \cup frames,
                        !.state = IF reset THEN "refetch" ELSE "live"]
      BY <2>2
    <3> HIDE DEF b, n, refused, reset
    <3>3. b.lastEventId <= sequence
          /\ frames = OwedOf(history, b.topic, b.lastEventId, sequence)
      <4>1. Fed = 1..sequence /\ Top = sequence BY <1>2 DEF Fed, Top
      <4>2. Window(history, eventsByTopic, retainedEvents, droppedThrough,
                   globalDroppedThrough, 1..sequence, sequence)
        BY <4>1, <1>1 DEF HubOK
      <4> QED BY <4>2, <3>1, <1>1, <1>3, ReplayIsOwed
    <3> HIDE DEF frames
    <3>4. b.got \cup frames = OwedOf(history, b.topic, b.base, sequence)
      BY <3>3, <1>1, <1>3, OwedJoin
    <3>5. frames \in SUBSET Nat BY <3>3, <1>1 DEF OwedOf
    <3>6. /\ n \in Client /\ n.topic = b.topic /\ n.base = b.base
          /\ n.lastEventId = b.lastEventId /\ n.got = b.got \cup frames
          /\ n.state \in {"live", "refetch"}
      BY <3>2, <3>5, <1>3 DEF Client, ClientStates
    <3>7. sequence \in n.lastEventId..Len(history) BY <3>3, <3>6, <1>1, <1>3
    <3>8. \E m \in n.lastEventId..Len(history) : n.got = OwedOf(history, n.topic, n.base, m)
      BY <3>4, <3>6, <3>7
    <3> QED BY <3>3, <3>4, <3>6, <3>8, <1>2, <1>3 DEF BrowserOK
  <2> QED BY <2>1, <2>2
<1> HIDE DEF n
<1> QED BY <1>2, <1>4, OneBrowser

LEMMA DisconnectIInv ==
  ASSUME IInv, NEW k \in Clients, Disconnect(k)
  PROVE  IInv'
<1>1. PICK x \in LastReceived(k) : client' = [client EXCEPT ![k] = Broken(k, x)]
  BY DEF Disconnect
<1>2. UNCHANGED <<history, rows, phase, previous, hubVars>> BY DEF Disconnect
<1>3. history \in Seq(AllTopics) /\ BrowserOK(history, phase, sequence, client[k])
  BY DEF IInv, StateOK, Browsers
<1>4. BrowserOK(history, phase, sequence, Broken(k, x))
  BY <1>3, BrowserBreaks
<1> QED BY <1>1, <1>2, <1>4, OneBrowser

LEMMA RefetchIInv ==
  ASSUME IInv, NEW k \in Clients, Refetch(k)
  PROVE  IInv'
<1> DEFINE b == client[k]
           n == [b EXCEPT !.base = sequence, !.lastEventId = sequence,
                          !.got = {}, !.state = "closed"]
<1>1. /\ history \in Seq(AllTopics) /\ Len(history) \in Nat
      /\ sequence \in Nat /\ sequence = Len(history)
      /\ client \in [Clients -> Client] /\ b \in Client
  BY DEF IInv, Browsers, StateOK, Refetch
<1>2. /\ client' = [client EXCEPT ![k] = n]
      /\ UNCHANGED <<history, rows, phase, previous, hubVars>>
  BY <1>1 DEF Refetch
<1>3. /\ n \in Client /\ n.base = sequence /\ n.lastEventId = sequence
      /\ n.got = {} /\ n.state = "closed"
  BY <1>1 DEF Client, ClientStates
<1> HIDE DEF n
<1>4. OwedOf(history, n.topic, sequence, sequence) = {} BY <1>1, OwedNothing
<1>5. sequence \in n.lastEventId..Len(history) BY <1>1, <1>3
<1>6. BrowserOK(history, phase, sequence, n)
  BY <1>1, <1>3, <1>4, <1>5 DEF BrowserOK
<1> QED BY <1>2, <1>6, OneBrowser

LEMMA CrashIInv ==
  ASSUME IInv, Crash
  PROVE  IInv'
<1>1. /\ StateOK /\ Table(history, rows) /\ Browsers /\ history \in Seq(AllTopics)
      /\ Len(history) \in Nat
  BY DEF IInv, StateOK
<1>2. /\ phase' = "down" /\ previous' = 0 /\ sequence' = 0
      /\ eventsByTopic' = [t \in AllTopics |-> {}] /\ retainedEvents' = {}
      /\ droppedThrough' = [t \in AllTopics |-> 0] /\ globalDroppedThrough' = 0
      /\ history' = history /\ rows' = rows
  BY DEF Crash
<1>3. StateOK' BY <1>1, <1>2 DEF StateOK, Phases
<1>4. Table(history, rows)' BY <1>1, <1>2
<1>5. HubOK'
  <2>1. Fed' = {} /\ Top' = 0 BY <1>2 DEF Fed, Top
  <2> QED BY <2>1, <1>2, EmptyWindow DEF HubOK
<1>6. Browsers'
  <2>1. PICK last \in [Clients -> 0..Len(history)] :
          /\ \A k \in Clients : last[k] \in LastReceived(k)
          /\ client' = [k \in Clients |->
                          IF client[k].state = "closed" THEN client[k]
                                                        ELSE Broken(k, last[k])]
    BY DEF Crash
  <2>2. ASSUME NEW k \in Clients PROVE BrowserOK(history, "down", 0, client'[k])
    <3>1. BrowserOK(history, phase, sequence, client[k]) BY <1>1 DEF Browsers
    <3>2. CASE client[k].state = "closed"
      <4>1. client'[k] = client[k] BY <3>2, <2>1
      <4> QED BY <4>1, <3>1, <3>2, BrowserApart
    <3>3. CASE client[k].state # "closed"
      <4>1. client'[k] = Broken(k, last[k]) BY <3>3, <2>1
      <4>2. last[k] \in LastReceived(k) BY <2>1
      <4> QED BY <4>1, <4>2, <3>1, <1>1, BrowserBreaks
    <3> QED BY <3>2, <3>3
  <2>3. \A k \in Clients : client'[k] \in Client BY <2>2 DEF BrowserOK
  <2>4. client' \in [Clients -> Client] BY <2>1, <2>3
  <2> QED BY <2>2, <2>4, <1>2 DEF Browsers
<1> QED BY <1>3, <1>4, <1>5, <1>6 DEF IInv, HubOK

(* No browser is connected while the server is down or restoring, so these *)
(* phases may change the sequence under the browsers.                      *)
LEMMA BrowsersApart ==
  ASSUME IInv, phase \in {"down", "restoring"}, UNCHANGED <<history, client>>
  PROVE  Browsers'
<1>1. Browsers /\ phase \notin {"serving", "committing"} BY DEF IInv
<1>2. \A k \in Clients : BrowserOK(history, phase', sequence', client[k])
  BY <1>1, BrowserApart DEF Browsers
<1> QED BY <1>1, <1>2 DEF Browsers

LEMMA RestartIInv ==
  ASSUME IInv, Restart
  PROVE  IInv'
<1>1. /\ StateOK /\ Table(history, rows) /\ HubOK
      /\ phase = "down" /\ phase' = "restoring"
      /\ UNCHANGED <<history, rows, previous, hubVars, client>>
  BY DEF IInv, HubOK, Restart
<1>2. StateOK' BY <1>1 DEF StateOK, hubVars, Phases
<1>3. Table(history, rows)' BY <1>1
<1>4. HubOK'
  <2>1. Fed = {} /\ Top = 0 BY <1>1 DEF Fed, Top
  <2>2. previous = 0 /\ rows \subseteq 1..Len(history) BY <1>1 DEF StateOK, Table
  <2>3. Fed' = {} /\ Top' = 0
    <3>1. Top' = 0 /\ Fed' = {c \in rows : c <= 0} BY <1>1, <2>2 DEF Fed, Top
    <3>2. \A c \in rows : ~(c <= 0) BY <2>2
    <3> QED BY <3>1, <3>2
  <2> QED BY <2>1, <2>3, <1>1 DEF HubOK, hubVars
<1>5. Browsers' BY <1>1, BrowsersApart
<1> QED BY <1>2, <1>3, <1>4, <1>5 DEF IInv, HubOK

LEMMA RestoreEventIInv ==
  ASSUME IInv, RestoreEvent
  PROVE  IInv'
<1> DEFINE c == Min(RowsLeft)
<1>1. /\ StateOK /\ Table(history, rows) /\ HubOK
      /\ history \in Seq(AllTopics) /\ Len(history) \in Nat
      /\ rows \subseteq 1..Len(history)
  BY DEF IInv, HubOK, StateOK, Table
<1>2. /\ phase = "restoring" /\ RowsLeft # {}
      /\ Retain(c, history[c]) /\ previous' = c
      /\ UNCHANGED <<history, rows, phase, sequence, client>>
  BY DEF RestoreEvent
<1>3. c \in RowsLeft /\ \A r \in RowsLeft : c <= r
  <2>1. RowsLeft \in SUBSET Nat
    <3>1. \A r \in RowsLeft : r \in 1..Len(history) BY <1>1 DEF RowsLeft
    <3> QED BY <3>1, <1>1
  <2> QED BY <2>1, <1>2, MinFacts
<1> HIDE DEF c
<1>4. c \in rows /\ c \in 1..Len(history) /\ c > previous BY <1>1, <1>3 DEF RowsLeft
<1>5. previous \in Nat /\ previous <= Len(history)
  <2>1. \A r \in rows : r \in Nat /\ r <= Len(history) BY <1>1
  <2> QED BY <2>1, <1>1 DEF StateOK
<1>6. StateOK' BY <1>1, <1>2, <1>4 DEF StateOK
<1>7. Table(history, rows)' BY <1>1, <1>2
<1>8. HubOK'
  <2>1. Fed = {d \in rows : d <= previous} /\ Top = previous BY <1>2 DEF Fed, Top
  <2>2. Fed' = {d \in rows : d <= c} /\ Top' = c BY <1>2 DEF Fed, Top
  <2>3. Fed' = Fed \cup {c}
    <3>1. ASSUME NEW d \in rows PROVE d <= c <=> (d <= previous \/ d = c)
      <4>1. d \in Nat /\ c \in Nat BY <1>1, <1>4
      <4>2. d > previous => c <= d BY <1>3 DEF RowsLeft
      <4> QED BY <4>1, <4>2, <1>4, <1>5
    <3> QED BY <3>1, <2>1, <2>2, <1>4
  <2>4. Window(history, eventsByTopic', retainedEvents', droppedThrough',
               globalDroppedThrough', Fed \cup {c}, c)
    <3>1. Window(history, eventsByTopic, retainedEvents, droppedThrough,
                 globalDroppedThrough, Fed, previous)
      BY <2>1, <1>1 DEF HubOK
    <3>2. previous < c BY <1>4, <1>5
    <3> QED BY <3>1, <3>2, <1>1, <1>2, <1>4, <1>5, RetainKeepsWindow
  <2> QED BY <2>2, <2>3, <2>4, <1>2 DEF HubOK
<1>9. Browsers' BY <1>2, BrowsersApart
<1> QED BY <1>6, <1>7, <1>8, <1>9 DEF IInv, HubOK

(* When restore() ends, the sequence is the length of the durable history  *)
(* and the window is sound for all of it.                                  *)
LEMMA RestoreDoneFacts ==
  ASSUME IInv, RestoreDone
  PROVE  /\ sequence' = Len(history) /\ previous = Len(history)
         /\ Window(history, eventsByTopic, retainedEvents, droppedThrough',
                   globalDroppedThrough', 1..previous, previous)
<1>1. /\ StateOK /\ Table(history, rows) /\ HubOK /\ history \in Seq(AllTopics)
      /\ rows \subseteq 1..Len(history) /\ previous \in {0} \cup rows
  BY DEF IInv, HubOK, StateOK, Table
<1>2. /\ phase = "restoring" /\ RowsLeft = {} /\ sequence' = previous
      /\ globalDroppedThrough' = Max({globalDroppedThrough, Before(rows)})
      /\ droppedThrough' =
           [t \in AllTopics |-> Max({droppedThrough[t], Before(eventsByTopic[t])})]
  BY DEF RestoreDone
<1>3. \A r \in rows : r <= previous
  <2>1. \A r \in rows : r \in Nat /\ previous \in Nat BY <1>1
  <2>2. \A r \in rows : ~(r > previous) BY <1>2 DEF RowsLeft
  <2> QED BY <2>1, <2>2
<1>4. Window(history, eventsByTopic, retainedEvents, droppedThrough,
             globalDroppedThrough, rows, previous)
  <2>1. Fed = rows /\ Top = previous BY <1>2, <1>3 DEF Fed, Top
  <2> QED BY <2>1, <1>1 DEF HubOK
<1>5. /\ previous = Len(history)
      /\ Window(history, eventsByTopic, retainedEvents, droppedThrough',
                globalDroppedThrough', 1..previous, previous)
  BY <1>1, <1>2, <1>3, <1>4, RestoreCompletesWindow
<1> QED BY <1>2, <1>5

LEMMA RestoreDoneIInv ==
  ASSUME IInv, RestoreDone
  PROVE  IInv'
<1>1. /\ StateOK /\ Table(history, rows) /\ history \in Seq(AllTopics)
      /\ Len(history) \in Nat
  BY DEF IInv, StateOK
<1>2. /\ phase = "restoring" /\ phase' = "serving" /\ previous' = 0
      /\ UNCHANGED <<history, rows, eventsByTopic, retainedEvents, client>>
  BY DEF RestoreDone
<1>3. /\ sequence' = Len(history) /\ previous = Len(history)
      /\ Window(history, eventsByTopic, retainedEvents, droppedThrough',
                globalDroppedThrough', 1..previous, previous)
  BY RestoreDoneFacts
<1>4. StateOK' BY <1>1, <1>2, <1>3 DEF StateOK, Phases
<1>5. Table(history, rows)' BY <1>1, <1>2
<1>6. HubOK'
  <2>1. Fed' = 1..previous /\ Top' = previous BY <1>2, <1>3 DEF Fed, Top
  <2> QED BY <2>1, <1>2, <1>3 DEF HubOK
<1>7. Browsers' BY <1>2, BrowsersApart
<1> QED BY <1>4, <1>5, <1>6, <1>7 DEF IInv, HubOK

LEMMA NextIInv == IInv /\ [Next]_vars => IInv'
<1> SUFFICES ASSUME IInv, [Next]_vars PROVE IInv' OBVIOUS
<1>1. ASSUME NEW batch \in Batches, PersistBatch(batch) PROVE IInv'
  BY <1>1, PersistBatchIInv
<1>2. CASE CommitEvent BY <1>2, CommitEventIInv
<1>3. ASSUME NEW k \in Clients, Connect(k) PROVE IInv' BY <1>3, ConnectIInv
<1>4. ASSUME NEW k \in Clients, Disconnect(k) PROVE IInv' BY <1>4, DisconnectIInv
<1>5. ASSUME NEW k \in Clients, Refetch(k) PROVE IInv' BY <1>5, RefetchIInv
<1>6. CASE Crash BY <1>6, CrashIInv
<1>7. CASE Restart BY <1>7, RestartIInv
<1>8. CASE RestoreEvent BY <1>8, RestoreEventIInv
<1>9. CASE RestoreDone BY <1>9, RestoreDoneIInv
<1>10. CASE UNCHANGED vars
  <2>1. UNCHANGED <<history, rows, phase, previous, hubVars>> /\ client' = client
    BY <1>10 DEF vars
  <2>2. Browsers' BY <2>1 DEF IInv, Browsers, hubVars
  <2> QED BY <2>1, <2>2, OnlyBrowsers
<1> QED BY <1>1, <1>2, <1>3, <1>4, <1>5, <1>6, <1>7, <1>8, <1>9, <1>10 DEF Next

(* The invariant holds in every reachable state, for all constants.        *)
THEOREM Invariance == Spec => []IInv
<1>1. Init => IInv BY InitIInv
<1>2. IInv /\ [Next]_vars => IInv' BY NextIInv
<1> QED BY <1>1, <1>2, PTL DEF Spec

-----------------------------------------------------------------------------
(* What follows from the invariant.                                        *)

(* Every variable has its type: every cursor, mark and table row is the    *)
(* cursor of a durable event.                                              *)
THEOREM TypeCorrect == Spec => []TypeOK
<1>1. IInv => TypeOK
  <2> SUFFICES ASSUME IInv PROVE TypeOK OBVIOUS
  <2>1. /\ StateOK /\ Table(history, rows) /\ HubOK
        /\ client \in [Clients -> Client]
        /\ Len(history) \in Nat /\ rows \subseteq 1..Len(history)
    BY DEF IInv, HubOK, Browsers, StateOK, Table
  <2>2. Top \in 0..Len(history) BY <2>1, TopInHistory
  <2> DEFINE n == Len(history)
             top == Top
  <2> HIDE DEF n, top
  <2>3. n \in Nat /\ top \in 0..n BY <2>1, <2>2 DEF n, top
  <2>4. Fed \subseteq 1..n
    <3>1. Fed \subseteq 1..top BY <2>1 DEF HubOK, Window, top
    <3>2. 1..top \subseteq 1..n BY <2>3
    <3> QED BY <3>1, <3>2
  <2>5. /\ eventsByTopic \in [AllTopics -> SUBSET Fed]
        /\ retainedEvents = UNION {eventsByTopic[x] : x \in AllTopics}
        /\ droppedThrough \in [AllTopics -> 0..top]
        /\ globalDroppedThrough \in 0..top
    BY <2>1 DEF HubOK, Window, top
  <2>6. eventsByTopic \in [AllTopics -> SUBSET (1..n)] BY <2>4, <2>5
  <2>7. retainedEvents \subseteq 1..n BY <2>5, <2>6
  <2>8. droppedThrough \in [AllTopics -> 0..n] /\ globalDroppedThrough \in 0..n
    <3>1. 0..top \subseteq 0..n BY <2>3
    <3> QED BY <3>1, <2>5
  <2>9. previous \in 0..n
    <3>1. \A r \in rows : r \in 0..n BY <2>1, <2>3 DEF n
    <3> QED BY <3>1, <2>1, <2>3 DEF StateOK
  <2> QED BY <2>1, <2>6, <2>7, <2>8, <2>9 DEF TypeOK, StateOK, n
<1> QED BY <1>1, Invariance, PTL

(* No browser of any topic ever has a silent gap, however events are       *)
(* batched, trimmed, lost in transport or reloaded after a crash.          *)
THEOREM NoGap == Spec => []NoSilentGap
<1>1. IInv => NoSilentGap
  <2> SUFFICES ASSUME IInv, NEW k \in Clients
               PROVE  LET b == client[k] IN
                      /\ b.state = "live" => b.got = Owed(b.topic, b.base, sequence)
                      /\ b.state = "closed" => b.got = Owed(b.topic, b.base, b.lastEventId)
    BY DEF NoSilentGap
  <2>1. BrowserOK(history, phase, sequence, client[k]) BY DEF IInv, Browsers
  <2>2. \A t, a, m : Owed(t, a, m) = OwedOf(history, t, a, m)
    BY DEF Owed, OwedOf, Concerns
  <2> QED BY <2>1, <2>2 DEF BrowserOK
<1> QED BY <1>1, Invariance, PTL

(* The answer to every accepted cursor is exactly the later events of the  *)
(* topic and the later resets.                                             *)
THEOREM ExactReplay == Spec => []ReplayExact
<1>1. IInv => ReplayExact
  <2> SUFFICES ASSUME IInv, phase \in {"serving", "committing"}, NEW t \in Topics,
                      NEW after \in 0..sequence, Replayable(after, t)
               PROVE  Replay(after, t) = Owed(t, after, sequence)
    BY DEF ReplayExact
  <2>1. /\ history \in Seq(AllTopics) /\ sequence \in 0..Len(history)
        /\ Window(history, eventsByTopic, retainedEvents, droppedThrough,
                  globalDroppedThrough, Fed, Top)
    BY DEF IInv, StateOK
  <2>2. Fed = 1..sequence /\ Top = sequence BY DEF Fed, Top
  <2>3. after \in Nat OBVIOUS
  <2>4. Replay(after, t) = OwedOf(history, t, after, sequence)
    BY <2>1, <2>2, <2>3, ReplayIsOwed
  <2> QED BY <2>4 DEF Owed, OwedOf, Concerns
<1> QED BY <1>1, Invariance, PTL

(* The two indices of the window never disagree, so the throws of          *)
(* #trimGlobalReplay are unreachable.                                      *)
THEOREM Accounting == Spec => []ReplayAccounting
<1>1. IInv => ReplayAccounting BY DEF IInv, Window, ReplayAccounting
<1> QED BY <1>1, Invariance, PTL

(* A restart resumes the cursor sequence where the durable log ends.       *)
THEOREM ResumesLog == Spec => RestartResumesLog
<1>1. IInv /\ [Next]_vars =>
        [phase = "restoring" /\ phase' = "serving" => sequence' = Len(history)]_vars
  <2> SUFFICES ASSUME IInv, Next, phase = "restoring", phase' = "serving"
               PROVE  sequence' = Len(history)
    OBVIOUS
  <2>1. RestoreDone
    BY DEF Next, PersistBatch, CommitEvent, Connect, Disconnect, Refetch, Crash,
           Restart, RestoreEvent
  <2> QED BY <2>1, RestoreDoneFacts
<1> QED BY <1>1, Invariance, PTL DEF Spec, RestartResumesLog
=============================================================================
