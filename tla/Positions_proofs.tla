-------------------------- MODULE Positions_proofs --------------------------
(***************************************************************************)
(* Proofs about a wallet's positions.  Of FullExit: its safety, for any    *)
(* tabs, bins, capacity of a transaction and depth of finality.  Of        *)
(* WalletPositions: that permits are exact and answers of the head they    *)
(* are given for, for any queries, owners, heads and limits.               *)
(***************************************************************************)
EXTENDS FullExit, WalletPositions, FiniteSetTheorems, SequenceTheorems, TLAPS

-----------------------------------------------------------------------------
(* The planner.                                                            *)

(* A list of candidates is the numbers 1..n, in order, none twice.         *)
Covers(all, n) ==
  /\ all = <<>> <=> n = 0
  /\ all # <<>> => all[1].lo = 1 /\ all[Len(all)].hi = n
  /\ \A i \in DOMAIN all : all[i].lo <= all[i].hi
  /\ \A i \in 1..(Len(all) - 1) : all[i + 1].lo = all[i].hi + 1

(* The chunks of n bins are the bins, in order.                            *)
LEMMA ChunksCover ==
  ASSUME NEW n \in Nat
  PROVE  Chunks(n) \in Seq(Candidate) /\ Covers(Chunks(n), n)
  <1> DEFINE M == MaxCandidate
             k == (n + M - 1) \div M
             all == Chunks(n)
  <1>0. M \in Nat \ {0}  BY ExitAssumption DEF ExitAssumption
  <1>1. k \in Nat /\ k * M <= n + M - 1 /\ n + M - 1 < k * M + M
    <2>1. \A a \in Nat, b \in Nat \ {0} : a \div b \in Nat /\ (a \div b) * b <= a /\ a < (a \div b) * b + b
      OBVIOUS
    <2> QED  BY <1>0, <2>1
  <1>2. k * M >= n /\ (k - 1) * M < n
    BY <1>0, <1>1
  <1>3. \A i \in 1..k : (i - 1) * M \in Nat /\ (i - 1) * M < n /\ i * M = (i - 1) * M + M
    <2> SUFFICES ASSUME NEW i \in 1..k
                 PROVE (i - 1) * M \in Nat /\ (i - 1) * M < n /\ i * M = (i - 1) * M + M
      OBVIOUS
    <2>1. (i - 1) * M \in Nat /\ i * M = (i - 1) * M + M  BY <1>0, <1>1
    <2>2. \A a, b \in Nat : a <= b => a * M <= b * M  BY <1>0
    <2>3. (i - 1) * M <= (k - 1) * M  BY <1>1, <2>2
    <2> QED  BY <1>0, <1>1, <1>2, <2>1, <2>3
  <1>4. \A i \in 1..k : i < k => i * M < n
    <2> SUFFICES ASSUME NEW i \in 1..k, i < k PROVE i * M < n  OBVIOUS
    <2>1. i + 1 \in 1..k /\ (i + 1) - 1 = i  BY <1>1
    <2> QED  BY <1>3, <2>1
  <1> DEFINE lo(i) == (i - 1) * M + 1
             hi(i) == IF i * M < n THEN i * M ELSE n
  <1>5. /\ all = [i \in 1..k |-> [lo |-> lo(i), hi |-> hi(i)]]
        /\ \A i \in 1..k : lo(i) \in Nat /\ hi(i) \in Nat /\ lo(i) <= hi(i)
        /\ lo(1) = 1
        /\ \A i \in 1..k : i < k => hi(i) = i * M /\ lo(i + 1) = i * M + 1
        /\ ~(k * M < n) => hi(k) = n
    <2>1. all = [i \in 1..k |-> [lo |-> lo(i), hi |-> hi(i)]]  BY DEF Chunks
    <2>2. \A i \in 1..k : lo(i) \in Nat /\ hi(i) \in Nat /\ lo(i) <= hi(i)
      BY <1>0, <1>3
    <2>3. lo(1) = 1  BY <1>0
    <2>4. \A i \in 1..k : i < k => hi(i) = i * M  BY <1>4
    <2>5. \A i \in 1..k : lo(i + 1) = i * M + 1
      <3> SUFFICES ASSUME NEW i \in 1..k PROVE lo(i + 1) = i * M + 1  OBVIOUS
      <3>1. (i + 1) - 1 = i  BY <1>1
      <3> QED  BY <3>1
    <2> QED  BY <2>1, <2>2, <2>3, <2>4, <2>5
  <1> HIDE DEF lo, hi
  <1>6. /\ DOMAIN all = 1..k
        /\ \A i \in 1..k : /\ all[i] \in Candidate /\ all[i].lo = lo(i) /\ all[i].hi = hi(i)
                           /\ all[i].lo <= all[i].hi
    <2>1. \A i \in 1..k : all[i] = [lo |-> lo(i), hi |-> hi(i)]  BY <1>5
    <2> QED  BY <1>5, <2>1 DEF Candidate
  <1>7. all \in Seq(Candidate) /\ Len(all) = k
    <2>1. all \in [1..k -> Candidate]  BY <1>5, <1>6
    <2> QED  BY <1>1, <1>6, <2>1
  <1>8. all = <<>> <=> n = 0
    <2>1. n = 0 => k = 0  BY <1>0, <1>1, <1>2
    <2>2. n > 0 => k > 0  BY <1>0, <1>1, <1>2
    <2> QED  BY <1>1, <1>7, <2>1, <2>2
  <1>9. n > 0 => all[1].lo = 1 /\ all[k].hi = n
    <2> SUFFICES ASSUME n > 0 PROVE all[1].lo = 1 /\ all[k].hi = n  OBVIOUS
    <2>1. k \in 1..k /\ 1 \in 1..k  BY <1>1, <1>7, <1>8
    <2>2. ~(k * M < n)  BY <1>0, <1>1, <1>2
    <2> QED  BY <1>5, <1>6, <2>1, <2>2
  <1>10. \A i \in 1..(k - 1) : all[i + 1].lo = all[i].hi + 1
    <2> SUFFICES ASSUME NEW i \in 1..(k - 1) PROVE all[i + 1].lo = all[i].hi + 1  OBVIOUS
    <2>1. i \in 1..k /\ i + 1 \in 1..k /\ i < k  BY <1>1
    <2>2. hi(i) = i * M /\ lo(i + 1) = i * M + 1  BY <1>5, <2>1
    <2>3. all[i + 1].lo = lo(i + 1) /\ all[i].hi = hi(i)  BY <1>6, <2>1
    <2> QED  BY <2>2, <2>3
  <1> QED  BY <1>1, <1>6, <1>7, <1>8, <1>9, <1>10 DEF Covers

(* A candidate that moves to the batches leaves the list as it was.        *)
LEMMA MovedSame ==
  ASSUME NEW B \in Seq(Candidate), NEW W \in Seq(Candidate), W # <<>>
  PROVE  /\ Append(B, Head(W)) \in Seq(Candidate) /\ Tail(W) \in Seq(Candidate)
         /\ Head(W) \in Candidate
         /\ Append(B, Head(W)) \o Tail(W) = B \o W
  <1>1. Head(W) \in Candidate /\ Tail(W) \in Seq(Candidate)  OBVIOUS
  <1>2. Append(B, Head(W)) \in Seq(Candidate)  BY <1>1
  <1> DEFINE L == Append(B, Head(W)) \o Tail(W)
             R == B \o W
  <1>3. L \in Seq(Candidate) /\ R \in Seq(Candidate) /\ Len(L) = Len(R)  BY <1>1, <1>2
  <1>4. \A i \in 1..Len(R) : L[i] = R[i]  BY <1>1
  <1> QED  BY <1>1, <1>2, <1>3, <1>4

(* Two candidates in place of one cover what it covered.                   *)
LEMMA SplitCovers ==
  ASSUME NEW A \in Seq(Candidate), NEW N \in Seq(Candidate), NEW n \in Nat,
         NEW p \in 1..Len(A), NEW h1 \in Candidate, NEW h2 \in Candidate,
         Covers(A, n), Len(N) = Len(A) + 1,
         \A i \in 1..(p - 1) : N[i] = A[i],
         N[p] = h1, N[p + 1] = h2,
         \A i \in (p + 2)..Len(N) : N[i] = A[i - 1],
         h1.lo = A[p].lo, h1.lo <= h1.hi, h2.lo = h1.hi + 1, h2.lo <= h2.hi, h2.hi = A[p].hi
  PROVE  Covers(N, n)
  <1>1. /\ A # <<>> /\ n # 0 /\ A[1].lo = 1 /\ A[Len(A)].hi = n
        /\ \A i \in 1..Len(A) : A[i].lo <= A[i].hi
        /\ \A i \in 1..(Len(A) - 1) : A[i + 1].lo = A[i].hi + 1
    <2>1. A # <<>> /\ DOMAIN A = 1..Len(A)  OBVIOUS
    <2> QED  BY <2>1 DEF Covers
  <1>2. DOMAIN N = 1..Len(N) /\ N # <<>>  OBVIOUS
  <1>3. N[1].lo = 1
    <2>1. CASE p = 1  BY <1>1, <2>1
    <2>2. CASE p > 1  BY <1>1, <2>2
    <2> QED  BY <2>1, <2>2
  <1>4. N[Len(N)].hi = n
    <2>1. CASE p = Len(A)  BY <1>1, <2>1
    <2>2. CASE p < Len(A)
      <3>1. Len(N) \in (p + 2)..Len(N) /\ Len(N) - 1 = Len(A)  BY <2>2
      <3> QED  BY <1>1, <3>1
    <2> QED  BY <2>1, <2>2
  <1>5. ASSUME NEW i \in 1..Len(N) PROVE N[i].lo <= N[i].hi
    <2>1. CASE i < p
      <3>1. i \in 1..(p - 1) /\ i \in 1..Len(A)  BY <2>1
      <3> QED  BY <1>1, <3>1
    <2>2. CASE i = p \/ i = p + 1  BY <2>2
    <2>3. CASE i > p + 1
      <3>1. i \in (p + 2)..Len(N) /\ i - 1 \in 1..Len(A)  BY <2>3
      <3> QED  BY <1>1, <3>1
    <2> QED  BY <2>1, <2>2, <2>3
  <1>6. ASSUME NEW i \in 1..(Len(N) - 1) PROVE N[i + 1].lo = N[i].hi + 1
    <2>1. CASE i + 1 < p
      <3>1. i \in 1..(p - 1) /\ i + 1 \in 1..(p - 1) /\ i \in 1..(Len(A) - 1)  BY <2>1
      <3> QED  BY <1>1, <3>1
    <2>2. CASE i + 1 = p
      <3>1. i \in 1..(p - 1) /\ i \in 1..(Len(A) - 1)  BY <2>2
      <3>2. N[i] = A[i] /\ A[p].lo = A[i].hi + 1  BY <1>1, <2>2, <3>1
      <3> QED  BY <2>2, <3>2
    <2>3. CASE i = p  BY <2>3
    <2>4. CASE i = p + 1
      <3>1. i + 1 \in (p + 2)..Len(N) /\ p \in 1..(Len(A) - 1) /\ (i + 1) - 1 = p + 1  BY <2>4
      <3>2. N[i + 1] = A[p + 1] /\ A[p + 1].lo = A[p].hi + 1  BY <1>1, <3>1
      <3> QED  BY <2>4, <3>2
    <2>5. CASE i > p + 1
      <3>1. /\ i \in (p + 2)..Len(N) /\ i + 1 \in (p + 2)..Len(N)
            /\ i - 1 \in 1..(Len(A) - 1) /\ (i + 1) - 1 = (i - 1) + 1
        BY <2>5
      <3>2. N[i] = A[i - 1] /\ N[i + 1] = A[(i - 1) + 1]  BY <3>1
      <3> QED  BY <1>1, <3>1, <3>2
    <2> QED  BY <2>1, <2>2, <2>3, <2>4, <2>5
  <1> QED  BY <1>1, <1>2, <1>3, <1>4, <1>5, <1>6 DEF Covers

(* A candidate of two bins or more is replaced by its halves.              *)
LEMMA HalvesCover ==
  ASSUME NEW B \in Seq(Candidate), NEW W \in Seq(Candidate), W # <<>>,
         NEW n \in Nat, Covers(B \o W, n), ~Fits(Head(W))
  PROVE  /\ Halves(Head(W)) \o Tail(W) \in Seq(Candidate)
         /\ Covers(B \o (Halves(Head(W)) \o Tail(W)), n)
  <1> DEFINE r == Head(W)
             mid == r.lo + (r.hi - r.lo) \div 2
             h1 == [lo |-> r.lo, hi |-> mid]
             h2 == [lo |-> mid + 1, hi |-> r.hi]
             H == Halves(r) \o Tail(W)
             A == B \o W
             N == B \o H
             p == Len(B) + 1
  <1>1. r \in Candidate /\ Tail(W) \in Seq(Candidate) /\ Len(Tail(W)) = Len(W) - 1  OBVIOUS
  <1>2. r.lo \in Nat /\ r.hi \in Nat /\ r.lo < r.hi
    BY <1>1, ExitAssumption DEF ExitAssumption, Fits, Candidate
  <1>3. mid \in Nat /\ r.lo <= mid /\ mid < r.hi
    BY <1>2
  <1>4. Halves(r) = <<h1, h2>>  BY DEF Halves
  <1> HIDE DEF mid
  <1>5. h1 \in Candidate /\ h2 \in Candidate  BY <1>2, <1>3 DEF Candidate
  <1> DEFINE P == <<h1, h2>>
             T == Tail(W)
  <1>6. P \in Seq(Candidate) /\ Len(P) = 2 /\ P[1] = h1 /\ P[2] = h2  BY <1>5
  <1>7. H = P \o T  BY <1>4
  <1>8. T \in Seq(Candidate) /\ Len(T) = Len(W) - 1 /\ \A i \in 1..Len(T) : T[i] = W[i + 1]
    BY HeadTailProperties
  <1>9. Len(W) \in Nat \ {0} /\ W[1] = r /\ Len(B) \in Nat  OBVIOUS
  <1> HIDE DEF H, T, P, h1, h2, r
  <1>10. /\ H \in Seq(Candidate) /\ Len(H) = Len(W) + 1
         /\ H[1] = h1 /\ H[2] = h2
         /\ \A i \in 3..Len(H) : H[i] = W[i - 1]
    <2>1. /\ P \o T \in Seq(Candidate) /\ Len(P \o T) = 2 + Len(T)
          /\ \A i \in 1..(2 + Len(T)) : (P \o T)[i] = IF i <= 2 THEN P[i] ELSE T[i - 2]
      <3>1. /\ P \o T \in Seq(Candidate) /\ Len(P \o T) = Len(P) + Len(T)
            /\ \A i \in 1..Len(P) + Len(T) : (P \o T)[i] = IF i <= Len(P) THEN P[i] ELSE T[i - Len(P)]
        BY <1>6, <1>8, ConcatProperties
      <3> QED  BY <1>6, <3>1
    <2>2. Len(H) = Len(W) + 1  BY <1>7, <1>8, <1>9, <2>1
    <2>3. H[1] = P[1] /\ H[2] = P[2]  BY <1>7, <1>8, <1>9, <2>1
    <2>4. ASSUME NEW i \in 3..Len(H) PROVE H[i] = W[i - 1]
      <3>1. H[i] = T[i - 2]  BY <1>7, <1>8, <1>9, <2>1, <2>2
      <3>2. i - 2 \in 1..Len(T) /\ (i - 2) + 1 = i - 1  BY <1>8, <1>9, <2>2
      <3> QED  BY <1>8, <3>1, <3>2
    <2> QED  BY <1>6, <1>7, <2>1, <2>2, <2>3, <2>4
  <1>11. /\ A \in Seq(Candidate) /\ Len(A) = Len(B) + Len(W)
         /\ \A i \in 1..Len(A) : A[i] = IF i <= Len(B) THEN B[i] ELSE W[i - Len(B)]
    BY ConcatProperties
  <1>12. /\ N \in Seq(Candidate) /\ Len(N) = Len(B) + Len(H)
         /\ \A i \in 1..Len(N) : N[i] = IF i <= Len(B) THEN B[i] ELSE H[i - Len(B)]
    <2>1. /\ B \o H \in Seq(Candidate) /\ Len(B \o H) = Len(B) + Len(H)
          /\ \A i \in 1..Len(B) + Len(H) : (B \o H)[i] = IF i <= Len(B) THEN B[i] ELSE H[i - Len(B)]
      BY <1>10, ConcatProperties
    <2> QED  BY <2>1
  <1> HIDE DEF A, N
  <1>13. Len(N) = Len(A) + 1 /\ p \in 1..Len(A) /\ A[p] = r
    BY <1>9, <1>10, <1>11, <1>12
  <1>14. /\ \A i \in 1..(p - 1) : N[i] = A[i]
         /\ N[p] = h1 /\ N[p + 1] = h2
         /\ \A i \in (p + 2)..Len(N) : N[i] = A[i - 1]
    <2>1. ASSUME NEW i \in 1..(p - 1) PROVE N[i] = A[i]
      <3>1. i \in 1..Len(A) /\ i \in 1..Len(N) /\ i <= Len(B)
        <4>1. i \in 1..Len(B)  BY <1>9
        <4>2. Len(A) \in Nat /\ Len(N) \in Nat /\ Len(B) < Len(A) /\ Len(B) < Len(N)
          BY <1>9, <1>11, <1>13
        <4> QED  BY <1>9, <4>1, <4>2
      <3>2. N[i] = B[i]  BY <1>12, <3>1
      <3>3. A[i] = B[i]  BY <1>11, <3>1
      <3> QED  BY <3>2, <3>3
    <2>2. N[p] = H[1] /\ N[p + 1] = H[2]
      <3>1. /\ p \in 1..Len(N) /\ p + 1 \in 1..Len(N) /\ ~(p <= Len(B)) /\ ~(p + 1 <= Len(B))
            /\ p - Len(B) = 1 /\ (p + 1) - Len(B) = 2
        BY <1>9, <1>10, <1>12
      <3> HIDE DEF p
      <3> QED  BY <1>12, <3>1
    <2>3. ASSUME NEW i \in (p + 2)..Len(N) PROVE N[i] = A[i - 1]
      <3>1. N[i] = H[i - Len(B)] /\ A[i - 1] = W[i - 1 - Len(B)]
        <4>1. /\ i \in 1..Len(N) /\ i - 1 \in 1..Len(A) /\ ~(i <= Len(B)) /\ ~(i - 1 <= Len(B))
          BY <1>9, <1>10, <1>11, <1>12, <1>13
        <4> HIDE DEF p
        <4> QED  BY <1>11, <1>12, <4>1
      <3>2. i - Len(B) \in 3..Len(H) /\ i - Len(B) - 1 = i - 1 - Len(B)
        BY <1>9, <1>10, <1>12
      <3> QED  BY <1>10, <3>1, <3>2
    <2> QED  BY <1>10, <2>1, <2>2, <2>3
  <1>15. Covers(A, n)  BY DEF A
  <1>16. h1.lo = r.lo /\ h1.hi = mid /\ h2.lo = mid + 1 /\ h2.hi = r.hi  BY DEF h1, h2
  <1> HIDE DEF p
  <1>17. h1.lo <= h1.hi /\ h2.lo = h1.hi + 1 /\ h2.lo <= h2.hi  BY <1>2, <1>3, <1>16
  <1>18. Covers(N, n)
    BY <1>5, <1>11, <1>12, <1>13, <1>14, <1>15, <1>16, <1>17, SplitCovers
  <1> QED  BY <1>10, <1>18 DEF H, N, r

-----------------------------------------------------------------------------
(* The invariant.  It is inductive because a record that a run of the      *)
(* handler stands for is "awaiting" until that run says what became of it. *)
PlanOf(run) ==
  /\ Covers(run.batches \o run.work, Cardinality(run.bins))
  /\ \A i \in DOMAIN run.batches : Fits(run.batches[i])

EnvironmentOK ==
  /\ chain \in Seq(BlockState) /\ chain # <<>>
  /\ indexed \in Seq(BlockState) /\ indexed # <<>>
  /\ moves \in 0..MaxMoves /\ faults \in 0..MaxFaults

Exclusive == \A t, u \in Tabs : Run(t).pc # "idle" /\ Run(u).pc # "idle" => t = u
OneBlocks == \A r, q \in DOMAIN records : Blocks(records[r]) /\ Blocks(records[q]) => r = q

RunOK(t) ==
  /\ Run(t).pc \in {"review", "begin", "guard", "wallet"} => Review(t) # None
  /\ Run(t).pc \in {"guard", "wallet"} =>
       Run(t).record \in DOMAIN records /\ records[Run(t).record].status = "awaiting"
  /\ Run(t).pc \in {"positions", "balances", "probe"} => Run(t).pin.number # 0
  /\ Run(t).pc \in {"snapshot", "positions", "balances"} => Run(t).batches = <<>>
  /\ At(t, "probe") => PlanOf(Run(t))

IInv ==
  /\ EnvironmentOK
  /\ records \in Seq(Record)
  /\ tabs \in [Tabs -> TabState]
  /\ Exclusive /\ OneBlocks
  /\ \A t \in Tabs : RunOK(t)

LEMMA IInvImplies == IInv => TypeOK /\ OneAtATime /\ PlanCovers
  <1> SUFFICES ASSUME IInv PROVE TypeOK /\ OneAtATime /\ PlanCovers  OBVIOUS
  <1>1. TypeOK  BY DEF IInv, EnvironmentOK, RunOK, TypeOK
  <1>2. OneAtATime  BY DEF IInv, Exclusive, OneBlocks, OneAtATime
  <1>3. PlanCovers
    <2> SUFFICES ASSUME NEW t \in Tabs, At(t, "probe")
                 PROVE  LET all == Run(t).batches \o Run(t).work
                        IN /\ all = <<>> <=> Run(t).bins = {}
                           /\ all # <<>> => all[1].lo = 1 /\ all[Len(all)].hi = Cardinality(Run(t).bins)
                           /\ \A i \in DOMAIN all : all[i].lo <= all[i].hi
                           /\ \A i \in 1..(Len(all) - 1) : all[i + 1].lo = all[i].hi + 1
                           /\ \A i \in DOMAIN Run(t).batches : Fits(Run(t).batches[i])
      BY DEF PlanCovers
    <2>1. PlanOf(Run(t))  BY DEF IInv, RunOK
    <2>2. Run(t).bins \subseteq Bins  BY DEF IInv, Run, TabState, RunState
    <2>3. Cardinality(Run(t).bins) = 0 <=> Run(t).bins = {}
      BY <2>2, ExitAssumption, FS_Subset, FS_EmptySet DEF ExitAssumption
    <2> QED  BY <2>1, <2>3 DEF PlanOf, Covers
  <1> QED  BY <1>1, <1>2, <1>3

LEMMA NoRunType == NoRun \in RunState /\ NoRun.pc = "idle" /\ NoRun.batches = <<>>
  <1>1. <<>> \in Seq(Candidate)  OBVIOUS
  <1> QED  BY <1>1 DEF NoRun, NoPin, RunState, Pcs, Pin

LEMMA RunTypes ==
  ASSUME IInv, NEW t \in Tabs
  PROVE  /\ tabs[t] \in TabState /\ Run(t) \in RunState /\ Review(t) \in ReviewState \cup {None}
         /\ RunOK(t)
  BY DEF IInv, TabState, Run, Review

(* What a run may become: it starts only when none runs, it sends only     *)
(* what is shown, and it plans from the start.                             *)
Legal(t, run, review) ==
  /\ run.pc # "idle" => Run(t).pc # "idle" \/ ~Locked
  /\ run.pc \in {"review", "begin", "guard", "wallet"} => review # None
  /\ run.pc \in {"guard", "wallet"} =>
       run.record \in DOMAIN records' /\ records'[run.record].status = "awaiting"
  /\ run.pc \in {"positions", "balances", "probe"} => run.pin.number # 0
  /\ run.pc \in {"snapshot", "positions", "balances"} => run.batches = <<>>
  /\ run.pc = "probe" => PlanOf(run)

(* A step of one tab.  While it changes the journal no other tab runs.     *)
LEMMA OneTabStep ==
  ASSUME IInv, EnvironmentOK', records' \in Seq(Record), OneBlocks', NEW t \in Tabs,
         records' = records \/ Run(t).pc # "idle",
         NEW new \in TabState, tabs' = [tabs EXCEPT ![t] = new], Legal(t, new.run, new.review)
  PROVE  IInv'
  <1>1. tabs' \in [Tabs -> TabState] /\ tabs'[t] = new /\ \A u \in Tabs \ {t} : tabs'[u] = tabs[u]
    BY DEF IInv
  <1>2. Run(t)' = new.run /\ Review(t)' = new.review  BY <1>1 DEF Run, Review
  <1>3. \A u \in Tabs \ {t} : Run(u)' = Run(u) /\ Review(u)' = Review(u)  BY <1>1 DEF Run, Review
  <1>4. Exclusive'
    <2> SUFFICES ASSUME NEW u \in Tabs, NEW v \in Tabs, Run(u)'.pc # "idle", Run(v)'.pc # "idle"
                 PROVE  u = v
      BY DEF Exclusive
    <2>1. CASE u = t \/ v = t  BY <1>2, <1>3, <2>1 DEF Legal, Locked, IInv, Exclusive
    <2>2. CASE u # t /\ v # t  BY <1>3, <2>2 DEF IInv, Exclusive
    <2> QED  BY <2>1, <2>2
  <1>5. RunOK(t)'
    BY <1>2 DEF Legal, RunOK, At, PlanOf, Covers, Fits
  <1>6. ASSUME NEW u \in Tabs \ {t} PROVE RunOK(u)'
    <2>1. Run(u)' = Run(u) /\ Review(u)' = Review(u) /\ RunOK(u)  BY <1>3 DEF IInv
    <2>2. records' = records \/ Run(u).pc = "idle"  BY DEF IInv, Exclusive
    <2> QED  BY <2>1, <2>2 DEF RunOK, At, PlanOf, Covers, Fits
  <1> QED  BY <1>1, <1>4, <1>5, <1>6 DEF IInv

LEMMA TabStep ==
  ASSUME IInv, EnvironmentOK', records' \in Seq(Record), OneBlocks', NEW t \in Tabs,
         records' = records \/ Run(t).pc # "idle",
         NEW run \in RunState, NEW review \in ReviewState \cup {None},
         Becomes(t, run, review), Legal(t, run, review)
  PROVE  IInv'
  <1> DEFINE new == [tabs[t] EXCEPT !.run = run, !.review = review]
  <1>1. tabs[t] \in TabState /\ tabs \in [Tabs -> TabState]  BY DEF IInv
  <1>2. new \in TabState /\ new.run = run /\ new.review = review  BY <1>1 DEF TabState
  <1>3. tabs' = [tabs EXCEPT ![t] = new]  BY <1>1 DEF Becomes
  <1> HIDE DEF new
  <1> QED  BY <1>2, <1>3, OneTabStep

(* A run of the handler ends, and shows a batch or none.                   *)
LEMMA EndedStep ==
  ASSUME IInv, EnvironmentOK', records' \in Seq(Record), OneBlocks', NEW t \in Tabs,
         records' = records \/ Run(t).pc # "idle",
         NEW review \in ReviewState \cup {None}, Ended(t, review)
  PROVE  IInv'
  <1>1. Legal(t, NoRun, review)  BY NoRunType DEF Legal
  <1> QED  BY <1>1, NoRunType, TabStep DEF Ended

(* A step that leaves the journal and the environment alone.               *)
LEMMA Same ==
  ASSUME IInv, UNCHANGED <<chain, indexed, records>>, moves' \in 0..MaxMoves, faults' \in 0..MaxFaults
  PROVE  EnvironmentOK' /\ records' \in Seq(Record) /\ OneBlocks' /\ records' = records
  BY DEF IInv, EnvironmentOK, OneBlocks, Blocks

(* A step of the environment or of the journal alone.                      *)
LEMMA JournalStep ==
  ASSUME IInv, EnvironmentOK', records' \in Seq(Record), OneBlocks', tabs' = tabs,
         \A t \in Tabs : Run(t).pc \in {"guard", "wallet"} =>
           Run(t).record \in DOMAIN records' /\ records'[Run(t).record].status = "awaiting"
  PROVE  IInv'
  <1>1. Exclusive'  BY DEF IInv, Exclusive, Run
  <1>2. ASSUME NEW t \in Tabs PROVE RunOK(t)'
    <2>1. RunOK(t)  BY DEF IInv
    <2> QED  BY <2>1 DEF RunOK, Run, Review, At, PlanOf, Covers, Fits
  <1> QED  BY <1>1, <1>2 DEF IInv

(* A step of the chain, the indexer or the bounds.                         *)
LEMMA EnvironmentStep ==
  ASSUME IInv, EnvironmentOK', records' = records, tabs' = tabs
  PROVE  IInv'
  <1>1. OneBlocks' /\ records' \in Seq(Record)  BY DEF IInv, OneBlocks, Blocks
  <1>2. \A t \in Tabs : Run(t).pc \in {"guard", "wallet"} =>
          Run(t).record \in DOMAIN records' /\ records'[Run(t).record].status = "awaiting"
    BY DEF IInv, RunOK
  <1> QED  BY <1>1, <1>2, JournalStep

(* A record that blocks changes its state, or any record its wallet.       *)
Statuses == {"awaiting", "sent", "success", "failure", "aborted"}

LEMMA WithStatusOK ==
  ASSUME IInv, NEW r \in DOMAIN records, Blocks(records[r]), NEW s \in Statuses,
         records' = WithStatus(r, s)
  PROVE  /\ records' \in Seq(Record) /\ OneBlocks' /\ DOMAIN records' = DOMAIN records
         /\ records'[r].status = s
         /\ \A q \in DOMAIN records \ {r} : records'[q] = records[q]
  <1> DEFINE new == [records[r] EXCEPT !.status = s]
  <1>1. records \in Seq(Record) /\ records[r] \in Record  BY DEF IInv
  <1>2. new \in Record /\ new.status = s  BY <1>1 DEF Record, Statuses
  <1>3. records' = [records EXCEPT ![r] = new]  BY <1>1 DEF WithStatus
  <1> HIDE DEF new
  <1>4. /\ records' \in Seq(Record) /\ DOMAIN records' = DOMAIN records /\ records'[r] = new
        /\ \A q \in DOMAIN records \ {r} : records'[q] = records[q]
    BY <1>1, <1>2, <1>3
  <1>5. OneBlocks'  BY <1>4 DEF IInv, OneBlocks, Blocks
  <1> QED  BY <1>2, <1>4, <1>5

LEMMA WithWalletOK ==
  ASSUME IInv, NEW r \in DOMAIN records, NEW w \in {"asked", "broadcast", "refused"},
         records' = [records EXCEPT ![r].wallet = w]
  PROVE  /\ records' \in Seq(Record) /\ OneBlocks' /\ DOMAIN records' = DOMAIN records
         /\ \A q \in DOMAIN records : records'[q].status = records[q].status
  <1> DEFINE new == [records[r] EXCEPT !.wallet = w]
  <1>1. records \in Seq(Record) /\ records[r] \in Record  BY DEF IInv
  <1>2. new \in Record /\ new.status = records[r].status  BY <1>1 DEF Record
  <1>3. records' = [records EXCEPT ![r] = new]  BY <1>1
  <1> HIDE DEF new
  <1>4. /\ records' \in Seq(Record) /\ DOMAIN records' = DOMAIN records /\ records'[r] = new
        /\ \A q \in DOMAIN records \ {r} : records'[q] = records[q]
    BY <1>1, <1>2, <1>3
  <1>5. \A q \in DOMAIN records : records'[q].status = records[q].status  BY <1>2, <1>4
  <1>6. OneBlocks'  BY <1>4, <1>5 DEF IInv, OneBlocks, Blocks
  <1> QED  BY <1>4, <1>5, <1>6

(* A record is added only when none blocks.                                *)
LEMMA AppendOK ==
  ASSUME IInv, ~FamilyBlocked, NEW new \in Record, records' = Append(records, new)
  PROVE  /\ records' \in Seq(Record) /\ OneBlocks' /\ Len(records') \in DOMAIN records'
         /\ records'[Len(records')] = new
         /\ DOMAIN records \subseteq DOMAIN records'
         /\ \A q \in DOMAIN records : records'[q] = records[q]
  <1>1. records \in Seq(Record)  BY DEF IInv
  <1>2. /\ records' \in Seq(Record) /\ Len(records') = Len(records) + 1
        /\ \A q \in DOMAIN records : q \in DOMAIN records' /\ records'[q] = records[q]
        /\ records'[Len(records')] = new
        /\ DOMAIN records' = DOMAIN records \cup {Len(records')}
    BY <1>1
  <1>3. OneBlocks'  BY <1>2 DEF FamilyBlocked, OneBlocks, Blocks
  <1> QED  BY <1>1, <1>2, <1>3

-----------------------------------------------------------------------------
(* The handler: reading and planning.                                      *)
LEMMA OrdinalType ==
  ASSUME records \in Seq(Record)
  PROVE  IsFiniteSet(CompletedOrdinals) /\ BatchOrdinal \in Nat
  <1> DEFINE S == {r \in DOMAIN records : Counts(records[r])}
             f == [r \in S |-> records[r].ordinal]
  <1>1. IsFiniteSet(S)
    <2>1. IsFiniteSet(1..Len(records))  BY FS_Interval
    <2> QED  BY <2>1, FS_Subset
  <1>2. f \in Surjection(S, CompletedOrdinals)  BY DEF CompletedOrdinals, Surjection
  <1>3. IsFiniteSet(CompletedOrdinals)  BY <1>1, <1>2, FS_Surjection
  <1> QED  BY <1>3, FS_CardinalityType DEF BatchOrdinal

LEMMA PressInv == ASSUME IInv, NEW t \in Tabs, Press(t) PROVE IInv'
  <1> DEFINE pc == IF Resumable(Review(t)) THEN "review" ELSE "snapshot"
             run == [NoRun EXCEPT !.pc = pc, !.ordinal = BatchOrdinal]
  <1>1. BatchOrdinal \in Nat  BY OrdinalType DEF IInv
  <1>2. run \in RunState /\ run.pc = pc /\ run.batches = <<>>
    BY <1>1, NoRunType DEF RunState, Pcs
  <1>3. pc \in {"review", "snapshot"} /\ (pc = "review" => Review(t) # None)  BY DEF Resumable
  <1>4. Becomes(t, run, Review(t)) /\ ~Locked  BY DEF Press, Runs
  <1>5. EnvironmentOK' /\ records' \in Seq(Record) /\ OneBlocks' /\ records' = records
    BY Same DEF Press, IInv, EnvironmentOK
  <1> HIDE DEF run, pc
  <1>6. Legal(t, run, Review(t))  BY <1>2, <1>3, <1>4 DEF Legal
  <1> QED  BY <1>2, <1>4, <1>5, <1>6, RunTypes, TabStep

LEMMA PinsInv == ASSUME IInv, NEW t \in Tabs, Pins(t) PROVE IInv'
  <1> DEFINE run == [Run(t) EXCEPT !.pc = "positions", !.pin = IndexedPin]
  <1>1. EnvironmentOK' /\ records' \in Seq(Record) /\ OneBlocks' /\ records' = records
    BY Same DEF Pins, IInv, EnvironmentOK
  <1>2. CASE Blocked(t)  BY <1>1, <1>2, EndedStep DEF Blocked
  <1>3. CASE ~Blocked(t)
    <2>1. Run(t) \in RunState /\ RunOK(t) /\ Run(t).pc = "snapshot"  BY RunTypes DEF Pins, At
    <2>2. IndexedPin \in Pin /\ IndexedPin.number # 0
      <3>1. Len(indexed) \in 1..Len(indexed)  BY DEF IInv, EnvironmentOK
      <3>2. indexed[Len(indexed)] \in BlockState  BY <3>1 DEF IInv, EnvironmentOK
      <3> QED  BY <3>1, <3>2 DEF IndexedPin, Pin, BlockState
    <2>3. /\ run \in RunState /\ run.pc = "positions" /\ run.pin.number # 0
          /\ run.batches = <<>>
      BY <2>1, <2>2 DEF RunState, Pcs, RunOK
    <2>4. Becomes(t, run, Review(t))  BY <1>3 DEF Pins, Runs
    <2> HIDE DEF run
    <2>5. Legal(t, run, Review(t))  BY <2>1, <2>3 DEF Legal
    <2> QED  BY <1>1, <2>3, <2>4, <2>5, RunTypes, TabStep
  <1> QED  BY <1>2, <1>3

LEMMA ReadsPositionsInv == ASSUME IInv, NEW t \in Tabs, ReadsPositions(t) PROVE IInv'
  <1> DEFINE n == Run(t).pin.number
             run == [Run(t) EXCEPT !.pc = "balances", !.bins = indexed[n].held]
  <1>1. EnvironmentOK' /\ records' \in Seq(Record) /\ OneBlocks' /\ records' = records
    BY Same DEF ReadsPositions, IInv, EnvironmentOK
  <1>2. CASE Blocked(t)  BY <1>1, <1>2, EndedStep DEF Blocked
  <1>3. CASE ~Blocked(t)
    <2>1. Run(t) \in RunState /\ RunOK(t) /\ Run(t).pc = "positions"
      BY RunTypes DEF ReadsPositions, At
    <2>2. n \in Nat \ {0} /\ Run(t).batches = <<>>  BY <2>1 DEF RunOK, RunState, Pin
    <2>3. indexed[n].held \in SUBSET Bins
      <3>1. n \in 1..Len(indexed)  BY <1>3, <2>2 DEF ReadsPositions, IInv, EnvironmentOK
      <3>2. indexed[n] \in BlockState  BY <3>1 DEF IInv, EnvironmentOK
      <3> QED  BY <3>2 DEF BlockState
    <2>4. /\ run \in RunState /\ run.pc = "balances" /\ run.pin.number # 0
          /\ run.batches = <<>>
      BY <2>1, <2>2, <2>3 DEF RunState, Pcs
    <2>5. Becomes(t, run, Review(t))  BY <1>3 DEF ReadsPositions, Runs
    <2> HIDE DEF run
    <2>6. Legal(t, run, Review(t))  BY <2>1, <2>4 DEF Legal
    <2> QED  BY <1>1, <2>4, <2>5, <2>6, RunTypes, TabStep
  <1> QED  BY <1>2, <1>3

LEMMA ReadsBalancesInv == ASSUME IInv, NEW t \in Tabs, ReadsBalances(t) PROVE IInv'
  <1> DEFINE n == Run(t).pin.number
             positive == Run(t).bins \cap chain[n].held
             work == Chunks(Cardinality(positive))
             run == [Run(t) EXCEPT !.pc = "probe", !.bins = positive, !.work = work]
  <1>1. EnvironmentOK' /\ records' \in Seq(Record) /\ OneBlocks' /\ records' = records
    BY Same DEF ReadsBalances, IInv, EnvironmentOK
  <1>2. CASE Blocked(t)  BY <1>1, <1>2, EndedStep DEF Blocked
  <1>3. CASE ~Blocked(t)
    <2>1. Run(t) \in RunState /\ RunOK(t) /\ Run(t).pc = "balances"
      BY RunTypes DEF ReadsBalances, At
    <2>2. n # 0 /\ Run(t).batches = <<>>  BY <2>1 DEF RunOK
    <2>3. positive \subseteq Bins  BY <2>1 DEF RunState
    <2>4. Cardinality(positive) \in Nat
      BY <2>3, ExitAssumption, FS_Subset, FS_CardinalityType DEF ExitAssumption
    <2>5. work \in Seq(Candidate) /\ Covers(work, Cardinality(positive))  BY <2>4, ChunksCover
    <2>6. Becomes(t, run, Review(t))  BY <1>3 DEF ReadsBalances, Runs
    <2> HIDE DEF work, positive
    <2>7. /\ run \in RunState /\ run.pc = "probe" /\ run.pin.number # 0
          /\ run.batches = <<>> /\ run.work = work /\ run.bins = positive
      BY <2>1, <2>2, <2>3, <2>5 DEF RunState, Pcs
    <2> HIDE DEF run
    <2>8. PlanOf(run)
      <3>1. <<>> \o work = work  BY <2>5, ConcatEmptySeq
      <3> QED  BY <2>5, <2>7, <3>1 DEF PlanOf
    <2>9. Legal(t, run, Review(t))  BY <2>1, <2>7, <2>8 DEF Legal
    <2> QED  BY <1>1, <2>6, <2>7, <2>9, RunTypes, TabStep
  <1> QED  BY <1>2, <1>3

LEMMA ProbesInv == ASSUME IInv, NEW t \in Tabs, Probes(t) PROVE IInv'
  <1> DEFINE W == Run(t).work
             B == Run(t).batches
             n == Cardinality(Run(t).bins)
             fit == [Run(t) EXCEPT !.work = Tail(W), !.batches = Append(@, Head(W))]
             split == [Run(t) EXCEPT !.work = Halves(Head(W)) \o Tail(W)]
  <1>1. EnvironmentOK' /\ records' \in Seq(Record) /\ OneBlocks' /\ records' = records
    BY Same DEF Probes, IInv, EnvironmentOK
  <1>2. CASE Blocked(t)  BY <1>1, <1>2, EndedStep DEF Blocked
  <1>3. CASE ~Blocked(t)
    <2>1. Run(t) \in RunState /\ RunOK(t) /\ Run(t).pc = "probe"  BY RunTypes DEF Probes, At
    <2>2. W \in Seq(Candidate) /\ B \in Seq(Candidate) /\ W # <<>>  BY <2>1 DEF Probes, RunState
    <2>3. n \in Nat
      BY <2>1, ExitAssumption, FS_Subset, FS_CardinalityType DEF ExitAssumption, RunState
    <2>4. Run(t).pin.number # 0 /\ PlanOf(Run(t))  BY <2>1 DEF RunOK, At
    <2>5. Covers(B \o W, n) /\ \A i \in DOMAIN B : Fits(B[i])  BY <2>4 DEF PlanOf
    <2>6. CASE Fits(Head(W))
      <3>1. /\ Append(B, Head(W)) \in Seq(Candidate) /\ Tail(W) \in Seq(Candidate)
            /\ Append(B, Head(W)) \o Tail(W) = B \o W
        BY <2>2, MovedSame
      <3>2. /\ fit \in RunState /\ fit.pc = "probe" /\ fit.pin.number # 0
            /\ fit.batches = Append(B, Head(W)) /\ fit.work = Tail(W) /\ fit.bins = Run(t).bins
        BY <2>1, <2>4, <3>1 DEF RunState
      <3>3. Becomes(t, fit, Review(t))  BY <1>3, <2>6 DEF Probes, Runs
      <3> HIDE DEF fit
      <3>4. \A i \in DOMAIN Append(B, Head(W)) : Fits(Append(B, Head(W))[i])  BY <2>2, <2>5, <2>6
      <3>5. PlanOf(fit)  BY <2>5, <3>1, <3>2, <3>4 DEF PlanOf
      <3>6. Legal(t, fit, Review(t))  BY <2>1, <3>2, <3>5 DEF Legal
      <3> QED  BY <1>1, <3>2, <3>3, <3>6, RunTypes, TabStep
    <2>7. CASE ~Fits(Head(W))
      <3>1. /\ Halves(Head(W)) \o Tail(W) \in Seq(Candidate)
            /\ Covers(B \o (Halves(Head(W)) \o Tail(W)), n)
        BY <2>2, <2>3, <2>5, <2>7, HalvesCover
      <3>2. /\ split \in RunState /\ split.pc = "probe" /\ split.pin.number # 0
            /\ split.batches = B /\ split.work = Halves(Head(W)) \o Tail(W)
            /\ split.bins = Run(t).bins
        BY <2>1, <2>4, <3>1 DEF RunState
      <3>3. Becomes(t, split, Review(t))  BY <1>3, <2>7 DEF Probes, Runs
      <3> HIDE DEF split
      <3>4. PlanOf(split)  BY <2>5, <3>1, <3>2 DEF PlanOf
      <3>5. Legal(t, split, Review(t))  BY <2>1, <3>2, <3>4 DEF Legal
      <3> QED  BY <1>1, <3>2, <3>3, <3>5, RunTypes, TabStep
    <2> QED  BY <2>6, <2>7
  <1> QED  BY <1>2, <1>3

LEMMA ShowsInv == ASSUME IInv, NEW t \in Tabs, Shows(t) PROVE IInv'
  <1>1. EnvironmentOK' /\ records' \in Seq(Record) /\ OneBlocks' /\ records' = records
    BY Same DEF Shows, IInv, EnvironmentOK
  <1>2. Run(t) \in RunState  BY RunTypes
  <1>3. FirstBatch(t) \in ReviewState  BY <1>2 DEF FirstBatch, BinsOf, ReviewState, RunState
  <1> QED  BY <1>1, <1>3, EndedStep DEF Shows

LEMMA CompletesInv == ASSUME IInv, NEW t \in Tabs, Completes(t) PROVE IInv'
  <1> DEFINE new == [tabs[t] EXCEPT !.run = NoRun, !.complete = TRUE]
  <1>1. EnvironmentOK' /\ records' \in Seq(Record) /\ OneBlocks' /\ records' = records
    BY Same DEF Completes, IInv, EnvironmentOK
  <1>2. tabs[t] \in TabState /\ tabs \in [Tabs -> TabState]  BY DEF IInv
  <1>3. new \in TabState /\ new.run = NoRun  BY <1>2, NoRunType DEF TabState
  <1>4. tabs' = [tabs EXCEPT ![t] = new]  BY <1>2 DEF Completes
  <1> HIDE DEF new
  <1>5. Legal(t, new.run, new.review)  BY <1>3, NoRunType DEF Legal
  <1> QED  BY <1>1, <1>3, <1>4, <1>5, OneTabStep

LEMMA StopsInv == ASSUME IInv, NEW t \in Tabs, Stops(t) \/ AwaitsFinality(t) PROVE IInv'
  <1>1. EnvironmentOK' /\ records' \in Seq(Record) /\ OneBlocks' /\ records' = records
    BY Same DEF Stops, AwaitsFinality, IInv, EnvironmentOK
  <1> QED  BY <1>1, EndedStep DEF Stops, AwaitsFinality, Blocked

-----------------------------------------------------------------------------
(* The handler: sending what is shown.                                     *)

(* Either the run ends or it starts to enumerate anew.                     *)
LEMMA LiveStateFailsStep ==
  ASSUME IInv, EnvironmentOK', records' \in Seq(Record), OneBlocks', NEW t \in Tabs,
         Run(t).pc # "idle", LiveStateFails(t)
  PROVE  IInv'
  <1> DEFINE run == [NoRun EXCEPT !.pc = "snapshot", !.ordinal = Run(t).ordinal]
  <1>1. CASE Blocked(t)  BY <1>1, EndedStep DEF Blocked
  <1>2. CASE ~Blocked(t)
    <2>1. Becomes(t, run, None)  BY <1>2 DEF LiveStateFails
    <2>2. Run(t).ordinal \in Nat  BY RunTypes DEF RunState
    <2>3. run \in RunState /\ run.pc = "snapshot" /\ run.batches = <<>>
      BY <2>2, NoRunType DEF RunState, Pcs
    <2> HIDE DEF run
    <2>4. Legal(t, run, None)  BY <2>3 DEF Legal
    <2> QED  BY <2>1, <2>3, <2>4, TabStep
  <1> QED  BY <1>1, <1>2

LEMMA ReviewsInv == ASSUME IInv, NEW t \in Tabs, Reviews(t) PROVE IInv'
  <1> DEFINE run == [Run(t) EXCEPT !.pc = "begin"]
  <1>1. EnvironmentOK' /\ records' \in Seq(Record) /\ OneBlocks' /\ records' = records
    BY Same DEF Reviews, IInv, EnvironmentOK
  <1>2. Run(t) \in RunState /\ RunOK(t) /\ Run(t).pc = "review"  BY RunTypes DEF Reviews, At
  <1>3. CASE LiveStateFails(t)  BY <1>1, <1>2, <1>3, LiveStateFailsStep
  <1>4. CASE Goes(t, "begin")
    <2>1. run \in RunState /\ run.pc = "begin"  BY <1>2 DEF RunState, Pcs
    <2>2. Becomes(t, run, Review(t))  BY <1>4 DEF Goes, Runs
    <2> HIDE DEF run
    <2>3. Legal(t, run, Review(t))  BY <1>2, <2>1 DEF Legal, RunOK
    <2> QED  BY <1>1, <2>1, <2>2, <2>3, RunTypes, TabStep
  <1> QED  BY <1>3, <1>4 DEF Reviews

LEMMA BeginsInv == ASSUME IInv, NEW t \in Tabs, Begins(t) PROVE IInv'
  <1> DEFINE run == [Run(t) EXCEPT !.pc = "guard", !.record = Len(records')]
             new == [ordinal |-> Review(t).ordinal, bins |-> Review(t).bins,
                     status |-> "awaiting", wallet |-> "unasked"]
  <1>1. Run(t) \in RunState /\ RunOK(t) /\ Run(t).pc = "begin"  BY RunTypes DEF Begins, At
  <1>2. EnvironmentOK'  BY DEF Begins, IInv, EnvironmentOK
  <1>3. CASE Blocked(t) /\ records' = records
    <2>1. records' \in Seq(Record) /\ OneBlocks'  BY <1>3 DEF IInv, OneBlocks, Blocks
    <2> QED  BY <1>2, <1>3, <2>1, EndedStep DEF Blocked
  <1>4. CASE ~FamilyBlocked /\ records' = Append(records, new) /\ Runs(t, run)
    <2>1. Review(t) \in ReviewState  BY <1>1, RunTypes DEF RunOK
    <2>2. new \in Record /\ new.status = "awaiting"  BY <2>1 DEF ReviewState, Record
    <2> HIDE DEF new
    <2>3. /\ records' \in Seq(Record) /\ OneBlocks' /\ Len(records') \in DOMAIN records'
          /\ records'[Len(records')].status = "awaiting"
      BY <1>4, <2>2, AppendOK
    <2>4. run \in RunState /\ run.pc = "guard" /\ run.record = Len(records')
      <3>1. Len(records') \in Nat  BY <2>3
      <3> QED  BY <1>1, <3>1 DEF RunState, Pcs
    <2>5. Becomes(t, run, Review(t))  BY <1>4 DEF Runs
    <2> HIDE DEF run
    <2>6. Legal(t, run, Review(t))  BY <1>1, <2>3, <2>4 DEF Legal, RunOK
    <2> QED  BY <1>1, <1>2, <2>3, <2>4, <2>5, <2>6, RunTypes, TabStep
  <1> QED  BY <1>3, <1>4 DEF Begins, BeginRefused

LEMMA AsksInv == ASSUME IInv, NEW t \in Tabs, Asks(t) PROVE IInv'
  <1> DEFINE run == [Run(t) EXCEPT !.pc = "wallet"]
  <1>1. Run(t) \in RunState /\ RunOK(t) /\ Run(t).pc = "guard"  BY RunTypes DEF Asks, At
  <1>2. EnvironmentOK'  BY DEF Asks, IInv, EnvironmentOK
  <1>3. Run(t).record \in DOMAIN records /\ records[Run(t).record].status = "awaiting"
    BY <1>1 DEF RunOK
  <1>4. /\ records' \in Seq(Record) /\ OneBlocks' /\ DOMAIN records' = DOMAIN records
        /\ records'[Run(t).record].status = "awaiting"
    BY <1>3, WithWalletOK DEF Asks
  <1>5. run \in RunState /\ run.pc = "wallet" /\ run.record = Run(t).record
    BY <1>1 DEF RunState, Pcs
  <1>6. Becomes(t, run, Review(t))  BY DEF Asks, Goes, Runs
  <1> HIDE DEF run
  <1>7. Legal(t, run, Review(t))  BY <1>1, <1>3, <1>4, <1>5 DEF Legal, RunOK
  <1> QED  BY <1>1, <1>2, <1>4, <1>5, <1>6, <1>7, RunTypes, TabStep

(* What a run at the guard or the wallet makes of its record.              *)
LEMMA ResolvesStep ==
  ASSUME IInv, NEW t \in Tabs, Run(t).pc \in {"guard", "wallet"}, NEW s \in Statuses,
         records' = WithStatus(Run(t).record, s)
  PROVE  records' \in Seq(Record) /\ OneBlocks'
  <1>1. Run(t).record \in DOMAIN records /\ Blocks(records[Run(t).record])
    BY RunTypes DEF RunOK, Blocks
  <1> QED  BY <1>1, WithStatusOK

LEMMA AbortsInv == ASSUME IInv, NEW t \in Tabs, Aborts(t) PROVE IInv'
  <1>1. Run(t).pc = "guard" /\ EnvironmentOK'  BY DEF Aborts, At, IInv, EnvironmentOK
  <1>2. records' \in Seq(Record) /\ OneBlocks'  BY <1>1, ResolvesStep DEF Aborts, Statuses
  <1> QED  BY <1>1, <1>2, LiveStateFailsStep DEF Aborts

LEMMA ReturnedInv == ASSUME IInv, NEW t \in Tabs, HashReturned(t) \/ RefusalReturned(t) PROVE IInv'
  <1>1. Run(t).pc = "wallet" /\ EnvironmentOK'
    BY DEF HashReturned, RefusalReturned, InWallet, At, IInv, EnvironmentOK
  <1>2. records' \in Seq(Record) /\ OneBlocks'
    BY <1>1, ResolvesStep DEF HashReturned, RefusalReturned, Statuses
  <1> QED  BY <1>1, <1>2, RunTypes, EndedStep DEF HashReturned, RefusalReturned

-----------------------------------------------------------------------------
(* What goes wrong, the journal, the wallet and the chain.                 *)
LEMMA FaultType == ASSUME IInv, Fault PROVE moves' \in 0..MaxMoves /\ faults' \in 0..MaxFaults
  BY ExitAssumption DEF IInv, EnvironmentOK, Fault, ExitAssumption

LEMMA MoveType == ASSUME IInv, Move PROVE moves' \in 0..MaxMoves /\ faults' \in 0..MaxFaults
  BY ExitAssumption DEF IInv, EnvironmentOK, Move, ExitAssumption

LEMMA FailsInv == ASSUME IInv, NEW t \in Tabs, Fails(t) PROVE IInv'
  <1>1. Run(t).pc # "idle" /\ EnvironmentOK'
    BY FaultType DEF Fails, IInv, EnvironmentOK
  <1>2. records' \in Seq(Record) /\ OneBlocks'
    <2>1. CASE Run(t).pc = "guard"
      BY <2>1, ResolvesStep DEF Fails, At, Statuses
    <2>2. CASE Run(t).pc = "wallet"
      BY <2>2, ResolvesStep DEF Fails, At, Statuses
    <2>3. CASE Run(t).pc \notin {"guard", "wallet"}
      <3>1. records' = records  BY <2>3 DEF Fails, At
      <3> QED  BY <3>1 DEF IInv, OneBlocks, Blocks
    <2> QED  BY <2>1, <2>2, <2>3
  <1> QED  BY <1>1, <1>2, EndedStep DEF Fails, Blocked

LEMMA RefusedInv == ASSUME IInv, NEW t \in Tabs, Refused(t) \/ GasRises(t) PROVE IInv'
  <1>1. EnvironmentOK' /\ records' \in Seq(Record) /\ OneBlocks' /\ records' = records
    BY FaultType, Same DEF Refused, GasRises
  <1> QED  BY <1>1, RunTypes, EndedStep DEF Refused, GasRises, Blocked

LEMMA ClosesInv == ASSUME IInv, NEW t \in Tabs, Closes(t) PROVE IInv'
  <1>1. EnvironmentOK' /\ records' \in Seq(Record) /\ OneBlocks' /\ records' = records
    BY FaultType, Same DEF Closes
  <1>2. Opened \in TabState /\ Opened.run = NoRun  BY NoRunType DEF Opened, TabState
  <1>3. Legal(t, Opened.run, Opened.review)  BY <1>2, NoRunType DEF Legal
  <1> QED  BY <1>1, <1>2, <1>3, OneTabStep DEF Closes

LEMMA RecoversInv == ASSUME IInv, NEW r \in DOMAIN records, Recovers(r) PROVE IInv'
  <1>1. EnvironmentOK' /\ tabs' = tabs  BY DEF Recovers, IInv, EnvironmentOK
  <1>2. Blocks(records[r])  BY DEF Recovers, Blocks
  <1>3. /\ records' \in Seq(Record) /\ OneBlocks' /\ DOMAIN records' = DOMAIN records
        /\ \A q \in DOMAIN records \ {r} : records'[q] = records[q]
    BY <1>2, WithStatusOK DEF Recovers, Statuses
  <1>4. \A t \in Tabs : Run(t).pc \in {"guard", "wallet"} =>
          Run(t).record \in DOMAIN records' /\ records'[Run(t).record].status = "awaiting"
    BY <1>3 DEF Recovers, IInv, RunOK
  <1> QED  BY <1>1, <1>3, <1>4, JournalStep

LEMMA ReconcilesInv == ASSUME IInv, NEW r \in DOMAIN records, Reconciles(r) PROVE IInv'
  <1>1. EnvironmentOK' /\ tabs' = tabs  BY DEF Reconciles, IInv, EnvironmentOK
  <1>2. Blocks(records[r])  BY DEF Reconciles, Blocks
  <1>3. PICK s \in Statuses : records' = WithStatus(r, s)
    <2>1. PICK n \in MinedAt(r) : records' = WithStatus(r, IF chain[n].ok THEN "success" ELSE "failure")
      BY DEF Reconciles
    <2> QED  BY <2>1 DEF Statuses
  <1>4. /\ records' \in Seq(Record) /\ OneBlocks' /\ DOMAIN records' = DOMAIN records
        /\ \A q \in DOMAIN records \ {r} : records'[q] = records[q]
    BY <1>2, <1>3, WithStatusOK
  <1>5. \A t \in Tabs : Run(t).pc \in {"guard", "wallet"} =>
          Run(t).record \in DOMAIN records' /\ records'[Run(t).record].status = "awaiting"
    BY <1>4 DEF Reconciles, IInv, RunOK
  <1> QED  BY <1>1, <1>4, <1>5, JournalStep

LEMMA WalletInv == ASSUME IInv, NEW r \in DOMAIN records, Confirms(r) \/ Declines(r) PROVE IInv'
  <1>1. EnvironmentOK' /\ tabs' = tabs  BY FaultType DEF Confirms, Declines, IInv, EnvironmentOK
  <1>2. /\ records' \in Seq(Record) /\ OneBlocks' /\ DOMAIN records' = DOMAIN records
        /\ \A q \in DOMAIN records : records'[q].status = records[q].status
    BY WithWalletOK DEF Confirms, Declines
  <1>3. \A t \in Tabs : Run(t).pc \in {"guard", "wallet"} =>
          Run(t).record \in DOMAIN records' /\ records'[Run(t).record].status = "awaiting"
    BY <1>2 DEF IInv, RunOK
  <1> QED  BY <1>1, <1>2, <1>3, JournalStep

LEMMA RemovesPartlyInv == ASSUME IInv, RemovesPartly PROVE IInv'
  <1>1. EnvironmentOK' /\ tabs' = tabs  BY MoveType DEF RemovesPartly, IInv, EnvironmentOK
  <1>2. HeadHeld \subseteq Bins
    <2>1. Len(chain) \in 1..Len(chain)  BY DEF IInv, EnvironmentOK
    <2>2. chain[Len(chain)] \in BlockState  BY <2>1 DEF IInv, EnvironmentOK
    <2> QED  BY <2>2 DEF HeadHeld, BlockState
  <1>3. PICK b \in HeadHeld :
          records' = Append(records, [ordinal |-> 0, bins |-> {b}, status |-> "sent",
                                      wallet |-> "broadcast"])
    BY DEF RemovesPartly
  <1> DEFINE new == [ordinal |-> 0, bins |-> {b}, status |-> "sent", wallet |-> "broadcast"]
  <1>4. new \in Record  BY <1>2 DEF Record
  <1> HIDE DEF new
  <1>5. /\ records' \in Seq(Record) /\ OneBlocks' /\ DOMAIN records \subseteq DOMAIN records'
        /\ \A q \in DOMAIN records : records'[q] = records[q]
    BY <1>3, <1>4, AppendOK DEF RemovesPartly, new
  <1>6. \A t \in Tabs : Run(t).pc \in {"guard", "wallet"} =>
          Run(t).record \in DOMAIN records' /\ records'[Run(t).record].status = "awaiting"
    BY <1>5 DEF IInv, RunOK
  <1> QED  BY <1>1, <1>5, <1>6, JournalStep

(* A block on the chain's head, or in its place.                           *)
LEMMA ChainInv ==
  ASSUME IInv, Moves \/ Reorganises \/ MinesEmpty \/ Indexes \/ \E r \in DOMAIN records : Mines(r)
  PROVE  IInv'
  <1>1. records' = records /\ tabs' = tabs  BY DEF Moves, Reorganises, MinesEmpty, Indexes, Mines
  <1>2. moves' \in 0..MaxMoves /\ faults' \in 0..MaxFaults
    BY MoveType DEF Moves, Reorganises, MinesEmpty, Indexes, Mines, IInv, EnvironmentOK
  <1>3. chain \in Seq(BlockState) /\ Len(chain) \in Nat \ {0} /\ chain[Len(chain)] \in BlockState
    <2>1. Len(chain) \in 1..Len(chain)  BY DEF IInv, EnvironmentOK
    <2> QED  BY <2>1 DEF IInv, EnvironmentOK
  <1>4. HeadHeld \subseteq Bins /\ chain[Len(chain)].fork \in Nat  BY <1>3 DEF HeadHeld, BlockState
  <1>5. \A fork \in Nat, held \in SUBSET Bins, tx \in Nat, ok \in BOOLEAN :
          Block(fork, held, tx, ok) \in BlockState
    BY DEF Block, BlockState
  <1>6. \A b \in BlockState : Append(chain, b) \in Seq(BlockState) /\ Append(chain, b) # <<>>
    BY <1>3
  <1>7. CASE Indexes  BY <1>1, <1>2, <1>7, EnvironmentStep DEF Indexes, IInv, EnvironmentOK
  <1>8. CASE MinesEmpty
    <2>1. Block(chain[Len(chain)].fork, HeadHeld, 0, FALSE) \in BlockState  BY <1>4, <1>5
    <2>2. chain' \in Seq(BlockState) /\ chain' # <<>>  BY <1>6, <1>8, <2>1 DEF MinesEmpty
    <2>3. EnvironmentOK'  BY <1>2, <1>8, <2>2 DEF MinesEmpty, IInv, EnvironmentOK
    <2> QED  BY <1>1, <2>3, EnvironmentStep
  <1>9. CASE Moves
    <2>1. PICK held \in SUBSET Bins :
            chain' = Append(chain, Block(chain[Len(chain)].fork, held, 0, FALSE))
      <3>1. PICK b \in Bins :
              chain' = Append(chain, Block(chain[Len(chain)].fork,
                                           IF b \in HeadHeld THEN HeadHeld \ {b} ELSE HeadHeld \cup {b},
                                           0, FALSE))
        BY <1>9 DEF Moves
      <3> QED  BY <1>4, <3>1
    <2>2. Block(chain[Len(chain)].fork, held, 0, FALSE) \in BlockState  BY <1>4, <1>5
    <2>3. chain' \in Seq(BlockState) /\ chain' # <<>>  BY <1>6, <2>1, <2>2
    <2>4. EnvironmentOK'  BY <1>2, <1>9, <2>3 DEF Moves, IInv, EnvironmentOK
    <2> QED  BY <1>1, <2>4, EnvironmentStep
  <1>10. CASE Reorganises
    <2>1. Len(chain) - 1 \in 1..Len(chain)  BY <1>3, <1>10 DEF Reorganises
    <2> DEFINE new == Block(moves', chain[Len(chain) - 1].held, 0, FALSE)
    <2>2. chain[Len(chain) - 1].held \in SUBSET Bins
      <3>1. chain[Len(chain) - 1] \in BlockState  BY <1>3, <2>1
      <3> QED  BY <3>1 DEF BlockState
    <2>3. new \in BlockState
      <3>1. moves' \in Nat  BY <1>2
      <3> QED  BY <1>5, <2>2, <3>1
    <2>6. chain' = [chain EXCEPT ![Len(chain)] = new]  BY <1>10 DEF Reorganises
    <2> HIDE DEF new
    <2>4. chain' \in Seq(BlockState) /\ chain' # <<>>  BY <1>3, <2>3, <2>6
    <2>5. EnvironmentOK'  BY <1>2, <1>10, <2>4 DEF Reorganises, IInv, EnvironmentOK
    <2> QED  BY <1>1, <2>5, EnvironmentStep
  <1>11. ASSUME NEW r \in DOMAIN records, Mines(r) PROVE IInv'
    <2> DEFINE ok == records[r].bins \subseteq HeadHeld
               held == IF ok THEN HeadHeld \ records[r].bins ELSE HeadHeld
    <2>1. r \in Nat /\ held \in SUBSET Bins /\ ok \in BOOLEAN  BY <1>4 DEF IInv
    <2>2. Block(chain[Len(chain)].fork, held, r, ok) \in BlockState  BY <1>4, <1>5, <2>1
    <2>3. chain' = Append(chain, Block(chain[Len(chain)].fork, held, r, ok))  BY <1>11 DEF Mines
    <2>4. chain' \in Seq(BlockState) /\ chain' # <<>>  BY <1>6, <2>2, <2>3
    <2>5. EnvironmentOK'  BY <1>2, <1>11, <2>4 DEF Mines, IInv, EnvironmentOK
    <2> QED  BY <1>1, <2>5, EnvironmentStep
  <1> QED  BY <1>7, <1>8, <1>9, <1>10, <1>11

-----------------------------------------------------------------------------
LEMMA InitInv == Init => IInv
  <1> SUFFICES ASSUME Init PROVE IInv  OBVIOUS
  <1>1. PICK bins \in Holdings : chain = <<[fork |-> 0, held |-> bins, tx |-> 0, ok |-> FALSE]>>
    BY DEF Init
  <1>2. [fork |-> 0, held |-> bins, tx |-> 0, ok |-> FALSE] \in BlockState
    BY ExitAssumption DEF ExitAssumption, BlockState
  <1>3. chain \in Seq(BlockState) /\ chain # <<>>  BY <1>1, <1>2
  <1>4. EnvironmentOK  BY <1>3, ExitAssumption DEF ExitAssumption, Init, EnvironmentOK
  <1>5. Opened \in TabState /\ Opened.run = NoRun  BY NoRunType DEF Opened, TabState
  <1>6. tabs \in [Tabs -> TabState] /\ \A t \in Tabs : Run(t).pc = "idle"
    BY <1>5, NoRunType DEF Init, Run
  <1>7. records \in Seq(Record) /\ DOMAIN records = {}  BY DEF Init
  <1>8. Exclusive /\ OneBlocks /\ \A t \in Tabs : RunOK(t)
    BY <1>6, <1>7 DEF Exclusive, OneBlocks, RunOK, At
  <1> QED  BY <1>4, <1>6, <1>7, <1>8 DEF IInv

LEMMA NextInv == IInv /\ [Next]_vars => IInv'
  <1> SUFFICES ASSUME IInv, [Next]_vars PROVE IInv'  OBVIOUS
  <1>1. CASE UNCHANGED vars
    BY <1>1, EnvironmentStep DEF vars, IInv, EnvironmentOK
  <1>2. CASE Presses  BY <1>2, PressInv DEF Presses
  <1>3. ASSUME NEW t \in Tabs, Plans(t) PROVE IInv'
    BY <1>3, PinsInv, ReadsPositionsInv, ReadsBalancesInv, ProbesInv, ShowsInv, CompletesInv, StopsInv
       DEF Plans
  <1>4. ASSUME NEW t \in Tabs, Sends(t) PROVE IInv'
    BY <1>4, ReviewsInv, BeginsInv, AsksInv, AbortsInv, ReturnedInv DEF Sends
  <1>5. ASSUME NEW t \in Tabs,
               AwaitsFinality(t) \/ Refused(t) \/ Fails(t) \/ GasRises(t) \/ Closes(t)
        PROVE IInv'
    BY <1>5, StopsInv, RefusedInv, FailsInv, ClosesInv
  <1>6. ASSUME NEW r \in DOMAIN records, Settles(r) \/ Declines(r) PROVE IInv'
    BY <1>6, WalletInv, ChainInv, ReconcilesInv, RecoversInv DEF Settles
  <1>7. CASE MinesEmpty \/ Moves \/ Reorganises \/ Indexes  BY <1>7, ChainInv
  <1>8. CASE RemovesPartly  BY <1>8, RemovesPartlyInv
  <1> QED  BY <1>1, <1>2, <1>3, <1>4, <1>5, <1>6, <1>7, <1>8 DEF Next, Continues, Confirmed

(* The invariant of the exit: at every step of the handler what it knows   *)
(* of its plan and of its record is so.                                    *)
THEOREM Invariance == Spec => []IInv
  <1>1. Init => IInv  BY InitInv
  <1>2. IInv /\ [Next]_vars => IInv'  BY NextInv
  <1> QED  BY <1>1, <1>2, PTL DEF Spec

(* The state has its type: a handler that sends has a batch to show, and   *)
(* one that waits for the wallet has its record.                           *)
THEOREM TypeCorrect == Spec => []TypeOK
  <1>1. IInv => TypeOK  BY IInvImplies
  <1> QED  BY <1>1, Invariance, PTL

(* Of the withdrawals of an owner from a pool one at most awaits its       *)
(* outcome, for any tabs, pages and reorganisations                        *)
(* (transactionFamilyRetryBlocked, the web lock of handleFullExitBatch).   *)
THEOREM OneWithdrawal == Spec => []OneAtATime
  <1>1. IInv => OneAtATime  BY IInvImplies
  <1> QED  BY <1>1, Invariance, PTL

(* The planner neither drops nor repeats a bin, and a batch it returns     *)
(* fits a transaction, for any number of bins and any capacity             *)
(* (planFullExitBatches).                                                  *)
THEOREM PlanExact == Spec => []PlanCovers
  <1>1. IInv => PlanCovers  BY IInvImplies
  <1> QED  BY <1>1, Invariance, PTL

-----------------------------------------------------------------------------
(* The batches in order.  While a record that names a batch may still      *)
(* become final, its number is the one after the final ones, and no press  *)
(* but the one that wrote it can write another.                            *)
Ledger ==
  /\ OrdinalsExact
  /\ \A r \in DOMAIN records :
       Blocks(records[r]) /\ records[r].ordinal # 0 => records[r].ordinal = BatchOrdinal

(* What a press that runs knows of the number of its batch.                *)
NextBatch(t) ==
  /\ Run(t).ordinal = BatchOrdinal
  /\ Run(t).pc \in {"review", "begin"} => Review(t).ordinal = BatchOrdinal
  /\ Run(t).pc \notin {"guard", "wallet"} =>
       \A r \in DOMAIN records : Blocks(records[r]) => records[r].ordinal = 0

OrdInv == Ledger /\ \A t \in Tabs : Run(t).pc # "idle" => NextBatch(t)

(* A step that makes no batch final, and blocks only with the next batch.  *)
Kept ==
  /\ DOMAIN records \subseteq DOMAIN records'
  /\ \A q \in DOMAIN records :
       /\ records'[q].ordinal = records[q].ordinal
       /\ Counts(records'[q]) <=> Counts(records[q])
       /\ Blocks(records'[q]) => Blocks(records[q])
  /\ \A q \in DOMAIN records' \ DOMAIN records :
       /\ ~Counts(records'[q])
       /\ records'[q].ordinal \in {0, BatchOrdinal}

LEMMA KeptLedger ==
  ASSUME Ledger, Kept
  PROVE  Ledger' /\ BatchOrdinal' = BatchOrdinal
  <1>1. {q \in DOMAIN records' : Counts(records'[q])} = {q \in DOMAIN records : Counts(records[q])}
    BY DEF Kept
  <1>2. CompletedOrdinals' = CompletedOrdinals
    BY <1>1 DEF Kept, CompletedOrdinals
  <1>3. BatchOrdinal' = BatchOrdinal  BY <1>2 DEF BatchOrdinal
  <1>4. OrdinalsExact'
    BY <1>1, <1>2 DEF Kept, Ledger, OrdinalsExact
  <1>5. ASSUME NEW r \in DOMAIN records', Blocks(records'[r]), records'[r].ordinal # 0
        PROVE  records'[r].ordinal = BatchOrdinal
    <2>1. CASE r \in DOMAIN records  BY <1>5, <2>1 DEF Kept, Ledger
    <2>2. CASE r \notin DOMAIN records  BY <1>5, <2>2 DEF Kept
    <2> QED  BY <2>1, <2>2
  <1> QED  BY <1>3, <1>4, <1>5 DEF Ledger

(* A press that a step of another actor finds and leaves alone.            *)
LEMMA KeptNext ==
  ASSUME Ledger, Kept, NEW t \in Tabs, NextBatch(t), Run(t)' = Run(t), Review(t)' = Review(t),
         \A q \in DOMAIN records' \ DOMAIN records : records'[q].ordinal = 0
  PROVE  NextBatch(t)'
  <1>1. BatchOrdinal' = BatchOrdinal  BY KeptLedger
  <1>2. Run(t).ordinal = BatchOrdinal
        /\ (Run(t).pc \in {"review", "begin"} => Review(t).ordinal = BatchOrdinal)
    BY DEF NextBatch
  <1>3. ASSUME Run(t).pc \notin {"guard", "wallet"}, NEW r \in DOMAIN records', Blocks(records'[r])
        PROVE  records'[r].ordinal = 0
    <2>1. CASE r \in DOMAIN records  BY <1>3, <2>1 DEF Kept, NextBatch
    <2>2. CASE r \notin DOMAIN records  BY <1>3, <2>2
    <2> QED  BY <2>1, <2>2
  <1> QED  BY <1>1, <1>2, <1>3 DEF NextBatch

(* A step of no tab.                                                       *)
LEMMA OrdJournalStep ==
  ASSUME OrdInv, Kept, tabs' = tabs,
         \A q \in DOMAIN records' \ DOMAIN records : records'[q].ordinal = 0
  PROVE  OrdInv'
  <1>1. Ledger'  BY KeptLedger DEF OrdInv
  <1>2. ASSUME NEW t \in Tabs, Run(t)'.pc # "idle" PROVE NextBatch(t)'
    <2>1. Run(t)' = Run(t) /\ Review(t)' = Review(t)  BY DEF Run, Review
    <2> QED  BY <1>2, <2>1, KeptNext DEF OrdInv
  <1> QED  BY <1>1, <1>2 DEF OrdInv

(* A step of one tab.  If it writes a record it runs, and no other does.   *)
LEMMA OrdTabStep ==
  ASSUME IInv, OrdInv, Kept, NEW t \in Tabs,
         \A u \in Tabs \ {t} : tabs'[u] = tabs[u],
         DOMAIN records' = DOMAIN records \/ Run(t).pc # "idle",
         Run(t)'.pc # "idle" => NextBatch(t)'
  PROVE  OrdInv'
  <1>1. Ledger'  BY KeptLedger DEF OrdInv
  <1>2. ASSUME NEW u \in Tabs \ {t}, Run(u)'.pc # "idle" PROVE NextBatch(u)'
    <2>1. Run(u)' = Run(u) /\ Review(u)' = Review(u)  BY DEF Run, Review
    <2>2. Run(t).pc = "idle"  BY <1>2, <2>1 DEF IInv, Exclusive
    <2>3. DOMAIN records' = DOMAIN records  BY <2>2
    <2> QED  BY <1>2, <2>1, <2>3, KeptNext DEF OrdInv
  <1> QED  BY <1>1, <1>2 DEF OrdInv

LEMMA Unwritten == ASSUME records' = records PROVE Kept
  BY DEF Kept

(* The next state of a tab that steps.                                     *)
LEMMA TabBecomes ==
  ASSUME IInv, NEW t \in Tabs, NEW run, NEW review, Becomes(t, run, review)
  PROVE  /\ Run(t)' = run /\ Review(t)' = review
         /\ \A u \in Tabs \ {t} : tabs'[u] = tabs[u]
  <1>1. tabs \in [Tabs -> TabState]  BY DEF IInv
  <1>2. tabs[t] \in TabState  BY <1>1
  <1> DEFINE new == [tabs[t] EXCEPT !.run = run, !.review = review]
  <1>3. new.run = run /\ new.review = review  BY <1>2 DEF TabState
  <1>4. tabs' = [tabs EXCEPT ![t] = new]  BY <1>1 DEF Becomes
  <1> HIDE DEF new
  <1>5. tabs'[t] = new /\ \A u \in Tabs \ {t} : tabs'[u] = tabs[u]  BY <1>1, <1>4
  <1> QED  BY <1>3, <1>5 DEF Run, Review

(* A press goes on as the press it was, without writing a record, or ends. *)
Proceeds(t, run, review) ==
  run.pc # "idle" =>
    /\ Run(t).pc \notin {"idle", "guard", "wallet"} /\ run.pc \notin {"guard", "wallet"}
    /\ run.ordinal = Run(t).ordinal
    /\ run.pc \in {"review", "begin"} => Run(t).pc \in {"review", "begin"} /\ review = Review(t)

LEMMA ProceedsStep ==
  ASSUME IInv, OrdInv, NEW t \in Tabs, NEW run, NEW review,
         Becomes(t, run, review), records' = records, Proceeds(t, run, review)
  PROVE  OrdInv'
  <1>1. /\ Run(t)' = run /\ Review(t)' = review
        /\ \A u \in Tabs \ {t} : tabs'[u] = tabs[u]
    BY TabBecomes
  <1>2. Kept  BY Unwritten
  <1>3. ASSUME run.pc # "idle" PROVE NextBatch(t)'
    <2>1. NextBatch(t)  BY <1>3 DEF OrdInv, Proceeds
    <2>2. BatchOrdinal' = BatchOrdinal  BY <1>2, KeptLedger DEF OrdInv
    <2> QED  BY <1>1, <1>3, <2>1, <2>2 DEF NextBatch, Proceeds
  <1> QED  BY <1>1, <1>2, <1>3, OrdTabStep

LEMMA EndsStep ==
  ASSUME IInv, OrdInv, NEW t \in Tabs, NEW review, Ended(t, review), Kept,
         DOMAIN records' = DOMAIN records
  PROVE  OrdInv'
  <1>1. Run(t)' = NoRun /\ \A u \in Tabs \ {t} : tabs'[u] = tabs[u]  BY TabBecomes DEF Ended
  <1> QED  BY <1>1, NoRunType, OrdTabStep

(* A record that blocks gets a state that does not count, or its wallet.   *)
LEMMA StatusKept ==
  ASSUME IInv, NEW r \in DOMAIN records, Blocks(records[r]), NEW s,
         s # "success" \/ records[r].ordinal = 0, records' = WithStatus(r, s)
  PROVE  Kept /\ DOMAIN records' = DOMAIN records
  <1>1. records \in Seq(Record) /\ records[r] \in Record  BY DEF IInv
  <1> DEFINE new == [records[r] EXCEPT !.status = s]
  <1>2. new.status = s /\ new.ordinal = records[r].ordinal  BY <1>1 DEF Record
  <1>3. records' = [records EXCEPT ![r] = new]  BY <1>1 DEF WithStatus
  <1> HIDE DEF new
  <1>4. /\ DOMAIN records' = DOMAIN records /\ records'[r] = new
        /\ \A q \in DOMAIN records \ {r} : records'[q] = records[q]
    BY <1>1, <1>3
  <1>5. ~Counts(records[r]) /\ ~Counts(new)  BY <1>2 DEF Blocks, Counts
  <1> QED  BY <1>2, <1>4, <1>5 DEF Kept

LEMMA WalletKept ==
  ASSUME IInv, NEW r \in DOMAIN records, NEW w, records' = [records EXCEPT ![r].wallet = w]
  PROVE  Kept /\ DOMAIN records' = DOMAIN records
  <1>1. records \in Seq(Record) /\ records[r] \in Record  BY DEF IInv
  <1> DEFINE new == [records[r] EXCEPT !.wallet = w]
  <1>2. new.status = records[r].status /\ new.ordinal = records[r].ordinal  BY <1>1 DEF Record
  <1>3. records' = [records EXCEPT ![r] = new]  BY <1>1
  <1> HIDE DEF new
  <1>4. /\ DOMAIN records' = DOMAIN records /\ records'[r] = new
        /\ \A q \in DOMAIN records \ {r} : records'[q] = records[q]
    BY <1>1, <1>3
  <1>5. (Counts(new) <=> Counts(records[r])) /\ (Blocks(new) <=> Blocks(records[r]))
    BY <1>2 DEF Blocks, Counts
  <1> QED  BY <1>2, <1>4, <1>5 DEF Kept

-----------------------------------------------------------------------------
LEMMA PressOrd == ASSUME IInv, OrdInv, NEW t \in Tabs, Press(t) PROVE OrdInv'
  <1> DEFINE pc == IF Resumable(Review(t)) THEN "review" ELSE "snapshot"
             run == [NoRun EXCEPT !.pc = pc, !.ordinal = BatchOrdinal]
  <1>1. Becomes(t, run, Review(t)) /\ records' = records  BY DEF Press, Runs
  <1>2. Kept  BY <1>1, Unwritten
  <1>3. run.ordinal = BatchOrdinal /\ run.pc = pc  BY DEF NoRun
  <1>4. /\ pc \in {"review", "snapshot"}
        /\ pc = "review" => Review(t).ordinal = BatchOrdinal
    BY DEF Resumable
  <1> HIDE DEF run, pc
  <1>5. /\ Run(t)' = run /\ Review(t)' = Review(t)
        /\ \A u \in Tabs \ {t} : tabs'[u] = tabs[u]
    BY <1>1, TabBecomes
  <1>6. BatchOrdinal' = BatchOrdinal  BY <1>2, KeptLedger DEF OrdInv
  <1>7. \A r \in DOMAIN records : ~Blocks(records[r])  BY DEF Press, FamilyBlocked
  <1>8. NextBatch(t)'  BY <1>1, <1>3, <1>4, <1>5, <1>6, <1>7 DEF NextBatch
  <1> QED  BY <1>1, <1>2, <1>5, <1>8, OrdTabStep

(* The steps that read and plan, and the review of what is shown.          *)
LEMMA PlansOrd ==
  ASSUME IInv, OrdInv, NEW t \in Tabs,
         Pins(t) \/ ReadsPositions(t) \/ ReadsBalances(t) \/ Probes(t)
  PROVE  OrdInv'
  <1>1. records' = records /\ Run(t) \in RunState
    BY RunTypes DEF Pins, ReadsPositions, ReadsBalances, Probes
  <1>2. CASE Blocked(t)
    BY <1>1, <1>2, Unwritten, EndsStep DEF Blocked
  <1>3. ASSUME NEW run, Runs(t, run), run.pc \in {"positions", "balances", "probe"},
               run.ordinal = Run(t).ordinal
        PROVE  OrdInv'
    <2>1. Run(t).pc \in {"snapshot", "positions", "balances", "probe"}
      BY DEF Pins, ReadsPositions, ReadsBalances, Probes, At
    <2>2. Proceeds(t, run, Review(t))  BY <1>3, <2>1 DEF Proceeds
    <2> QED  BY <1>1, <1>3, <2>2, ProceedsStep DEF Runs
  <1>4. CASE Pins(t)
    <2> DEFINE run == [Run(t) EXCEPT !.pc = "positions", !.pin = IndexedPin]
    <2>1. run.pc = "positions" /\ run.ordinal = Run(t).ordinal  BY <1>1 DEF RunState
    <2>2. Runs(t, run) \/ Blocked(t)  BY <1>4 DEF Pins
    <2> QED  BY <1>2, <1>3, <2>1, <2>2
  <1>5. CASE ReadsPositions(t)
    <2> DEFINE run == [Run(t) EXCEPT !.pc = "balances", !.bins = indexed[Run(t).pin.number].held]
    <2>1. run.pc = "balances" /\ run.ordinal = Run(t).ordinal  BY <1>1 DEF RunState
    <2>2. Runs(t, run) \/ Blocked(t)  BY <1>5 DEF ReadsPositions
    <2> QED  BY <1>2, <1>3, <2>1, <2>2
  <1>6. CASE ReadsBalances(t)
    <2> DEFINE positive == Run(t).bins \cap chain[Run(t).pin.number].held
               run == [Run(t) EXCEPT !.pc = "probe", !.bins = positive,
                                     !.work = Chunks(Cardinality(positive))]
    <2>1. run.pc = "probe" /\ run.ordinal = Run(t).ordinal  BY <1>1 DEF RunState
    <2>2. Runs(t, run) \/ Blocked(t)  BY <1>6 DEF ReadsBalances
    <2> QED  BY <1>2, <1>3, <2>1, <2>2
  <1>7. CASE Probes(t)
    <2> DEFINE fit == [Run(t) EXCEPT !.work = Tail(Run(t).work),
                                     !.batches = Append(@, Head(Run(t).work))]
               split == [Run(t) EXCEPT !.work = Halves(Head(Run(t).work)) \o Tail(Run(t).work)]
    <2>1. /\ fit.pc = "probe" /\ fit.ordinal = Run(t).ordinal
          /\ split.pc = "probe" /\ split.ordinal = Run(t).ordinal
      BY <1>1, <1>7 DEF RunState, Probes, At
    <2>2. Runs(t, fit) \/ Runs(t, split) \/ Blocked(t)  BY <1>7 DEF Probes
    <2> HIDE DEF fit, split
    <2> QED  BY <1>2, <1>3, <2>1, <2>2
  <1> QED  BY <1>4, <1>5, <1>6, <1>7

LEMMA ConcludesOrd ==
  ASSUME IInv, OrdInv, NEW t \in Tabs, Shows(t) \/ Completes(t) \/ Stops(t) \/ AwaitsFinality(t)
  PROVE  OrdInv'
  <1>1. records' = records /\ Kept
    BY Unwritten DEF Shows, Completes, Stops, AwaitsFinality
  <1>2. CASE Shows(t)  BY <1>1, <1>2, EndsStep DEF Shows
  <1>3. CASE Stops(t) \/ AwaitsFinality(t)
    BY <1>1, <1>3, EndsStep DEF Stops, AwaitsFinality, Blocked
  <1>4. CASE Completes(t)
    <2>1. tabs \in [Tabs -> TabState] /\ tabs[t] \in TabState  BY DEF IInv
    <2> DEFINE new == [tabs[t] EXCEPT !.run = NoRun, !.complete = TRUE]
    <2>2. new.run = NoRun  BY <2>1 DEF TabState
    <2>3. tabs' = [tabs EXCEPT ![t] = new]  BY <1>4, <2>1 DEF Completes
    <2> HIDE DEF new
    <2>4. Run(t)' = NoRun /\ \A u \in Tabs \ {t} : tabs'[u] = tabs[u]  BY <2>1, <2>2, <2>3 DEF Run
    <2> QED  BY <1>1, <2>4, NoRunType, OrdTabStep
  <1> QED  BY <1>2, <1>3, <1>4

(* A press whose live state does not hold: a record it wrote is aborted.   *)
LEMMA LiveStateFailsOrd ==
  ASSUME IInv, OrdInv, NEW t \in Tabs, Run(t).pc # "idle", LiveStateFails(t), Kept,
         DOMAIN records' = DOMAIN records,
         \A r \in DOMAIN records' : Blocks(records'[r]) => records'[r].ordinal = 0
  PROVE  OrdInv'
  <1> DEFINE run == [NoRun EXCEPT !.pc = "snapshot", !.ordinal = Run(t).ordinal]
  <1>1. CASE Blocked(t)  BY <1>1, EndsStep DEF Blocked
  <1>2. CASE Becomes(t, run, None)
    <2>1. run.pc = "snapshot" /\ run.ordinal = Run(t).ordinal  BY DEF NoRun
    <2> HIDE DEF run
    <2>2. Run(t)' = run /\ \A u \in Tabs \ {t} : tabs'[u] = tabs[u]  BY <1>2, TabBecomes
    <2>3. BatchOrdinal' = BatchOrdinal /\ Run(t).ordinal = BatchOrdinal
      BY KeptLedger DEF OrdInv, NextBatch
    <2>4. NextBatch(t)'  BY <2>1, <2>2, <2>3 DEF NextBatch
    <2> QED  BY <2>2, <2>4, OrdTabStep
  <1> QED  BY <1>1, <1>2 DEF LiveStateFails

LEMMA ReviewsOrd == ASSUME IInv, OrdInv, NEW t \in Tabs, Reviews(t) PROVE OrdInv'
  <1> DEFINE run == [Run(t) EXCEPT !.pc = "begin"]
  <1>1. records' = records /\ Kept /\ Run(t).pc = "review"  BY Unwritten DEF Reviews, At
  <1>2. CASE LiveStateFails(t)
    <2>1. \A r \in DOMAIN records' : Blocks(records'[r]) => records'[r].ordinal = 0
      BY <1>1 DEF OrdInv, NextBatch
    <2> QED  BY <1>1, <1>2, <2>1, LiveStateFailsOrd
  <1>3. CASE Goes(t, "begin")
    <2>1. run.pc = "begin" /\ run.ordinal = Run(t).ordinal  BY RunTypes DEF RunState
    <2>2. Becomes(t, run, Review(t))  BY <1>3 DEF Goes, Runs
    <2> HIDE DEF run
    <2>3. Proceeds(t, run, Review(t))  BY <1>1, <2>1 DEF Proceeds
    <2> QED  BY <1>1, <2>2, <2>3, ProceedsStep
  <1> QED  BY <1>2, <1>3 DEF Reviews

(* The batch that is written has the next number.                          *)
LEMMA BeginsOrd == ASSUME IInv, OrdInv, NEW t \in Tabs, Begins(t) PROVE OrdInv'
  <1> DEFINE new == [ordinal |-> Review(t).ordinal, bins |-> Review(t).bins,
                     status |-> "awaiting", wallet |-> "unasked"]
             run == [Run(t) EXCEPT !.pc = "guard", !.record = Len(records')]
  <1>1. Run(t).pc = "begin" /\ NextBatch(t)  BY DEF Begins, At, OrdInv
  <1>2. CASE Blocked(t) /\ records' = records  BY <1>2, Unwritten, EndsStep DEF Blocked
  <1>3. CASE ~FamilyBlocked /\ records' = Append(records, new) /\ Runs(t, run)
    <2>1. Run(t) \in RunState /\ Review(t) \in ReviewState  BY <1>1, RunTypes DEF RunOK
    <2>2. new \in Record /\ ~Counts(new) /\ new.ordinal = BatchOrdinal
      BY <1>1, <2>1 DEF ReviewState, Record, Counts, NextBatch
    <2>3. run.pc = "guard" /\ run.ordinal = Run(t).ordinal  BY <2>1 DEF RunState
    <2> HIDE DEF new, run
    <2>4. /\ records' \in Seq(Record) /\ Len(records') = Len(records) + 1
          /\ records'[Len(records) + 1] = new
          /\ \A q \in DOMAIN records : records'[q] = records[q]
          /\ DOMAIN records \subseteq DOMAIN records'
          /\ DOMAIN records' \ DOMAIN records = {Len(records) + 1}
      <3>1. records \in Seq(Record)  BY DEF IInv
      <3> QED  BY <1>3, <2>2, <3>1
    <2>5. Kept  BY <2>2, <2>4 DEF Kept
    <2>6. Run(t)' = run /\ \A u \in Tabs \ {t} : tabs'[u] = tabs[u]  BY <1>3, TabBecomes DEF Runs
    <2>7. BatchOrdinal' = BatchOrdinal  BY <2>5, KeptLedger DEF OrdInv
    <2>8. NextBatch(t)'  BY <1>1, <2>3, <2>6, <2>7 DEF NextBatch
    <2> QED  BY <1>1, <2>5, <2>6, <2>8, OrdTabStep
  <1> QED  BY <1>2, <1>3 DEF Begins, BeginRefused

LEMMA AsksOrd == ASSUME IInv, OrdInv, NEW t \in Tabs, Asks(t) PROVE OrdInv'
  <1> DEFINE run == [Run(t) EXCEPT !.pc = "wallet"]
  <1>1. Run(t).pc = "guard" /\ NextBatch(t)  BY DEF Asks, At, OrdInv
  <1>2. Kept /\ DOMAIN records' = DOMAIN records
    BY <1>1, RunTypes, WalletKept DEF Asks, RunOK
  <1>3. run.pc = "wallet" /\ run.ordinal = Run(t).ordinal  BY RunTypes DEF RunState
  <1>4. Becomes(t, run, Review(t))  BY DEF Asks, Goes, Runs
  <1> HIDE DEF run
  <1>5. Run(t)' = run /\ \A u \in Tabs \ {t} : tabs'[u] = tabs[u]  BY <1>4, TabBecomes
  <1>6. BatchOrdinal' = BatchOrdinal  BY <1>2, KeptLedger DEF OrdInv
  <1>7. NextBatch(t)'  BY <1>1, <1>3, <1>5, <1>6 DEF NextBatch
  <1> QED  BY <1>2, <1>5, <1>7, OrdTabStep

LEMMA ResolvesOrd ==
  ASSUME IInv, OrdInv, NEW t \in Tabs, Run(t).pc \in {"guard", "wallet"}, NEW s \in Statuses \ {"success"},
         records' = WithStatus(Run(t).record, s)
  PROVE  Kept /\ DOMAIN records' = DOMAIN records
  <1>1. Run(t).record \in DOMAIN records /\ Blocks(records[Run(t).record])
    BY RunTypes DEF RunOK, Blocks
  <1> QED  BY <1>1, StatusKept

LEMMA AbortsOrd == ASSUME IInv, OrdInv, NEW t \in Tabs, Aborts(t) PROVE OrdInv'
  <1>1. Run(t).pc = "guard" /\ records' = WithStatus(Run(t).record, "aborted")  BY DEF Aborts, At
  <1>2. Kept /\ DOMAIN records' = DOMAIN records  BY <1>1, ResolvesOrd DEF Statuses
  <1>3. Run(t).record \in DOMAIN records /\ Blocks(records[Run(t).record])
    BY <1>1, RunTypes DEF RunOK, Blocks
  <1>4. ~Blocks(records'[Run(t).record])
    BY <1>1, <1>3, WithStatusOK DEF Statuses, Blocks
  <1>5. \A r \in DOMAIN records' : ~Blocks(records'[r])
    BY <1>2, <1>3, <1>4 DEF Kept, IInv, OneBlocks
  <1> QED  BY <1>1, <1>2, <1>5, LiveStateFailsOrd DEF Aborts

LEMMA ReturnedOrd ==
  ASSUME IInv, OrdInv, NEW t \in Tabs, HashReturned(t) \/ RefusalReturned(t) PROVE OrdInv'
  <1>1. Run(t).pc = "wallet"  BY DEF HashReturned, RefusalReturned, InWallet, At
  <1>2. Kept /\ DOMAIN records' = DOMAIN records
    BY <1>1, ResolvesOrd DEF HashReturned, RefusalReturned, Statuses
  <1> QED  BY <1>2, EndsStep DEF HashReturned, RefusalReturned

LEMMA FaultsOrd ==
  ASSUME IInv, OrdInv, NEW t \in Tabs, Fails(t) \/ Refused(t) \/ GasRises(t) \/ Closes(t)
  PROVE  OrdInv'
  <1>1. CASE Fails(t)
    <2>1. CASE Run(t).pc \in {"guard", "wallet"}
      <3>1. PICK s \in Statuses \ {"success"} : records' = WithStatus(Run(t).record, s)
        BY <1>1, <2>1 DEF Fails, At, Statuses
      <3> QED  BY <1>1, <2>1, <3>1, ResolvesOrd, EndsStep DEF Fails, Blocked
    <2>2. CASE Run(t).pc \notin {"guard", "wallet"}
      <3>1. records' = records  BY <1>1, <2>2 DEF Fails, At
      <3> QED  BY <1>1, <3>1, Unwritten, EndsStep DEF Fails, Blocked
    <2> QED  BY <2>1, <2>2
  <1>2. CASE Refused(t) \/ GasRises(t)
    BY <1>2, Unwritten, EndsStep DEF Refused, GasRises, Blocked
  <1>3. CASE Closes(t)
    <2>1. tabs \in [Tabs -> TabState] /\ tabs' = [tabs EXCEPT ![t] = Opened] /\ records' = records
      BY <1>3 DEF Closes, IInv
    <2>2. Run(t)'.pc = "idle" /\ \A u \in Tabs \ {t} : tabs'[u] = tabs[u]
      BY <2>1, NoRunType DEF Run, Opened
    <2> QED  BY <2>1, <2>2, Unwritten, OrdTabStep
  <1> QED  BY <1>1, <1>2, <1>3

(* The next batch becomes final: its number follows those that are, and    *)
(* nothing else blocks or runs.                                            *)
LEMMA FinalOrd ==
  ASSUME IInv, OrdInv, NEW r \in DOMAIN records, records[r].status = "sent", records[r].ordinal # 0,
         records' = WithStatus(r, "success"), tabs' = tabs
  PROVE  OrdInv'
  <1> DEFINE c == Cardinality(CompletedOrdinals)
             S == {q \in DOMAIN records : Counts(records[q])}
  <1>1. c \in Nat  BY OrdinalType, FS_CardinalityType DEF IInv
  <1>2. CompletedOrdinals = 1..c  BY DEF OrdInv, Ledger, OrdinalsExact
  <1>3. Blocks(records[r]) /\ records[r].ordinal = c + 1
    BY DEF Blocks, OrdInv, Ledger, BatchOrdinal
  <1>4. /\ DOMAIN records' = DOMAIN records
        /\ records'[r] = [records[r] EXCEPT !.status = "success"]
        /\ \A q \in DOMAIN records \ {r} : records'[q] = records[q]
    BY DEF IInv, WithStatus
  <1>5. records'[r].status = "success" /\ records'[r].ordinal = c + 1
    <2>1. records[r] \in Record  BY DEF IInv
    <2> QED  BY <1>3, <1>4, <2>1 DEF Record
  <1>6. Counts(records'[r]) /\ ~Counts(records[r]) /\ ~Blocks(records'[r])
    BY <1>1, <1>3, <1>5 DEF Counts, Blocks
  <1>7. {q \in DOMAIN records' : Counts(records'[q])} = S \cup {r}
    BY <1>4, <1>6
  <1>8. CompletedOrdinals' = 1..(c + 1)
    <2>1. CompletedOrdinals' = {records'[q].ordinal : q \in S \cup {r}}
      BY <1>7 DEF CompletedOrdinals
    <2>2. \A q \in S : records'[q].ordinal = records[q].ordinal  BY <1>4, <1>6
    <2>3. CompletedOrdinals' = CompletedOrdinals \cup {c + 1}
      <3>1. CompletedOrdinals = {records'[q].ordinal : q \in S}  BY <2>2 DEF CompletedOrdinals
      <3> HIDE DEF S, c
      <3> QED  BY <1>5, <2>1, <3>1
    <2> HIDE DEF c
    <2> QED  BY <1>1, <1>2, <2>3
  <1>9. Cardinality(CompletedOrdinals') = c + 1
    <2>1. Cardinality(1..(c + 1)) = c + 1  BY <1>1, FS_Interval
    <2> QED  BY <1>8, <2>1
  <1>10. \A q \in S : records[q].ordinal \in 1..c  BY <1>2 DEF CompletedOrdinals
  <1>11. OrdinalsExact'
    <2>1. ASSUME NEW p \in DOMAIN records', NEW q \in DOMAIN records',
                 Counts(records'[p]), Counts(records'[q]), records'[p].ordinal = records'[q].ordinal
          PROVE  p = q
      <3>1. p \in S \cup {r} /\ q \in S \cup {r}  BY <1>7, <2>1
      <3>2. CASE p = r \/ q = r
        BY <1>1, <1>4, <1>5, <1>6, <1>10, <2>1, <3>1, <3>2
      <3>3. CASE p # r /\ q # r
        BY <1>4, <2>1, <3>1, <3>3 DEF OrdInv, Ledger, OrdinalsExact
      <3> QED  BY <3>2, <3>3
    <2> QED  BY <1>8, <1>9, <2>1 DEF OrdinalsExact
  <1>12. \A q \in DOMAIN records' : ~Blocks(records'[q])
    BY <1>3, <1>4, <1>6 DEF IInv, OneBlocks
  <1>13. ASSUME NEW t \in Tabs PROVE Run(t)'.pc = "idle"
    <2> SUFFICES ASSUME Run(t).pc # "idle" PROVE FALSE  BY DEF Run
    <2>1. Run(t).pc \in {"guard", "wallet"}  BY <1>3 DEF OrdInv, NextBatch
    <2>2. Run(t).record \in DOMAIN records /\ records[Run(t).record].status = "awaiting"
      BY <2>1, RunTypes DEF RunOK
    <2> QED  BY <1>3, <2>2 DEF Blocks, IInv, OneBlocks
  <1> QED  BY <1>11, <1>12, <1>13 DEF OrdInv, Ledger

LEMMA ReconcilesOrd == ASSUME IInv, OrdInv, NEW r \in DOMAIN records, Reconciles(r) PROVE OrdInv'
  <1>1. Blocks(records[r]) /\ records[r].status = "sent" /\ tabs' = tabs  BY DEF Reconciles, Blocks
  <1>2. PICK s \in {"success", "failure"} : records' = WithStatus(r, s)
    BY DEF Reconciles
  <1>3. CASE s = "success" /\ records[r].ordinal # 0  BY <1>1, <1>2, <1>3, FinalOrd
  <1>4. CASE s # "success" \/ records[r].ordinal = 0
    <2>1. Kept /\ DOMAIN records' = DOMAIN records  BY <1>1, <1>2, <1>4, StatusKept
    <2> QED  BY <1>1, <2>1, OrdJournalStep
  <1> QED  BY <1>3, <1>4

LEMMA JournalOrd ==
  ASSUME IInv, OrdInv, NEW r \in DOMAIN records, Recovers(r) \/ Confirms(r) \/ Declines(r)
  PROVE  OrdInv'
  <1>1. tabs' = tabs  BY DEF Recovers, Confirms, Declines
  <1>2. Kept /\ DOMAIN records' = DOMAIN records
    <2>1. CASE Recovers(r)
      <3>1. Blocks(records[r]) /\ records' = WithStatus(r, "sent")  BY <2>1 DEF Recovers, Blocks
      <3> QED  BY <3>1, StatusKept
    <2>2. CASE Confirms(r) \/ Declines(r)  BY <2>2, WalletKept DEF Confirms, Declines
    <2> QED  BY <2>1, <2>2
  <1> QED  BY <1>1, <1>2, OrdJournalStep

LEMMA RemovesPartlyOrd == ASSUME IInv, OrdInv, RemovesPartly PROVE OrdInv'
  <1>1. PICK b \in HeadHeld :
          records' = Append(records, [ordinal |-> 0, bins |-> {b}, status |-> "sent",
                                      wallet |-> "broadcast"])
    BY DEF RemovesPartly
  <1> DEFINE new == [ordinal |-> 0, bins |-> {b}, status |-> "sent", wallet |-> "broadcast"]
  <1>2. new.ordinal = 0 /\ ~Counts(new)  BY DEF Counts
  <1>3. records' = Append(records, new) /\ records \in Seq(Record)  BY <1>1 DEF IInv
  <1> HIDE DEF new
  <1>4. /\ DOMAIN records \subseteq DOMAIN records'
        /\ \A q \in DOMAIN records : records'[q] = records[q]
        /\ \A q \in DOMAIN records' \ DOMAIN records : records'[q] = new
    BY <1>3
  <1>5. Kept  BY <1>2, <1>4 DEF Kept
  <1>6. tabs' = tabs  BY DEF RemovesPartly
  <1> QED  BY <1>2, <1>4, <1>5, <1>6, OrdJournalStep

LEMMA EnvironmentOrd == ASSUME OrdInv, records' = records, tabs' = tabs PROVE OrdInv'
  BY Unwritten, OrdJournalStep

LEMMA OrdInitInv == Init => OrdInv
  <1> SUFFICES ASSUME Init PROVE OrdInv  OBVIOUS
  <1>1. DOMAIN records = {} /\ CompletedOrdinals = {}  BY DEF Init, CompletedOrdinals
  <1>2. Cardinality(CompletedOrdinals) = 0  BY <1>1, FS_EmptySet
  <1>3. Ledger  BY <1>1, <1>2 DEF Ledger, OrdinalsExact
  <1>4. \A t \in Tabs : Run(t).pc = "idle"  BY NoRunType DEF Init, Run, Opened
  <1> QED  BY <1>3, <1>4 DEF OrdInv

LEMMA OrdNextInv == IInv /\ OrdInv /\ [Next]_vars => OrdInv'
  <1> SUFFICES ASSUME IInv, OrdInv, [Next]_vars PROVE OrdInv'  OBVIOUS
  <1>1. CASE UNCHANGED vars  BY <1>1, EnvironmentOrd DEF vars
  <1>2. CASE Presses  BY <1>2, PressOrd DEF Presses
  <1>3. ASSUME NEW t \in Tabs, Plans(t) PROVE OrdInv'
    BY <1>3, PlansOrd, ConcludesOrd DEF Plans
  <1>4. ASSUME NEW t \in Tabs, Sends(t) PROVE OrdInv'
    BY <1>4, ReviewsOrd, BeginsOrd, AsksOrd, AbortsOrd, ReturnedOrd DEF Sends
  <1>5. ASSUME NEW t \in Tabs,
               AwaitsFinality(t) \/ Refused(t) \/ Fails(t) \/ GasRises(t) \/ Closes(t)
        PROVE OrdInv'
    BY <1>5, ConcludesOrd, FaultsOrd
  <1>6. ASSUME NEW r \in DOMAIN records, Settles(r) \/ Declines(r) PROVE OrdInv'
    <2>1. CASE Mines(r)  BY <2>1, EnvironmentOrd DEF Mines
    <2> QED  BY <1>6, <2>1, JournalOrd, ReconcilesOrd DEF Settles
  <1>7. CASE MinesEmpty \/ Moves \/ Reorganises \/ Indexes
    BY <1>7, EnvironmentOrd DEF MinesEmpty, Moves, Reorganises, Indexes
  <1>8. CASE RemovesPartly  BY <1>8, RemovesPartlyOrd
  <1> QED  BY <1>1, <1>2, <1>3, <1>4, <1>5, <1>6, <1>7, <1>8 DEF Next, Continues, Confirmed

(* The final batches of an exit are numbered 1, 2, 3 and so on, each once, *)
(* whatever tabs are closed, batches rejected, reverted or reorganised     *)
(* (handleFullExitBatch counts the ordinal from the journal).              *)
THEOREM Ordinals == Spec => []OrdinalsExact
  <1>1. Init => IInv /\ OrdInv  BY InitInv, OrdInitInv
  <1>2. IInv /\ OrdInv /\ [Next]_vars => (IInv /\ OrdInv)'  BY NextInv, OrdNextInv
  <1>3. OrdInv => OrdinalsExact  BY DEF OrdInv, Ledger
  <1> QED  BY <1>1, <1>2, <1>3, PTL DEF Spec

-----------------------------------------------------------------------------
(* One block.  A fork's number grows with the reorganisations, so a block  *)
(* of the indexer with the number and the fork of a canonical one is it.   *)
Forks == \A n \in DOMAIN chain : chain[n].fork <= moves

Behind ==
  \A n \in DOMAIN indexed :
    /\ n \in DOMAIN chain /\ indexed[n].fork <= chain[n].fork
    /\ indexed[n].fork = chain[n].fork => indexed[n].held = chain[n].held

(* What a press has read is of the pinned block, if that is canonical.     *)
Reading(run) ==
  /\ run.pc \in {"positions", "balances", "probe"} =>
       run.pin.number \in DOMAIN indexed /\ run.pin.fork <= indexed[run.pin.number].fork
  /\ run.pc \in {"balances", "probe"} =>
       (Canonical(run.pin) => run.bins = chain[run.pin.number].held)

BlockInv == Forks /\ Behind /\ \A t \in Tabs : Reading(Run(t))

LEMMA ForkTypes ==
  ASSUME IInv
  PROVE  /\ Len(chain) \in Nat \ {0} /\ DOMAIN chain = 1..Len(chain)
         /\ Len(indexed) \in Nat \ {0} /\ DOMAIN indexed = 1..Len(indexed)
         /\ \A n \in DOMAIN chain : chain[n] \in BlockState /\ chain[n].fork \in Nat
         /\ \A n \in DOMAIN indexed : indexed[n] \in BlockState /\ indexed[n].fork \in Nat
         /\ \A t \in Tabs : Run(t).pin.number \in Nat /\ Run(t).pin.fork \in Nat
         /\ moves \in Nat
  <1>1. chain \in Seq(BlockState) /\ indexed \in Seq(BlockState) /\ moves \in Nat
    BY ExitAssumption DEF IInv, EnvironmentOK, ExitAssumption
  <1>2. \A b \in BlockState : b.fork \in Nat  BY DEF BlockState
  <1>3. \A n \in DOMAIN chain : chain[n] \in BlockState  BY <1>1
  <1>4. \A n \in DOMAIN indexed : indexed[n] \in BlockState  BY <1>1
  <1>5. \A t \in Tabs : Run(t).pin.number \in Nat /\ Run(t).pin.fork \in Nat
    BY RunTypes DEF RunState, Pin
  <1> QED  BY <1>1, <1>2, <1>3, <1>4, <1>5 DEF IInv, EnvironmentOK

(* A step of one tab.                                                      *)
LEMMA ReadingStep ==
  ASSUME BlockInv, UNCHANGED <<chain, indexed>>, moves' \in Nat, moves \in Nat, moves <= moves',
         IInv,
         \A t \in Tabs : Run(t)' = Run(t) \/ Reading(Run(t)')
  PROVE  BlockInv'
  <1>1. Forks'  BY ForkTypes DEF BlockInv, Forks
  <1>2. Behind'  BY DEF BlockInv, Behind
  <1>3. ASSUME NEW t \in Tabs PROVE Reading(Run(t))'
    <2>1. Reading(Run(t)')  BY DEF BlockInv
    <2> QED  BY <2>1 DEF Reading, Canonical
  <1> QED  BY <1>1, <1>2, <1>3 DEF BlockInv

LEMMA RunsRead ==
  ASSUME IInv, BlockInv, UNCHANGED <<chain, indexed>>, moves' \in Nat, moves <= moves',
         NEW t \in Tabs, NEW run, NEW review, Becomes(t, run, review), Reading(run)
  PROVE  BlockInv'
  <1>1. Run(t)' = run /\ \A u \in Tabs \ {t} : tabs'[u] = tabs[u]  BY TabBecomes
  <1>2. \A u \in Tabs : Run(u)' = Run(u) \/ Reading(Run(u)')  BY <1>1 DEF Run
  <1> QED  BY <1>2, ForkTypes, ReadingStep

LEMMA NotReading ==
  /\ Reading(NoRun)
  /\ \A run : run.pc \notin {"positions", "balances", "probe"} => Reading(run)
  BY NoRunType DEF Reading

LEMMA EndedReads ==
  ASSUME IInv, BlockInv, UNCHANGED <<chain, indexed>>, moves' \in Nat, moves <= moves',
         NEW t \in Tabs, NEW review, Ended(t, review)
  PROVE  BlockInv'
  BY RunsRead, NotReading DEF Ended

LEMMA PlansRead ==
  ASSUME IInv, BlockInv, NEW t \in Tabs,
         Pins(t) \/ ReadsPositions(t) \/ ReadsBalances(t) \/ Probes(t)
  PROVE  BlockInv'
  <1>1. /\ UNCHANGED <<chain, indexed>> /\ moves' \in Nat /\ moves <= moves'
        /\ Run(t) \in RunState
    BY ForkTypes, RunTypes DEF Pins, ReadsPositions, ReadsBalances, Probes
  <1> DEFINE n == Run(t).pin.number
  <1>2. CASE Blocked(t)  BY <1>1, <1>2, EndedReads DEF Blocked
  <1>3. CASE Pins(t) /\ ~Blocked(t)
    <2> DEFINE run == [Run(t) EXCEPT !.pc = "positions", !.pin = IndexedPin]
    <2>1. run.pc = "positions" /\ run.pin = IndexedPin  BY <1>1 DEF RunState
    <2>2. Runs(t, run)  BY <1>3 DEF Pins
    <2> HIDE DEF run
    <2>3. run.pin.number \in DOMAIN indexed /\ run.pin.fork <= indexed[run.pin.number].fork
      BY <2>1, ForkTypes DEF IndexedPin
    <2>4. Reading(run)  BY <2>1, <2>3 DEF Reading
    <2> QED  BY <1>1, <2>2, <2>4, RunsRead DEF Runs
  <1>4. CASE ReadsPositions(t) /\ ~Blocked(t)
    <2> DEFINE run == [Run(t) EXCEPT !.pc = "balances", !.bins = indexed[n].held]
    <2>1. run.pc = "balances" /\ run.pin = Run(t).pin /\ run.bins = indexed[n].held
      BY <1>1 DEF RunState
    <2>2. Runs(t, run)  BY <1>4 DEF ReadsPositions
    <2> HIDE DEF run
    <2>3. n \in DOMAIN indexed /\ Run(t).pin.fork <= indexed[n].fork
      BY <1>4 DEF BlockInv, Reading, ReadsPositions, At
    <2>4. n \in DOMAIN chain /\ indexed[n].fork <= chain[n].fork
          /\ (indexed[n].fork = chain[n].fork => indexed[n].held = chain[n].held)
      BY <2>3 DEF BlockInv, Behind
    <2>5. Canonical(Run(t).pin) => indexed[n].held = chain[n].held
      BY <2>3, <2>4, ForkTypes DEF Canonical
    <2>6. Reading(run)  BY <2>1, <2>3, <2>5 DEF Reading
    <2> QED  BY <1>1, <2>2, <2>6, RunsRead DEF Runs
  <1>5. CASE ReadsBalances(t) /\ ~Blocked(t)
    <2> DEFINE positive == Run(t).bins \cap chain[n].held
               run == [Run(t) EXCEPT !.pc = "probe", !.bins = positive,
                                     !.work = Chunks(Cardinality(positive))]
    <2>1. run.pc = "probe" /\ run.pin = Run(t).pin /\ run.bins = positive  BY <1>1 DEF RunState
    <2>2. Runs(t, run)  BY <1>5 DEF ReadsBalances
    <2> HIDE DEF run
    <2>3. /\ n \in DOMAIN indexed /\ Run(t).pin.fork <= indexed[n].fork
          /\ Canonical(Run(t).pin) => Run(t).bins = chain[n].held
      BY <1>5 DEF BlockInv, Reading, ReadsBalances, At
    <2>4. Reading(run)  BY <2>1, <2>3 DEF Reading
    <2> QED  BY <1>1, <2>2, <2>4, RunsRead DEF Runs
  <1>6. CASE Probes(t) /\ ~Blocked(t)
    <2> DEFINE fit == [Run(t) EXCEPT !.work = Tail(Run(t).work),
                                     !.batches = Append(@, Head(Run(t).work))]
               split == [Run(t) EXCEPT !.work = Halves(Head(Run(t).work)) \o Tail(Run(t).work)]
    <2>1. \A run \in {fit, split} :
            run.pc = "probe" /\ run.pin = Run(t).pin /\ run.bins = Run(t).bins
      BY <1>1, <1>6 DEF RunState, Probes, At
    <2>2. PICK run \in {fit, split} : Runs(t, run)  BY <1>6 DEF Probes
    <2> HIDE DEF fit, split
    <2>3. Reading(run)  BY <1>6, <2>1 DEF BlockInv, Reading, Probes, At
    <2> QED  BY <1>1, <2>2, <2>3, RunsRead DEF Runs
  <1> QED  BY <1>2, <1>3, <1>4, <1>5, <1>6

(* Every other step of a tab reads nothing.                                *)
LEMMA TabsRead ==
  ASSUME IInv, BlockInv, NEW t \in Tabs,
         \/ Press(t) \/ Shows(t) \/ Completes(t) \/ Stops(t) \/ Sends(t)
         \/ AwaitsFinality(t) \/ Refused(t) \/ Fails(t) \/ GasRises(t) \/ Closes(t)
  PROVE  BlockInv'
  <1>1. UNCHANGED <<chain, indexed>> /\ moves' \in Nat /\ moves <= moves' /\ Run(t) \in RunState
    BY ForkTypes, RunTypes
       DEF Press, Shows, Completes, Stops, Sends, AwaitsFinality, Refused, Fails, GasRises, Closes,
           Reviews, Begins, Asks, Aborts, HashReturned, RefusalReturned, Fault
  <1>2. ASSUME NEW review, Ended(t, review) PROVE BlockInv'  BY <1>1, <1>2, EndedReads
  <1>3. CASE Shows(t) \/ Stops(t) \/ AwaitsFinality(t) \/ Refused(t) \/ Fails(t) \/ GasRises(t)
             \/ HashReturned(t) \/ RefusalReturned(t)
    BY <1>2, <1>3 DEF Shows, Stops, AwaitsFinality, Refused, Fails, GasRises, HashReturned,
                      RefusalReturned, Blocked
  <1>4. ASSUME NEW run, NEW review, Becomes(t, run, review),
               run.pc \notin {"positions", "balances", "probe"}
        PROVE  BlockInv'
    BY <1>1, <1>4, NotReading, RunsRead
  <1>5. CASE Press(t)
    <2> DEFINE run == [NoRun EXCEPT !.pc = IF Resumable(Review(t)) THEN "review" ELSE "snapshot",
                                    !.ordinal = BatchOrdinal]
    <2>1. Becomes(t, run, Review(t))  BY <1>5 DEF Press, Runs
    <2>2. run.pc \in {"review", "snapshot"}  BY DEF NoRun
    <2> HIDE DEF run
    <2> QED  BY <1>4, <2>1, <2>2
  <1>6. CASE LiveStateFails(t)
    <2> DEFINE run == [NoRun EXCEPT !.pc = "snapshot", !.ordinal = Run(t).ordinal]
    <2>1. run.pc = "snapshot"  BY DEF NoRun
    <2>2. Becomes(t, run, None) \/ Blocked(t)  BY <1>6 DEF LiveStateFails
    <2> HIDE DEF run
    <2> QED  BY <1>2, <1>4, <2>1, <2>2 DEF Blocked
  <1>7. CASE Goes(t, "begin") \/ Goes(t, "wallet")
    <2>1. PICK pc \in {"begin", "wallet"} : Goes(t, pc)  BY <1>7
    <2> DEFINE run == [Run(t) EXCEPT !.pc = pc]
    <2>2. run.pc = pc  BY <1>1 DEF RunState
    <2>3. Becomes(t, run, Review(t))  BY <2>1 DEF Goes, Runs
    <2> HIDE DEF run
    <2> QED  BY <1>4, <2>2, <2>3
  <1>8. CASE Begins(t)
    <2> DEFINE run == [Run(t) EXCEPT !.pc = "guard", !.record = Len(records')]
    <2>1. run.pc = "guard"  BY <1>1 DEF RunState
    <2>2. Becomes(t, run, Review(t)) \/ Blocked(t)  BY <1>8 DEF Begins, Runs
    <2> HIDE DEF run
    <2> QED  BY <1>2, <1>4, <2>1, <2>2 DEF Blocked
  <1>9. CASE Completes(t) \/ Closes(t)
    <2>1. tabs \in [Tabs -> TabState] /\ tabs[t] \in TabState  BY DEF IInv
    <2> DEFINE new == IF Completes(t) THEN [tabs[t] EXCEPT !.run = NoRun, !.complete = TRUE] ELSE Opened
    <2>2. new.run = NoRun  BY <2>1 DEF TabState, Opened
    <2>3. tabs' = [tabs EXCEPT ![t] = new]  BY <1>9, <2>1 DEF Completes, Closes
    <2> HIDE DEF new
    <2>4. Run(t)' = NoRun /\ \A u \in Tabs \ {t} : Run(u)' = Run(u)  BY <2>1, <2>2, <2>3 DEF Run
    <2>5. \A u \in Tabs : Run(u)' = Run(u) \/ Reading(Run(u)')  BY <2>4, NotReading
    <2> QED  BY <1>1, <2>5, ForkTypes, ReadingStep
  <1> QED  BY <1>3, <1>5, <1>6, <1>7, <1>8, <1>9 DEF Sends, Reviews, Asks, Aborts

(* A block is replaced only by one of a later fork.                        *)
Grows ==
  /\ DOMAIN chain \subseteq DOMAIN chain'
  /\ \A n \in DOMAIN chain :
       /\ chain[n].fork <= chain'[n].fork
       /\ chain[n].fork = chain'[n].fork => chain[n].held = chain'[n].held
  /\ \A n \in DOMAIN chain' : chain'[n].fork \in Nat /\ chain'[n].fork <= moves'

LEMMA GrowsStep ==
  ASSUME IInv, BlockInv, Grows, IInv', indexed' = indexed, tabs' = tabs
  PROVE  BlockInv'
  <1>1. Forks'  BY DEF Grows, Forks
  <1>2. ASSUME NEW n \in DOMAIN indexed
        PROVE  /\ n \in DOMAIN chain' /\ indexed[n].fork <= chain'[n].fork
               /\ indexed[n].fork = chain'[n].fork =>
                    indexed[n].fork = chain[n].fork /\ indexed[n].held = chain'[n].held
    <2>1. /\ n \in DOMAIN chain /\ indexed[n].fork <= chain[n].fork
          /\ indexed[n].fork = chain[n].fork => indexed[n].held = chain[n].held
      BY DEF BlockInv, Behind
    <2>2. indexed[n].fork \in Nat /\ chain[n].fork \in Nat  BY <2>1, ForkTypes
    <2> QED  BY <2>1, <2>2 DEF Grows
  <1>3. Behind'  BY <1>2 DEF Behind
  <1>4. ASSUME NEW t \in Tabs PROVE Reading(Run(t))'
    <2> DEFINE pin == Run(t).pin
    <2>1. Run(t)' = Run(t) /\ Reading(Run(t))  BY DEF Run, BlockInv
    <2>2. ASSUME Run(t).pc \in {"balances", "probe"}, Canonical(pin)'
          PROVE  Run(t).bins = chain'[pin.number].held
      <3>1. /\ pin.number \in DOMAIN indexed /\ pin.fork <= indexed[pin.number].fork
            /\ pin.number \in DOMAIN chain /\ indexed[pin.number].fork <= chain[pin.number].fork
        BY <2>1, <2>2 DEF Reading, BlockInv, Behind
      <3>2. chain'[pin.number].fork = pin.fork  BY <2>1, <2>2 DEF Canonical
      <3>3. chain[pin.number].fork = pin.fork /\ chain[pin.number].held = chain'[pin.number].held
        BY <3>1, <3>2, ForkTypes DEF Grows
      <3>4. Canonical(pin)  BY <3>1, <3>3, ForkTypes DEF Canonical
      <3> QED  BY <2>1, <2>2, <3>3, <3>4 DEF Reading
    <2> QED  BY <2>1, <2>2 DEF Reading, Canonical
  <1> QED  BY <1>1, <1>3, <1>4 DEF BlockInv

LEMMA AppendGrows ==
  ASSUME IInv, BlockInv, NEW b, b.fork = chain[Len(chain)].fork, chain' = Append(chain, b),
         moves' \in Nat, moves <= moves'
  PROVE  Grows
  <1>1. chain \in Seq(BlockState)  BY DEF IInv, EnvironmentOK
  <1>2. /\ DOMAIN chain' = 1..(Len(chain) + 1) /\ chain'[Len(chain) + 1] = b
        /\ \A n \in DOMAIN chain : chain'[n] = chain[n]
    BY <1>1
  <1>3. Len(chain) \in DOMAIN chain /\ chain[Len(chain)].fork \in Nat
        /\ \A n \in DOMAIN chain : chain[n].fork \in Nat /\ chain[n].fork <= moves
    BY ForkTypes DEF BlockInv, Forks
  <1>4. \A n \in DOMAIN chain' : n \in DOMAIN chain \/ n = Len(chain) + 1  BY <1>2, ForkTypes
  <1>5. \A n \in DOMAIN chain' : chain'[n].fork \in Nat /\ chain'[n].fork <= moves'
    BY <1>2, <1>3, <1>4, ForkTypes
  <1>6. DOMAIN chain \subseteq DOMAIN chain'  BY <1>2, ForkTypes
  <1> QED  BY <1>2, <1>3, <1>5, <1>6 DEF Grows

LEMMA ChainRead ==
  ASSUME IInv, IInv', BlockInv,
         Moves \/ Reorganises \/ MinesEmpty \/ \E r \in DOMAIN records : Mines(r)
  PROVE  BlockInv'
  <1>1. indexed' = indexed /\ tabs' = tabs  BY DEF Moves, Reorganises, MinesEmpty, Mines
  <1>2. moves \in Nat /\ moves' \in Nat /\ moves <= moves'
    <2>1. moves' \in {moves, moves + 1}  BY DEF Moves, Reorganises, MinesEmpty, Mines, Move
    <2>2. moves \in Nat  BY ForkTypes
    <2> QED  BY <2>1, <2>2
  <1>3. CASE ~Reorganises
    <2>1. PICK held, tx, ok : chain' = Append(chain, Block(chain[Len(chain)].fork, held, tx, ok))
      BY <1>3 DEF Moves, MinesEmpty, Mines
    <2> DEFINE b == Block(chain[Len(chain)].fork, held, tx, ok)
    <2>2. b.fork = chain[Len(chain)].fork  BY DEF Block
    <2> HIDE DEF b
    <2>3. Grows  BY <1>2, <2>1, <2>2, AppendGrows DEF b
    <2> QED  BY <1>1, <2>3, GrowsStep
  <1>4. CASE Reorganises
    <2> DEFINE b == Block(moves', chain[Len(chain) - 1].held, 0, FALSE)
    <2>1. b.fork = moves' /\ chain' = [chain EXCEPT ![Len(chain)] = b]
      BY <1>4 DEF Reorganises, Block
    <2> HIDE DEF b
    <2>2. /\ DOMAIN chain' = DOMAIN chain /\ chain'[Len(chain)] = b
          /\ \A n \in DOMAIN chain \ {Len(chain)} : chain'[n] = chain[n]
      BY <2>1, ForkTypes
    <2>3. moves' = moves + 1  BY <1>4 DEF Reorganises, Move
    <2>4. \A n \in DOMAIN chain : chain[n].fork \in Nat /\ chain[n].fork <= moves
      BY ForkTypes DEF BlockInv, Forks
    <2>5. ASSUME NEW n \in DOMAIN chain
          PROVE  /\ chain[n].fork <= chain'[n].fork
                 /\ chain[n].fork = chain'[n].fork => chain[n].held = chain'[n].held
                 /\ chain'[n].fork \in Nat /\ chain'[n].fork <= moves'
      <3>1. CASE n = Len(chain)  BY <1>2, <2>1, <2>2, <2>3, <2>4, <3>1
      <3>2. CASE n # Len(chain)  BY <1>2, <2>2, <2>3, <2>4, <3>2
      <3> QED  BY <3>1, <3>2
    <2>6. Grows  BY <2>2, <2>5 DEF Grows
    <2> QED  BY <1>1, <2>6, GrowsStep
  <1> QED  BY <1>3, <1>4

(* The indexer catches up.                                                 *)
LEMMA IndexesRead == ASSUME IInv, BlockInv, Indexes PROVE BlockInv'
  <1>1. indexed' = chain /\ chain' = chain /\ tabs' = tabs /\ moves' = moves  BY DEF Indexes
  <1>2. Forks' /\ Behind'  BY <1>1, ForkTypes DEF BlockInv, Forks, Behind
  <1>3. ASSUME NEW t \in Tabs PROVE Reading(Run(t))'
    <2> DEFINE pin == Run(t).pin
    <2>1. Run(t)' = Run(t) /\ Reading(Run(t))  BY <1>1 DEF Run, BlockInv
    <2>2. ASSUME Run(t).pc \in {"positions", "balances", "probe"}
          PROVE  pin.number \in DOMAIN chain /\ pin.fork <= chain[pin.number].fork
      <3>1. /\ pin.number \in DOMAIN indexed /\ pin.fork <= indexed[pin.number].fork
            /\ pin.number \in DOMAIN chain /\ indexed[pin.number].fork <= chain[pin.number].fork
        BY <2>1, <2>2 DEF Reading, BlockInv, Behind
      <3> QED  BY <3>1, ForkTypes
    <2> QED  BY <1>1, <2>1, <2>2 DEF Reading, Canonical
  <1> QED  BY <1>2, <1>3 DEF BlockInv

(* A step of the journal.                                                  *)
LEMMA StillRead ==
  ASSUME IInv, BlockInv, UNCHANGED <<chain, indexed, tabs>>, moves' \in Nat, moves <= moves'
  PROVE  BlockInv'
  <1>1. \A t \in Tabs : Run(t)' = Run(t)  BY DEF Run
  <1> QED  BY <1>1, ForkTypes, ReadingStep

LEMMA BlockInitInv == Init => BlockInv
  <1> SUFFICES ASSUME Init PROVE BlockInv  OBVIOUS
  <1>1. PICK bins \in Holdings : chain = <<[fork |-> 0, held |-> bins, tx |-> 0, ok |-> FALSE]>>
    BY DEF Init
  <1>2. DOMAIN chain = {1} /\ chain[1].fork = 0  BY <1>1
  <1>3. Forks /\ Behind  BY <1>2 DEF Init, Forks, Behind
  <1>4. \A t \in Tabs : Run(t) = NoRun  BY DEF Init, Run, Opened
  <1> QED  BY <1>3, <1>4, NotReading DEF BlockInv

LEMMA BlockNextInv == IInv /\ BlockInv /\ [Next]_vars => BlockInv'
  <1> SUFFICES ASSUME IInv, BlockInv, [Next]_vars PROVE BlockInv'  OBVIOUS
  <1>1. IInv' /\ moves \in Nat  BY NextInv, ForkTypes
  <1>2. CASE UNCHANGED vars  BY <1>1, <1>2, StillRead DEF vars
  <1>3. CASE Presses  BY <1>3, TabsRead DEF Presses
  <1>4. ASSUME NEW t \in Tabs, Plans(t) PROVE BlockInv'
    BY <1>4, PlansRead, TabsRead DEF Plans
  <1>5. ASSUME NEW t \in Tabs,
               Sends(t) \/ AwaitsFinality(t) \/ Refused(t) \/ Fails(t) \/ GasRises(t) \/ Closes(t)
        PROVE BlockInv'
    BY <1>5, TabsRead
  <1>6. ASSUME NEW r \in DOMAIN records, Settles(r) \/ Declines(r) PROVE BlockInv'
    <2>1. CASE Mines(r)  BY <1>1, <2>1, ChainRead
    <2>2. CASE Confirms(r) \/ Reconciles(r) \/ Recovers(r) \/ Declines(r)
      <3>1. UNCHANGED <<chain, indexed, tabs>> /\ moves' = moves
        BY <2>2 DEF Confirms, Reconciles, Recovers, Declines, Fault
      <3> QED  BY <1>1, <3>1, StillRead
    <2> QED  BY <1>6, <2>1, <2>2 DEF Settles
  <1>7. CASE MinesEmpty \/ Moves \/ Reorganises  BY <1>1, <1>7, ChainRead
  <1>8. CASE Indexes  BY <1>8, IndexesRead
  <1>9. CASE RemovesPartly
    <2>1. UNCHANGED <<chain, indexed, tabs>> /\ moves' = moves + 1
      BY <1>9 DEF RemovesPartly, Move
    <2> QED  BY <1>1, <2>1, StillRead
  <1> QED  BY <1>2, <1>3, <1>4, <1>5, <1>6, <1>7, <1>8, <1>9 DEF Next, Continues, Confirmed

(* The bins of a batch that is shown, or the finding that none are left,   *)
(* are those of one canonical block, though the indexer moved on between   *)
(* the pin and the positions and the chain was reorganised between the     *)
(* reads (handleFullExitBatch reads the pinned block's hash again).        *)
THEOREM OneBlock == Spec => EnumeratesOneBlock
  <1>1. Init => IInv /\ BlockInv  BY InitInv, BlockInitInv
  <1>2. IInv /\ BlockInv /\ [Next]_vars => (IInv /\ BlockInv)'  BY NextInv, BlockNextInv
  <1>3. BlockInv /\ [Next]_vars =>
          [\A t \in Tabs : Shows(t) \/ Completes(t)
                           => Run(t).bins = chain[Run(t).pin.number].held]_vars
    <2> SUFFICES ASSUME BlockInv, NEW t \in Tabs, Shows(t) \/ Completes(t)
                 PROVE  Run(t).bins = chain[Run(t).pin.number].held
      OBVIOUS
    <2>1. Run(t).pc = "probe" /\ Canonical(Run(t).pin)  BY DEF Shows, Completes, Planned, At
    <2> QED  BY <2>1 DEF BlockInv, Reading
  <1>4. Spec => [](IInv /\ BlockInv)  BY <1>1, <1>2, PTL DEF Spec
  <1> QED  BY <1>3, <1>4, PTL DEF Spec, EnumeratesOneBlock

-----------------------------------------------------------------------------
(* The queries of WalletPositions.                                         *)

(* Keys and cache.                                                         *)

(* A key belongs to one head and owner.                                    *)
LEMMA KeyInjective ==
  ASSUME NEW s \in Snapshots, NEW h \in Heads, NEW o \in Owners,
         KeyOf(s[1], s[2]) = KeyOf(h, o)
  PROVE  s = <<h, o>>
  BY DEF KeyOf, Snapshots

LEMMA KeyInKeys ==
  ASSUME NEW h \in Heads, NEW o \in Owners
  PROVE  KeyOf(h, o) \in Keys
  <1> DEFINE s == <<h, o>>
  <1>1. s \in Snapshots /\ s[1] = h /\ s[2] = o  BY DEF Snapshots
  <1> HIDE DEF s
  <1> QED  BY <1>1 DEF Keys

CacheEntry == {e \in [key : Keys, snapshots : Snapshots, fresh : BOOLEAN] :
                 e.key = KeyOf(e.snapshots[1], e.snapshots[2])}

(* A cache holds the snapshots of each of its keys, each key once.         *)
CacheOK(c) ==
  /\ c \in Seq(CacheEntry)
  /\ \A i, j \in 1..Len(c) : c[i].key = c[j].key => i = j

LEMMA PlaceFound ==
  ASSUME CacheOK(cache), NEW k, Cached(k)
  PROVE  Place(k) \in 1..Len(cache) /\ cache[Place(k)].key = k
  BY DEF CacheOK, Cached, Place

LEMMA WithoutOK ==
  ASSUME CacheOK(cache), NEW k
  PROVE  /\ CacheOK(Without(k))
         /\ \A i \in 1..Len(Without(k)) : Without(k)[i].key # k
         /\ Len(Without(k)) <= Len(cache)
         /\ Cached(k) => Len(Without(k)) = Len(cache) - 1
  <1>1. CASE ~Cached(k)
    BY <1>1 DEF Cached, Without, CacheOK
  <1>2. CASE Cached(k)
    <2> DEFINE p == Place(k)
               w == Without(k)
               pre == SubSeq(cache, 1, p - 1)
               post == SubSeq(cache, p + 1, Len(cache))
    <2>1. p \in 1..Len(cache) /\ cache[p].key = k  BY <1>2, PlaceFound
    <2>2. Len(cache) \in Nat /\ \A i \in 1..Len(cache) : cache[i] \in CacheEntry
      BY DEF CacheOK
    <2>3. pre \in Seq(CacheEntry) /\ Len(pre) = p - 1 /\ \A i \in 1..(p - 1) : pre[i] = cache[i]
      <3>1. \A i \in 1..(p - 1) : cache[i] \in CacheEntry  BY <2>1, <2>2
      <3>2. p - 1 \in Int  BY <2>1
      <3> HIDE DEF p
      <3> QED  BY <2>1, <3>1, <3>2, SubSeqProperties
    <2>4. /\ post \in Seq(CacheEntry) /\ Len(post) = Len(cache) - p
          /\ \A i \in 1..(Len(cache) - p) : post[i] = cache[p + i]
      <3>1. \A i \in (p + 1)..Len(cache) : cache[i] \in CacheEntry  BY <2>1, <2>2
      <3>2. p + 1 \in Int /\ Len(cache) \in Int  BY <2>1, <2>2
      <3> HIDE DEF p
      <3>3. /\ post \in Seq(CacheEntry)
            /\ Len(post) = IF p + 1 <= Len(cache) THEN Len(cache) - (p + 1) + 1 ELSE 0
            /\ \A i \in 1..(Len(cache) - (p + 1) + 1) : post[i] = cache[p + 1 + i - 1]
        BY <3>1, <3>2, SubSeqProperties
      <3> QED  BY <2>1, <2>2, <3>3
    <2>5. w = pre \o post  BY <1>2 DEF Without
    <2> HIDE DEF p, w, pre, post
    <2>6. /\ w \in Seq(CacheEntry) /\ Len(w) = Len(cache) - 1
          /\ \A i \in 1..(Len(cache) - 1) : w[i] = cache[IF i < p THEN i ELSE i + 1]
      <3>1. /\ w \in Seq(CacheEntry) /\ Len(w) = Len(pre) + Len(post)
            /\ \A i \in 1..(Len(pre) + Len(post)) :
                 w[i] = IF i <= Len(pre) THEN pre[i] ELSE post[i - Len(pre)]
        BY <2>3, <2>4, <2>5, ConcatProperties
      <3>2. Len(w) = Len(cache) - 1  BY <2>1, <2>2, <2>3, <2>4, <3>1
      <3>3. ASSUME NEW i \in 1..(Len(cache) - 1)
            PROVE  w[i] = cache[IF i < p THEN i ELSE i + 1]
        <4>1. Len(pre) = p - 1 /\ i \in Nat /\ i \in 1..(Len(pre) + Len(post))
          BY <2>1, <2>2, <2>3, <2>4
        <4>2. w[i] = IF i <= p - 1 THEN pre[i] ELSE post[i - (p - 1)]
          BY <3>1, <4>1
        <4>3. CASE i < p
          <5>1. i <= p - 1 /\ i \in 1..(p - 1)  BY <2>1, <4>1, <4>3
          <5> QED  BY <2>3, <4>2, <4>3, <5>1
        <4>4. CASE ~(i < p)
          <5>1. ~(i <= p - 1) /\ i - (p - 1) \in 1..(Len(cache) - p)
            BY <2>1, <2>2, <4>1, <4>4
          <5>2. w[i] = post[i - (p - 1)] /\ i - (p - 1) \in 1..(Len(cache) - p)
            BY <4>2, <5>1
          <5>3. p + (i - (p - 1)) = i + 1  BY <2>1
          <5> QED  BY <2>4, <4>4, <5>2, <5>3
        <4> QED  BY <4>3, <4>4
      <3> QED  BY <3>1, <3>2, <3>3
    <2>7. \A i \in 1..Len(w) : (IF i < p THEN i ELSE i + 1) \in 1..Len(cache) \ {p}
      BY <2>1, <2>2, <2>6
    <2>8. \A i \in 1..Len(w) : w[i].key # k
      BY <2>1, <2>6, <2>7 DEF CacheOK
    <2>9. \A i, j \in 1..Len(w) : w[i].key = w[j].key => i = j
      <3> SUFFICES ASSUME NEW i \in 1..Len(w), NEW j \in 1..Len(w), w[i].key = w[j].key
                   PROVE  i = j
        OBVIOUS
      <3>1. (IF i < p THEN i ELSE i + 1) = (IF j < p THEN j ELSE j + 1)
        BY <2>6, <2>7 DEF CacheOK
      <3> QED  BY <2>1, <3>1
    <2> QED  BY <2>2, <2>6, <2>8, <2>9 DEF CacheOK, w
  <1> QED  BY <1>1, <1>2

LEMMA CacheAppendOK ==
  ASSUME NEW c, CacheOK(c), NEW e \in CacheEntry,
         \A i \in 1..Len(c) : c[i].key # e.key
  PROVE  CacheOK(Append(c, e)) /\ Len(Append(c, e)) = Len(c) + 1
  BY AppendProperties DEF CacheOK

LEMMA NewestOK ==
  ASSUME NEW c, CacheOK(c)
  PROVE  CacheOK(Newest(c)) /\ Len(Newest(c)) <= MaxCached
  <1> DEFINE m == IF Len(c) > MaxCached THEN Len(c) - MaxCached + 1 ELSE 1
  <1>1. MaxCached \in Nat \ {0}  BY PositionsAssumption DEF PositionsAssumption
  <1>2. Len(c) \in Nat /\ \A i \in 1..Len(c) : c[i] \in CacheEntry  BY DEF CacheOK
  <1>3. m \in Nat \ {0} /\ m <= Len(c) + 1 /\ Len(c) - m + 1 <= MaxCached  BY <1>1, <1>2
  <1>4. Newest(c) = SubSeq(c, m, Len(c))  BY DEF Newest
  <1> HIDE DEF m
  <1>5. /\ Newest(c) \in Seq(CacheEntry)
        /\ Len(Newest(c)) = IF m <= Len(c) THEN Len(c) - m + 1 ELSE 0
        /\ \A i \in 1..(Len(c) - m + 1) : Newest(c)[i] = c[m + i - 1]
    <2>1. \A i \in m..Len(c) : c[i] \in CacheEntry  BY <1>2, <1>3
    <2> QED  BY <1>2, <1>3, <1>4, <2>1, SubSeqProperties
  <1>6. Len(Newest(c)) = Len(c) - m + 1  BY <1>2, <1>3, <1>5
  <1>7. ASSUME NEW i \in 1..Len(Newest(c)), NEW j \in 1..Len(Newest(c)),
               Newest(c)[i].key = Newest(c)[j].key
        PROVE  i = j
    <2>1. m + i - 1 \in 1..Len(c) /\ m + j - 1 \in 1..Len(c)  BY <1>2, <1>3, <1>6
    <2>2. c[m + i - 1].key = c[m + j - 1].key  BY <1>5, <1>6, <1>7
    <2>3. m + i - 1 = m + j - 1  BY <2>1, <2>2 DEF CacheOK
    <2> QED  BY <1>2, <1>3, <1>6, <2>3
  <1> QED  BY <1>3, <1>5, <1>6, <1>7 DEF CacheOK

LEMMA StoredOK ==
  ASSUME CacheOK(cache), Len(cache) <= MaxCached, NEW s \in Snapshots
  PROVE  CacheOK(Stored(KeyOf(s[1], s[2]), s)) /\ Len(Stored(KeyOf(s[1], s[2]), s)) <= MaxCached
  <1> DEFINE k == KeyOf(s[1], s[2])
             e == Entry(k, s, TRUE)
  <1>1. e \in CacheEntry /\ e.key = k
    <2>1. k \in Keys  BY DEF Keys
    <2> HIDE DEF k
    <2>2. e \in [key : Keys, snapshots : Snapshots, fresh : BOOLEAN] /\ e.key = k /\ e.snapshots = s
      BY <2>1 DEF Entry
    <2> QED  BY <2>2 DEF CacheEntry, k
  <1> HIDE DEF k
  <1>2. CASE Cached(k)
    <2> DEFINE c == [i \in DOMAIN cache |-> IF cache[i].key = k THEN e ELSE cache[i]]
    <2>1. Stored(k, s) = c  BY <1>2 DEF Stored
    <2>2. cache \in Seq(CacheEntry) /\ Len(cache) \in Nat /\ DOMAIN cache = 1..Len(cache)
      BY DEF CacheOK
    <2>3. \A i \in 1..Len(cache) : c[i] \in CacheEntry /\ c[i].key = cache[i].key
      <3>1. \A i \in 1..Len(cache) : cache[i] \in CacheEntry  BY <2>2
      <3>2. \A i \in 1..Len(cache) : c[i] = IF cache[i].key = k THEN e ELSE cache[i]  BY <2>2
      <3> HIDE DEF e, c
      <3> QED  BY <1>1, <3>1, <3>2
    <2>4. c \in Seq(CacheEntry) /\ Len(c) = Len(cache)
      <3>1. c \in [1..Len(cache) -> CacheEntry]  BY <2>2, <2>3
      <3> HIDE DEF c
      <3>2. c \in Seq(CacheEntry)  BY <2>2, <3>1, SeqDef
      <3> QED  BY <2>2, <3>1, <3>2, LenProperties
    <2> HIDE DEF c
    <2> QED  BY <2>1, <2>2, <2>3, <2>4 DEF CacheOK, k
  <1>3. CASE ~Cached(k)
    <2>1. \A i \in 1..Len(cache) : cache[i].key # e.key
      <3>1. DOMAIN cache = 1..Len(cache)  BY DEF CacheOK
      <3> HIDE DEF e
      <3> QED  BY <1>1, <1>3, <3>1 DEF Cached
    <2>2. CacheOK(Append(cache, e))  BY <1>1, <2>1, CacheAppendOK
    <2>3. Stored(k, s) = Newest(Append(cache, e))  BY <1>3 DEF Stored
    <2> QED  BY <2>2, <2>3, NewestOK DEF k
  <1> QED  BY <1>2, <1>3

-----------------------------------------------------------------------------
(* Permits.                                                                *)

LoadStates == {"none", "queued", "running"}
Running(l) == {k \in Keys : l[k] = "running"}
Queued(l) == {k \in Keys : l[k] = "queued"}

(* PermitsExact, with the finiteness of what it counts.                    *)
PermitsOK(l, a, u) ==
  /\ l \in [Keys -> LoadStates] /\ a \in Nat /\ u \in Seq(Keys)
  /\ IsFiniteSet(Running(l)) /\ a = Cardinality(Running(l))
  /\ a <= MaxActive /\ Len(u) <= MaxQueued
  /\ u # <<>> => a = MaxActive
  /\ {u[i] : i \in DOMAIN u} = Queued(l)
  /\ \A i, j \in DOMAIN u : u[i] = u[j] => i = j

(* A load is admitted by a free permit or as a waiter.                     *)
LEMMA AcquireOK ==
  ASSUME PermitsOK(load, active, queue), NEW k \in Keys,
         load[k] = "none", ~Full, Acquire(k)
  PROVE  PermitsOK(load', active', queue')
  <1> USE PositionsAssumption DEF PositionsAssumption
  <1>1. /\ load \in [Keys -> LoadStates] /\ active \in Nat /\ queue \in Seq(Keys)
        /\ DOMAIN queue = 1..Len(queue) /\ Len(queue) \in Nat
    BY DEF PermitsOK
  <1>2. CASE Free
    <2>1. active' = active + 1 /\ load' = [load EXCEPT ![k] = "running"] /\ queue' = queue
      BY <1>2 DEF Acquire
    <2>2. Running(load') = Running(load) \cup {k} /\ k \notin Running(load)
      BY <1>1, <2>1 DEF Running
    <2>3. Queued(load') = Queued(load)
      BY <1>1, <2>1 DEF Queued
    <2>4. IsFiniteSet(Running(load')) /\ Cardinality(Running(load')) = active'
      <3>1. IsFiniteSet(Running(load)) /\ Cardinality(Running(load)) = active
        BY DEF PermitsOK
      <3>2. /\ IsFiniteSet(Running(load) \cup {k})
            /\ Cardinality(Running(load) \cup {k}) = Cardinality(Running(load)) + 1
        BY <2>2, <3>1, FS_AddElement
      <3> QED  BY <2>1, <2>2, <3>1, <3>2
    <2>5. load' \in [Keys -> LoadStates]  BY <1>1, <2>1 DEF LoadStates
    <2>6. queue = <<>> /\ active' <= MaxActive
      BY <1>1, <1>2, <2>1 DEF Free, PermitsOK
    <2>7. /\ {queue'[i] : i \in DOMAIN queue'} = Queued(load')
          /\ \A i, j \in DOMAIN queue' : queue'[i] = queue'[j] => i = j
      BY <2>1, <2>3 DEF PermitsOK
    <2>8. active' \in Nat /\ Len(queue') <= MaxQueued /\ queue' \in Seq(Keys)
      BY <1>1, <2>1 DEF PermitsOK
    <2> QED  BY <2>1, <2>4, <2>5, <2>6, <2>7, <2>8 DEF PermitsOK
  <1>3. CASE ~Free
    <2>1. queue' = Append(queue, k) /\ load' = [load EXCEPT ![k] = "queued"] /\ active' = active
      BY <1>3 DEF Acquire
    <2>2. Running(load') = Running(load)
      BY <1>1, <2>1 DEF Running
    <2>3. Queued(load') = Queued(load) \cup {k} /\ k \notin Queued(load)
      BY <1>1, <2>1 DEF Queued
    <2>4. load' \in [Keys -> LoadStates]  BY <1>1, <2>1 DEF LoadStates
    <2>5. /\ queue' \in Seq(Keys) /\ Len(queue') = Len(queue) + 1
          /\ \A i \in 1..Len(queue) : queue'[i] = queue[i]
          /\ queue'[Len(queue) + 1] = k
      BY <1>1, <2>1, AppendProperties
    <2>6. DOMAIN queue' = 1..(Len(queue) + 1)  BY <2>5, LenProperties
    <2>7. {queue'[i] : i \in DOMAIN queue'} = Queued(load')
      <3>1. {queue'[i] : i \in DOMAIN queue'} = {queue[i] : i \in DOMAIN queue} \cup {k}
        BY <1>1, <2>5, <2>6
      <3> QED  BY <2>3, <3>1 DEF PermitsOK
    <2>8. \A i, j \in DOMAIN queue' : queue'[i] = queue'[j] => i = j
      <3>1. \A i \in 1..Len(queue) : queue[i] # k
        BY <1>1, <2>3 DEF PermitsOK
      <3> QED  BY <1>1, <2>5, <2>6, <3>1 DEF PermitsOK
    <2>9. active' = MaxActive /\ Len(queue') <= MaxQueued
      BY <1>1, <1>3, <2>1, <2>5 DEF Full, Free, PermitsOK
    <2> QED  BY <1>1, <2>1, <2>2, <2>4, <2>5, <2>7, <2>8, <2>9 DEF PermitsOK
  <1> QED  BY <1>2, <1>3

(* A permit that is let go is the first waiter's, or free.                 *)
LEMMA ReleaseOK ==
  ASSUME PermitsOK(load, active, queue), NEW k \in Keys,
         load[k] = "running", Release(k)
  PROVE  PermitsOK(load', active', queue')
  <1> USE PositionsAssumption DEF PositionsAssumption
  <1>1. /\ load \in [Keys -> LoadStates] /\ active \in Nat /\ queue \in Seq(Keys)
        /\ DOMAIN queue = 1..Len(queue) /\ Len(queue) \in Nat
    BY DEF PermitsOK
  <1>2. k \in Running(load)  BY DEF Running
  <1>3. CASE queue = <<>>
    <2>1. active' = active - 1 /\ load' = [load EXCEPT ![k] = "none"] /\ queue' = queue
      BY <1>3 DEF Release
    <2>2. Running(load') = Running(load) \ {k}
      BY <1>1, <2>1 DEF Running
    <2>3. Queued(load') = Queued(load)
      BY <1>1, <2>1 DEF Queued
    <2>4. /\ IsFiniteSet(Running(load')) /\ Cardinality(Running(load')) = active - 1
          /\ active - 1 \in Nat
      <3>1. IsFiniteSet(Running(load)) /\ Cardinality(Running(load)) = active
        BY DEF PermitsOK
      <3>2. /\ IsFiniteSet(Running(load) \ {k})
            /\ Cardinality(Running(load) \ {k}) = Cardinality(Running(load)) - 1
        BY <1>2, <3>1, FS_RemoveElement
      <3>3. Cardinality(Running(load) \ {k}) \in Nat  BY <3>2, FS_CardinalityType
      <3> QED  BY <2>2, <3>1, <3>2, <3>3
    <2>5. load' \in [Keys -> LoadStates]  BY <1>1, <2>1 DEF LoadStates
    <2>6. active - 1 <= MaxActive  BY <1>1 DEF PermitsOK
    <2>7. /\ {queue'[i] : i \in DOMAIN queue'} = Queued(load')
          /\ \A i, j \in DOMAIN queue' : queue'[i] = queue'[j] => i = j
      BY <2>1, <2>3 DEF PermitsOK
    <2>8. Len(queue') <= MaxQueued /\ queue' \in Seq(Keys)
      BY <1>1, <2>1 DEF PermitsOK
    <2> QED  BY <1>3, <2>1, <2>4, <2>5, <2>6, <2>7, <2>8 DEF PermitsOK
  <1>4. CASE queue # <<>>
    <2> DEFINE w == Head(queue)
    <2>1. /\ queue' = Tail(queue) /\ active' = active
          /\ load' = [load EXCEPT ![k] = "none", ![w] = "running"]
      BY <1>4 DEF Release
    <2>2. /\ queue' \in Seq(Keys) /\ Len(queue') = Len(queue) - 1
          /\ \A i \in 1..Len(queue') : queue'[i] = queue[i + 1]
      BY <1>1, <1>4, <2>1, HeadTailProperties
    <2>3. w = queue[1] /\ Len(queue) >= 1
      <3>1. Len(queue) \in Nat \ {0}  BY <1>1, <1>4, EmptySeq
      <3> QED  BY <1>1, <1>4, <3>1
    <2> HIDE DEF w
    <2>4. w \in Queued(load)  BY <1>1, <2>3 DEF PermitsOK
    <2>5. w \in Keys /\ load[w] = "queued" /\ w # k  BY <2>4 DEF Queued
    <2>6. Running(load') = (Running(load) \ {k}) \cup {w} /\ w \notin Running(load)
      BY <1>1, <2>1, <2>5 DEF Running
    <2>7. Queued(load') = Queued(load) \ {w}
      BY <1>1, <1>2, <2>1, <2>5 DEF Queued, Running
    <2>8. IsFiniteSet(Running(load')) /\ Cardinality(Running(load')) = active
      <3>1. IsFiniteSet(Running(load)) /\ Cardinality(Running(load)) = active
        BY DEF PermitsOK
      <3>2. /\ IsFiniteSet(Running(load) \ {k})
            /\ Cardinality(Running(load) \ {k}) = active - 1
        BY <1>2, <3>1, FS_RemoveElement
      <3>3. /\ IsFiniteSet((Running(load) \ {k}) \cup {w})
            /\ Cardinality((Running(load) \ {k}) \cup {w}) = active - 1 + 1
        BY <2>6, <3>2, FS_AddElement
      <3> QED  BY <1>1, <2>6, <3>3
    <2>9. load' \in [Keys -> LoadStates]  BY <1>1, <2>1 DEF LoadStates
    <2>10. DOMAIN queue' = 1..(Len(queue) - 1)  BY <2>2, LenProperties
    <2>11. {queue'[i] : i \in DOMAIN queue'} = Queued(load')
      <3>1. \A i \in 1..Len(queue) : queue[i] = w => i = 1
        BY <1>1, <2>3 DEF PermitsOK
      <3>2. ASSUME NEW i \in DOMAIN queue' PROVE queue'[i] \in Queued(load) \ {w}
        <4>1. i + 1 \in 1..Len(queue) /\ i + 1 # 1 /\ queue'[i] = queue[i + 1]
          BY <1>1, <2>2, <2>10
        <4> QED  BY <1>1, <3>1, <4>1 DEF PermitsOK
      <3>3. ASSUME NEW x \in Queued(load) \ {w} PROVE \E i \in DOMAIN queue' : queue'[i] = x
        <4>1. PICK j \in 1..Len(queue) : queue[j] = x  BY <1>1 DEF PermitsOK
        <4>2. j # 1  BY <2>3, <4>1
        <4>3. j - 1 \in DOMAIN queue' /\ (j - 1) + 1 = j  BY <1>1, <2>10, <4>2
        <4> QED  BY <2>2, <2>10, <4>1, <4>3
      <3> QED  BY <2>7, <3>2, <3>3
    <2>12. \A i, j \in DOMAIN queue' : queue'[i] = queue'[j] => i = j
      <3> SUFFICES ASSUME NEW i \in DOMAIN queue', NEW j \in DOMAIN queue', queue'[i] = queue'[j]
                   PROVE  i = j
        OBVIOUS
      <3>1. i + 1 \in DOMAIN queue /\ j + 1 \in DOMAIN queue /\ queue[i + 1] = queue[j + 1]
        BY <1>1, <2>2, <2>10
      <3>2. i + 1 = j + 1  BY <3>1 DEF PermitsOK
      <3> QED  BY <2>10, <3>2
    <2>13. active = MaxActive /\ Len(queue') <= MaxQueued
      BY <1>1, <1>4, <2>2 DEF PermitsOK
    <2> QED  BY <1>1, <2>1, <2>2, <2>8, <2>9, <2>11, <2>12, <2>13 DEF PermitsOK
  <1> QED  BY <1>3, <1>4

-----------------------------------------------------------------------------
(* The invariant.                                                          *)

Requests == [pc : States, owner : Owners \cup {Nobody}, head : Heads \cup {Nobody},
             attempt : 0..(Attempts - 1), snapshots : Snapshots \cup {Nobody}]

(* A query past its read of the head has an owner and a head, and what it  *)
(* has got are the snapshots of the two.                                   *)
QueryOK(r) ==
  /\ r \in Requests
  /\ r.pc # "idle" => r.owner \in Owners
  /\ r.pc \in {"lookup", "wait", "check"} => r.head \in Heads
  /\ r.pc = "check" => r.snapshots = <<r.head, r.owner>>

QueriesOK == query \in [Queries -> {r \in Requests : QueryOK(r)}]

PositionsInv ==
  /\ head \in Heads
  /\ QueriesOK
  /\ CacheOK(cache) /\ Len(cache) <= MaxCached
  /\ PermitsOK(load, active, queue)

(* What a query is made of after a step of it.                             *)
LEMMA NoQueryOK == NoQuery \in Requests /\ QueryOK(NoQuery)
  BY PositionsAssumption DEF PositionsAssumption, NoQuery, Requests, QueryOK, States

LEMMA QuerySet ==
  ASSUME QueriesOK, NEW q \in Queries, NEW r \in Requests, QueryOK(r),
         query' = [query EXCEPT ![q] = r]
  PROVE  QueriesOK'
  BY DEF QueriesOK

(* A query that has looked up its key has one.                             *)
LEMMA KeyOfQuery ==
  ASSUME QueriesOK, NEW q \in Queries, query[q].pc \in {"lookup", "wait", "check"}
  PROVE  /\ query[q] \in Requests /\ QueryOK(query[q])
         /\ query[q].head \in Heads /\ query[q].owner \in Owners /\ Key(q) \in Keys
  BY KeyInKeys DEF QueriesOK, QueryOK, Key

(* A service that has answered nothing satisfies it.                       *)
THEOREM InitPositionsInv == PositionsInit => PositionsInv
  <1> SUFFICES ASSUME PositionsInit PROVE PositionsInv  OBVIOUS
  <1> USE PositionsAssumption DEF PositionsAssumption
  <1>1. QueriesOK  BY NoQueryOK DEF PositionsInit, QueriesOK
  <1>2. CacheOK(cache) /\ Len(cache) <= MaxCached
    BY EmptySeq DEF PositionsInit, CacheOK
  <1>3. Running(load) = {} /\ Queued(load) = {}
    BY DEF PositionsInit, Running, Queued
  <1>4. PermitsOK(load, active, queue)
    <2>1. load \in [Keys -> LoadStates]  BY DEF PositionsInit, LoadStates
    <2>2. /\ queue = <<>> /\ active = 0 /\ queue \in Seq(Keys) /\ Len(queue) = 0
          /\ DOMAIN queue = {}
      BY EmptySeq DEF PositionsInit
    <2> QED  BY <1>3, <2>1, <2>2, FS_EmptySet DEF PermitsOK
  <1> QED  BY <1>1, <1>2, <1>4 DEF PositionsInv, PositionsInit

(* The load of a key settles.                                              *)
LEMMA SettlesInv ==
  ASSUME PositionsInv, NEW k \in Keys, LoadSettles(k)
  PROVE  PositionsInv'
  <1>1. PermitsOK(load', active', queue')
    BY ReleaseOK DEF PositionsInv, LoadSettles, LoadSucceeds, LoadFails
  <1>2. CASE LoadSucceeds(k)
    <2>1. PICK s \in Snapshots :
            /\ KeyOf(s[1], s[2]) = k
            /\ cache' = Stored(k, s)
            /\ query' = [q \in Queries |->
                           IF Waiting(q, k) THEN [query[q] EXCEPT !.pc = "check", !.snapshots = s]
                                            ELSE query[q]]
      BY <1>2 DEF LoadSucceeds
    <2>2. CacheOK(cache') /\ Len(cache') <= MaxCached
      BY <2>1, StoredOK DEF PositionsInv
    <2>3. ASSUME NEW q \in Queries, Waiting(q, k)
          PROVE  LET r == [query[q] EXCEPT !.pc = "check", !.snapshots = s]
                 IN  r \in Requests /\ QueryOK(r)
      <3>1. /\ query[q] \in Requests /\ query[q].pc = "wait" /\ Key(q) = k
            /\ query[q].head \in Heads /\ query[q].owner \in Owners
        BY <2>3, KeyOfQuery DEF Waiting, PositionsInv
      <3>2. s = <<query[q].head, query[q].owner>>
        BY <2>1, <3>1, KeyInjective DEF Key
      <3> QED  BY <3>1, <3>2 DEF Requests, QueryOK, States
    <2>4. QueriesOK'  BY <2>1, <2>3 DEF PositionsInv, QueriesOK
    <2>5. head' = head  BY <1>2 DEF LoadSucceeds
    <2> QED  BY <1>1, <2>2, <2>4, <2>5 DEF PositionsInv
  <1>3. CASE LoadFails(k)
    <2>1. QueriesOK'  BY <1>3, NoQueryOK DEF LoadFails, PositionsInv, QueriesOK
    <2> QED  BY <1>1, <1>3, <2>1 DEF LoadFails, PositionsInv
  <1> QED  BY <1>2, <1>3 DEF LoadSettles

(* A query takes a step.                                                   *)
LEMMA QueryInv ==
  ASSUME PositionsInv, NEW q \in Queries, Ask(q) \/ Step(q) \/ Deadline(q)
  PROVE  PositionsInv'
  <1> DEFINE r == query[q]
  <1> USE DEF PositionsInv
  <1>1. r \in Requests /\ QueryOK(r)  BY DEF QueriesOK
  <1>2. CASE Ask(q)
    <2>1. PICK o \in Owners : query' = [query EXCEPT ![q] = [NoQuery EXCEPT !.pc = "head", !.owner = o]]
      BY <1>2 DEF Ask
    <2>2. [NoQuery EXCEPT !.pc = "head", !.owner = o] \in Requests
      BY NoQueryOK DEF Requests, States
    <2>3. QueryOK([NoQuery EXCEPT !.pc = "head", !.owner = o])
      BY <2>2, NoQueryOK DEF QueryOK, Requests
    <2> QED  BY <1>2, <2>1, <2>2, <2>3, QuerySet DEF Ask
  <1>3. CASE ReadHead(q)
    <2> DEFINE n == [r EXCEPT !.pc = "lookup", !.head = head]
    <2>1. query' = [query EXCEPT ![q] = n]  BY <1>3 DEF ReadHead, QueriesOK
    <2>2. n \in Requests /\ QueryOK(n)
      BY <1>1, <1>3 DEF ReadHead, Requests, QueryOK, States
    <2> HIDE DEF n
    <2> QED  BY <1>3, <2>1, <2>2, QuerySet DEF ReadHead
  <1>4. CASE Hit(q)
    <2> DEFINE e == EntryOf(Key(q))
               n == [r EXCEPT !.pc = "check", !.snapshots = e.snapshots]
    <2>1. r.pc = "lookup" /\ r.head \in Heads /\ r.owner \in Owners
      BY <1>4, KeyOfQuery DEF Hit
    <2>2. e \in CacheEntry /\ e.key = Key(q)
      BY <1>4, PlaceFound DEF Hit, EntryOf, CacheOK
    <2>3. e.snapshots \in Snapshots /\ e.snapshots = <<r.head, r.owner>>
      BY <2>1, <2>2, KeyInjective DEF CacheEntry, Key
    <2>4. query' = [query EXCEPT ![q] = n]  BY <1>4 DEF Hit, QueriesOK
    <2>5. n \in Requests /\ QueryOK(n)
      BY <1>1, <2>1, <2>3 DEF Requests, QueryOK, States
    <2>6. CacheOK(cache') /\ Len(cache') <= MaxCached
      <3>1. /\ CacheOK(Without(Key(q))) /\ Len(Without(Key(q))) = Len(cache) - 1
            /\ \A i \in 1..Len(Without(Key(q))) : Without(Key(q))[i].key # Key(q)
        BY <1>4, WithoutOK DEF Hit
      <3>2. Len(cache) \in Nat /\ MaxCached \in Nat
        BY PositionsAssumption DEF CacheOK, PositionsAssumption
      <3>3. cache' = Append(Without(Key(q)), e)  BY <1>4 DEF Hit
      <3> HIDE DEF e
      <3> QED  BY <2>2, <3>1, <3>2, <3>3, CacheAppendOK
    <2> HIDE DEF n, e
    <2> QED  BY <1>4, <2>4, <2>5, <2>6, QuerySet DEF Hit
  <1>5. ASSUME NotCached(q)
        PROVE  /\ r.pc = "lookup" /\ Key(q) \in Keys
               /\ CacheOK(cache') /\ Len(cache') <= MaxCached
               /\ [r EXCEPT !.pc = "wait"] \in Requests /\ QueryOK([r EXCEPT !.pc = "wait"])
    <2>1. r.pc = "lookup" /\ Key(q) \in Keys /\ r.head \in Heads /\ r.owner \in Owners
      BY <1>5, KeyOfQuery DEF NotCached
    <2>2. CacheOK(cache') /\ Len(cache') <= MaxCached
      <3>1. /\ CacheOK(Without(Key(q))) /\ Len(Without(Key(q))) <= Len(cache)
        BY WithoutOK
      <3>2. Len(cache) \in Nat /\ Len(Without(Key(q))) \in Nat /\ MaxCached \in Nat
        BY <3>1, PositionsAssumption DEF CacheOK, PositionsAssumption
      <3> QED  BY <1>5, <3>1, <3>2 DEF NotCached
    <2> QED  BY <1>1, <2>1, <2>2 DEF Requests, QueryOK, States
  <1>6. CASE Join(q)
    <2>1. query' = [query EXCEPT ![q] = [r EXCEPT !.pc = "wait"]]  BY <1>6 DEF Join, QueriesOK
    <2> QED  BY <1>5, <1>6, <2>1, QuerySet DEF Join
  <1>7. CASE StartLoad(q)
    <2>1. query' = [query EXCEPT ![q] = [r EXCEPT !.pc = "wait"]]  BY <1>7 DEF StartLoad, QueriesOK
    <2>2. PermitsOK(load', active', queue')
      BY <1>5, <1>7, AcquireOK DEF StartLoad
    <2> QED  BY <1>5, <1>7, <2>1, <2>2, QuerySet DEF StartLoad
  <1>8. CASE RefuseLoad(q)
    BY <1>5, <1>8, NoQueryOK, QuerySet DEF RefuseLoad
  <1>9. CASE Answer(q)
    BY <1>9, NoQueryOK, QuerySet DEF Answer
  <1>10. CASE Retry(q)
    <2> DEFINE again == [r EXCEPT !.pc = "head", !.head = Nobody, !.snapshots = Nobody,
                                  !.attempt = r.attempt + 1]
    <2>1. query' = [query EXCEPT ![q] = IF again.attempt < Attempts THEN again ELSE NoQuery]
      BY <1>10 DEF Retry
    <2>2. again.attempt < Attempts => again \in Requests /\ QueryOK(again)
      <3> SUFFICES ASSUME again.attempt < Attempts PROVE again \in Requests /\ QueryOK(again)
        OBVIOUS
      <3>1. r.attempt \in Nat /\ r.attempt + 1 < Attempts /\ Attempts \in Nat
        BY <1>1, PositionsAssumption DEF Requests, PositionsAssumption
      <3>2. r.attempt + 1 \in 0..(Attempts - 1)  BY <3>1
      <3>3. r.owner \in Owners  BY <1>1, <1>10 DEF Retry, QueryOK
      <3>4. again \in Requests  BY <1>1, <3>2 DEF Requests, States
      <3> QED  BY <1>1, <3>3, <3>4 DEF Requests, QueryOK
    <2> HIDE DEF again
    <2> QED  BY <1>10, <2>1, <2>2, NoQueryOK, QuerySet DEF Retry
  <1>11. CASE Deadline(q)
    BY <1>11, NoQueryOK, QuerySet DEF Deadline
  <1> QED  BY <1>2, <1>3, <1>4, <1>6, <1>7, <1>8, <1>9, <1>10, <1>11 DEF Step

(* Every step of a query, a load or the head preserves it.                 *)
THEOREM NextPositionsInv == PositionsInv /\ [PositionsNext]_positionsVars => PositionsInv'
  <1> SUFFICES ASSUME PositionsInv, [PositionsNext]_positionsVars PROVE PositionsInv'  OBVIOUS
  <1>1. CASE MoveHead
    BY <1>1 DEF MoveHead, PositionsInv, QueriesOK
  <1>2. CASE Expire
    <2>1. PICK i \in DOMAIN cache : cache' = [cache EXCEPT ![i].fresh = FALSE]
      BY <1>2 DEF Expire
    <2> DEFINE e == [cache[i] EXCEPT !.fresh = FALSE]
    <2>2. cache \in Seq(CacheEntry) /\ DOMAIN cache = 1..Len(cache)
      BY DEF PositionsInv, CacheOK
    <2>3. e \in CacheEntry /\ e.key = cache[i].key
      <3>1. cache[i] \in CacheEntry  BY <2>2
      <3> QED  BY <3>1 DEF CacheEntry
    <2>4. cache' = [cache EXCEPT ![i] = e]  BY <2>1
    <2> HIDE DEF e
    <2>5. /\ cache' \in Seq(CacheEntry) /\ Len(cache') = Len(cache)
          /\ \A j \in 1..Len(cache) : cache'[j].key = cache[j].key
      BY <2>2, <2>3, <2>4, ExceptSeq
    <2>6. CacheOK(cache') /\ Len(cache') <= MaxCached
      BY <2>5 DEF PositionsInv, CacheOK
    <2> QED  BY <1>2, <2>6 DEF Expire, PositionsInv, QueriesOK
  <1>3. CASE \E k \in Keys : LoadSettles(k)
    BY <1>3, SettlesInv
  <1>4. CASE \E q \in Queries : Ask(q) \/ Step(q) \/ Deadline(q)
    BY <1>4, QueryInv
  <1>5. CASE UNCHANGED positionsVars
    BY <1>5 DEF positionsVars, PositionsInv, QueriesOK
  <1> QED  BY <1>1, <1>2, <1>3, <1>4, <1>5 DEF PositionsNext

(* The invariant holds throughout.                                         *)
THEOREM PositionsInvariance == PositionsSpec => []PositionsInv
  BY InitPositionsInv, NextPositionsInv, PTL DEF PositionsSpec

LEMMA InvPermits == PositionsInv => PermitsExact
  <1> SUFFICES ASSUME PositionsInv PROVE PermitsExact  OBVIOUS
  <1>1. PositionsTypeOK
    <2>1. cache \in Seq(CacheEntry) /\ DOMAIN cache = 1..Len(cache)  BY DEF PositionsInv, CacheOK
    <2>2. \A i \in DOMAIN cache : cache[i] \in CacheEntry  BY <2>1
    <2>3. \A i \in DOMAIN cache :
            /\ cache[i].key \in Keys /\ cache[i].snapshots \in Snapshots /\ cache[i].fresh \in BOOLEAN
            /\ \A j \in DOMAIN cache : cache[j].key = cache[i].key => i = j
      BY <2>1, <2>2 DEF PositionsInv, CacheOK, CacheEntry
    <2>4. query \in [Queries -> Requests]  BY DEF PositionsInv, QueriesOK
    <2> QED  BY <2>3, <2>4 DEF PositionsTypeOK, PositionsInv, PermitsOK, LoadStates, Requests
  <1> QED  BY <1>1 DEF PermitsExact, PositionsInv, PermitsOK, Running, Queued

(* PermitsExact: a permit is a running load, a waiter a queued load, and   *)
(* nothing waits while a permit is free, for any limits and keys.          *)
THEOREM Permits == PositionsSpec => []PermitsExact
  BY PositionsInvariance, InvPermits, PTL

(* AnswersMatchHead: an answer is made of the owner's snapshots at the     *)
(* head it is given for.                                                   *)
THEOREM Answers == PositionsSpec => AnswersMatchHead
  <1>1. PositionsInv /\ [PositionsNext]_positionsVars
          => [\A q \in Queries : Answer(q) => query[q].snapshots = <<head, query[q].owner>>]_positionsVars
    <2> SUFFICES ASSUME PositionsInv, NEW q \in Queries, Answer(q)
                 PROVE  query[q].snapshots = <<head, query[q].owner>>
      OBVIOUS
    <2>1. QueryOK(query[q])  BY DEF PositionsInv, QueriesOK
    <2> QED  BY <2>1 DEF Answer, Unmoved, QueryOK
  <1> QED  BY <1>1, PositionsInvariance, PTL DEF PositionsSpec, AnswersMatchHead
=============================================================================
