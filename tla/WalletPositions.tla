-------------------------- MODULE WalletPositions --------------------------
(***************************************************************************)
(* Wallet position queries of the analytics service (service.ts): a query  *)
(* reads the canonical head, gets the position snapshots of that head from *)
(* a cache, a load under way or a load of its own, and answers only if the *)
(* head is still the same.  A BoundedExecutor admits the loads.            *)
(***************************************************************************)
EXTENDS Naturals, Sequences, FiniteSets

CONSTANTS
  Queries,    \* requests that may be under way
  Owners,
  Heads,      \* canonical heads, by hash
  Number,     \* [Heads -> Nat]: the number of a head
  MaxActive,  \* MAX_CONCURRENT_POSITION_LOADS
  MaxQueued,  \* MAX_QUEUED_POSITION_LOADS
  MaxCached,  \* MAX_POSITION_SNAPSHOT_CACHE_ENTRIES
  Attempts,   \* attempts of a query
  Nobody

ASSUME PositionsAssumption ==
  /\ MaxActive \in Nat \ {0} /\ MaxQueued \in Nat
  /\ MaxCached \in Nat \ {0} /\ Attempts \in Nat \ {0}
  /\ Number \in [Heads -> Nat]

VARIABLES
  head,    \* the engine's canonical head
  query,   \* [Queries -> the local state of a query]
  load,    \* positionSnapshotInflight: [Keys -> "none", "queued", "running"]
  active,  \* permits of positionLoads
  queue,   \* its waiters
  cache    \* positionSnapshotCache, oldest first: what it has for which key

positionsVars == <<head, query, load, active, queue, cache>>

(* Mutant: the key has the head's number only.                             *)
KeyOf_Number(h, o) == <<Number[h], Number[h], o>>

(* The key of a load: number, hash and owner.                              *)
KeyOf(h, o) == <<Number[h], h, o>>

Snapshots == Heads \X Owners
Keys == {KeyOf(s[1], s[2]) : s \in Snapshots}

NoQuery == [pc |-> "idle", owner |-> Nobody, head |-> Nobody, attempt |-> 0, snapshots |-> Nobody]

PositionsInit ==
  /\ head \in Heads
  /\ query = [q \in Queries |-> NoQuery]
  /\ load = [k \in Keys |-> "none"]
  /\ active = 0
  /\ queue = <<>>
  /\ cache = <<>>

-----------------------------------------------------------------------------
(* BoundedExecutor                                                         *)
Free == active < MaxActive
Full == ~Free /\ Len(queue) >= MaxQueued

Acquire(k) ==
  IF Free
  THEN /\ active' = active + 1
       /\ load' = [load EXCEPT ![k] = "running"]
       /\ UNCHANGED queue
  ELSE /\ queue' = Append(queue, k)
       /\ load' = [load EXCEPT ![k] = "queued"]
       /\ UNCHANGED active

(* Mutant: the permit is given back and handed on.                         *)
Release_Twice(k) ==
  IF queue = <<>>
  THEN /\ active' = active - 1
       /\ load' = [load EXCEPT ![k] = "none"]
       /\ UNCHANGED queue
  ELSE /\ active' = active - 1
       /\ queue' = Tail(queue)
       /\ load' = [load EXCEPT ![k] = "none", ![Head(queue)] = "running"]

(* Mutant: the permit goes back, and the waiters are not told.             *)
Release_Forgets(k) ==
  /\ active' = active - 1
  /\ load' = [load EXCEPT ![k] = "none"]
  /\ UNCHANGED queue

(* The permit goes to the first waiter, or back.                           *)
Release(k) ==
  IF queue = <<>>
  THEN /\ active' = active - 1
       /\ load' = [load EXCEPT ![k] = "none"]
       /\ UNCHANGED queue
  ELSE /\ queue' = Tail(queue)
       /\ load' = [load EXCEPT ![k] = "none", ![Head(queue)] = "running"]
       /\ UNCHANGED active

-----------------------------------------------------------------------------
(* The cache, in order of use.                                             *)
Entry(k, s, fresh) == [key |-> k, snapshots |-> s, fresh |-> fresh]
Cached(k) == \E i \in DOMAIN cache : cache[i].key = k
Place(k) == CHOOSE i \in DOMAIN cache : cache[i].key = k
EntryOf(k) == cache[Place(k)]

Without(k) ==
  IF Cached(k)
  THEN SubSeq(cache, 1, Place(k) - 1) \o SubSeq(cache, Place(k) + 1, Len(cache))
  ELSE cache

(* Mutant: nothing is evicted before the cache is larger by one.           *)
Newest_OneMore(entries) ==
  SubSeq(entries, IF Len(entries) > MaxCached + 1 THEN Len(entries) - MaxCached ELSE 1, Len(entries))

Newest(entries) ==
  SubSeq(entries, IF Len(entries) > MaxCached THEN Len(entries) - MaxCached + 1 ELSE 1, Len(entries))

(* A key that is set again keeps its place.                                *)
Stored(k, s) ==
  IF Cached(k)
  THEN [i \in DOMAIN cache |-> IF cache[i].key = k THEN Entry(k, s, TRUE) ELSE cache[i]]
  ELSE Newest(Append(cache, Entry(k, s, TRUE)))

Expire ==
  /\ \E i \in DOMAIN cache :
       cache[i].fresh /\ cache' = [cache EXCEPT ![i].fresh = FALSE]
  /\ UNCHANGED <<head, query, load, active, queue>>

-----------------------------------------------------------------------------
(* queryWalletPositions                                                    *)
Ask(q) ==
  /\ query[q].pc = "idle"
  /\ \E o \in Owners : query' = [query EXCEPT ![q] = [NoQuery EXCEPT !.pc = "head", !.owner = o]]
  /\ UNCHANGED <<head, load, active, queue, cache>>

ReadHead(q) ==
  /\ query[q].pc = "head"
  /\ query' = [query EXCEPT ![q].pc = "lookup", ![q].head = head]
  /\ UNCHANGED <<head, load, active, queue, cache>>

Key(q) == KeyOf(query[q].head, query[q].owner)

(* loadPositionSnapshots: a fresh entry, a load under way, or a new load.  *)
Hit(q) ==
  /\ query[q].pc = "lookup"
  /\ Cached(Key(q)) /\ EntryOf(Key(q)).fresh
  /\ cache' = Append(Without(Key(q)), EntryOf(Key(q)))
  /\ query' = [query EXCEPT ![q].pc = "check", ![q].snapshots = EntryOf(Key(q)).snapshots]
  /\ UNCHANGED <<head, load, active, queue>>

NotCached(q) ==
  /\ query[q].pc = "lookup"
  /\ Cached(Key(q)) => ~EntryOf(Key(q)).fresh
  /\ cache' = Without(Key(q))

Join(q) ==
  /\ NotCached(q) /\ load[Key(q)] # "none"
  /\ query' = [query EXCEPT ![q].pc = "wait"]
  /\ UNCHANGED <<head, load, active, queue>>

StartLoad(q) ==
  /\ NotCached(q) /\ load[Key(q)] = "none" /\ ~Full
  /\ Acquire(Key(q))
  /\ query' = [query EXCEPT ![q].pc = "wait"]
  /\ UNCHANGED head

RefuseLoad(q) ==
  /\ NotCached(q) /\ load[Key(q)] = "none" /\ Full
  /\ query' = [query EXCEPT ![q] = NoQuery]
  /\ UNCHANGED <<head, load, active, queue>>

(* The queries that wait for the load of a key go on when it settles.      *)
Waiting(q, k) == query[q].pc = "wait" /\ Key(q) = k

(* The provider answers for the head and owner of the query that asked.    *)
LoadSucceeds(k) ==
  /\ load[k] = "running"
  /\ \E s \in Snapshots :
       /\ KeyOf(s[1], s[2]) = k
       /\ cache' = Stored(k, s)
       /\ query' = [q \in Queries |->
                      IF Waiting(q, k) THEN [query[q] EXCEPT !.pc = "check", !.snapshots = s]
                                       ELSE query[q]]
  /\ Release(k)
  /\ UNCHANGED head

LoadFails(k) ==
  /\ load[k] = "running"
  /\ query' = [q \in Queries |-> IF Waiting(q, k) THEN NoQuery ELSE query[q]]
  /\ Release(k)
  /\ UNCHANGED <<head, cache>>

(* withResponseDeadline: the load goes on without the query.               *)
Deadline(q) ==
  /\ query[q].pc = "wait"
  /\ query' = [query EXCEPT ![q] = NoQuery]
  /\ UNCHANGED <<head, load, active, queue, cache>>

(* Mutant: the head is not compared again.                                 *)
Unmoved_Assumed(q) == TRUE

(* queryWalletPositionsWithSnapshots                                       *)
Unmoved(q) == Number[query[q].head] = Number[head] /\ query[q].head = head

Answer(q) ==
  /\ query[q].pc = "check" /\ Unmoved(q)
  /\ query' = [query EXCEPT ![q] = NoQuery]
  /\ UNCHANGED <<head, load, active, queue, cache>>

Retry(q) ==
  /\ query[q].pc = "check" /\ ~Unmoved(q)
  /\ LET again == [query[q] EXCEPT !.pc = "head", !.head = Nobody, !.snapshots = Nobody,
                                   !.attempt = query[q].attempt + 1]
     IN query' = [query EXCEPT ![q] = IF again.attempt < Attempts THEN again ELSE NoQuery]
  /\ UNCHANGED <<head, load, active, queue, cache>>

MoveHead ==
  /\ \E h \in Heads \ {head} : head' = h
  /\ UNCHANGED <<query, load, active, queue, cache>>

-----------------------------------------------------------------------------
LoadSettles(k) == LoadSucceeds(k) \/ LoadFails(k)
Step(q) == ReadHead(q) \/ Hit(q) \/ Join(q) \/ StartLoad(q) \/ RefuseLoad(q) \/ Answer(q) \/ Retry(q)

PositionsNext ==
  \/ MoveHead \/ Expire
  \/ \E k \in Keys : LoadSettles(k)
  \/ \E q \in Queries : Ask(q) \/ Step(q) \/ Deadline(q)

PositionsSpec == PositionsInit /\ [][PositionsNext]_positionsVars

-----------------------------------------------------------------------------
States == {"idle", "head", "lookup", "wait", "check"}

PositionsTypeOK ==
  /\ head \in Heads
  /\ query \in [Queries -> [pc : States, owner : Owners \cup {Nobody}, head : Heads \cup {Nobody},
                            attempt : 0..(Attempts - 1), snapshots : Snapshots \cup {Nobody}]]
  /\ load \in [Keys -> {"none", "queued", "running"}]
  /\ active \in Nat
  /\ queue \in Seq(Keys)
  /\ Len(cache) <= MaxCached
  /\ \A i \in DOMAIN cache :
       /\ cache[i].key \in Keys /\ cache[i].snapshots \in Snapshots /\ cache[i].fresh \in BOOLEAN
       /\ \A j \in DOMAIN cache : cache[j].key = cache[i].key => i = j

(* An answer is made of the owner's snapshots at the head it is given for, *)
(* whatever was cached, joined, moved or reorganised on the way.           *)
AnswersMatchHead ==
  [][\A q \in Queries : Answer(q) => query[q].snapshots = <<head, query[q].owner>>]_positionsVars

(* Every permit is held by one running load, no load waits while a permit  *)
(* is free, and each waiter is one queued load.                            *)
PermitsExact ==
  /\ PositionsTypeOK
  /\ active = Cardinality({k \in Keys : load[k] = "running"})
  /\ active <= MaxActive /\ Len(queue) <= MaxQueued
  /\ queue # <<>> => active = MaxActive
  /\ {queue[i] : i \in DOMAIN queue} = {k \in Keys : load[k] = "queued"}
  /\ \A i, j \in DOMAIN queue : queue[i] = queue[j] => i = j
=============================================================================
