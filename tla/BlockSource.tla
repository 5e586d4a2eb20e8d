---------------------------- MODULE BlockSource ----------------------------
(***************************************************************************)
(* The canonical block source (infra/vps/adapters/canonical-block-source)  *)
(* between a chain that grows and reorganises and the analytics service:   *)
(* the startup cursor, pages of blocks, the search for a reorg in the      *)
(* cache of delivered blocks, and the loops that apply pages, runBackfill  *)
(* and followLive.                                                         *)
(*                                                                         *)
(* A block is its path: the branches its ancestors and itself were mined   *)
(* on, so its number is the path's length and its parent the path without  *)
(* the last element.  A block read first after a resumed start also        *)
(* carries a snapshot of every pool: its payload is "fresh".               *)
(***************************************************************************)
EXTENDS Naturals, SequencesExt, FiniteSetsExt, Functions

CONSTANTS
  PageSize,       \* blocks in a page
  Retention,      \* blocks the cache retains
  Confirmations,  \* blocks the target stays behind the chain's head
  Pools,          \* TRUE: a snapshot of every pool changes a payload
  None,
  MaxHeight,      \* bound: height of the chain
  MaxForks,       \* bound: reorganisations
  MaxFaults       \* bound: crashes and failed requests

ASSUME SourceAssumption ==
  /\ PageSize \in Nat \ {0} /\ Retention \in Nat \ {0} /\ Confirmations \in Nat
  /\ Pools \in BOOLEAN
  /\ MaxHeight \in Nat /\ MaxForks \in Nat /\ MaxFaults \in Nat
  /\ MaxHeight > Confirmations

(* What a page, a fetch and a block of the chain are made of.              *)
Path == {p \in Seq(0..MaxForks) : Len(p) <= MaxHeight}
Op == [rewind : BOOLEAN, path : Path, fresh : BOOLEAN]
PageSet == [ops : Seq(Op), next : Nat, more : BOOLEAN, since : Nat]
FetchSet ==
  [pc : {"probe"}, target : Path, probe : Nat, since : Nat]
  \cup [pc : {"headers"}, target : Path, start : Nat, end : Nat,
        rewindTo : Path \cup {None}, since : Nat]
  \cup [pc : {"logs"}, target : Path, start : Nat, headers : Path,
        rewindTo : Path \cup {None}, since : Nat]

ASSUME NoneAssumption ==
  None \notin Nat /\ None \notin Path /\ None \notin PageSet /\ None \notin FetchSet

VARIABLES
  chain,     \* path of the chain's head
  forks,     \* reorganisations so far
  proc,      \* the process: down, backfill, live
  stored,    \* durable: path of the head, fresh blocks, backfill cursor
  retained,  \* the engine: path of the head, numbers of fresh blocks
  cursor,    \* cursor of the next page; 0 is null
  cache,     \* canonicalBlocks: number -> path
  refresh,   \* identityRefreshPending
  first,     \* firstFetch
  fetch,     \* local variables of a fetchPage under way
  page,      \* what is left of a page that is applied
  faults

env == <<chain, forks>>
source == <<cursor, cache, refresh, first>>
vars == <<env, proc, stored, retained, source, fetch, page, faults>>

-----------------------------------------------------------------------------
(* The engine's answer to an operation of a page.                          *)
At(path, n) == SubSeq(path, 1, n)
Below(fresh, n) == {m \in fresh : m < n}

(* ingestBlock: a duplicate of the same payload, or a child of a retained  *)
(* block.                                                                  *)
Known(path) == IsPrefix(path, retained.path)
AcceptsBlock(op) ==
  IF Known(op.path) THEN (Len(op.path) \in retained.fresh) = op.fresh
                    ELSE IsPrefix(Front(op.path), retained.path)
Ingested(op) ==
  IF Known(op.path) THEN retained
  ELSE [path  |-> op.path,
        fresh |-> Below(retained.fresh, Len(op.path))
                    \cup (IF op.fresh THEN {Len(op.path)} ELSE {})]

(* rewindCanonicalHead: only to a retained block.                          *)
Rewound(op) ==
  [path |-> op.path, fresh |-> Below(retained.fresh, Len(op.path) + 1)]

Accepts(op) == IF op.rewind THEN Known(op.path) ELSE AcceptsBlock(op)
Result(op) == IF op.rewind THEN Rewound(op) ELSE Ingested(op)

-----------------------------------------------------------------------------
Nothing == [path |-> <<>>, fresh |-> {}]

Init ==
  /\ chain \in [1..(Confirmations + 1) -> {0}]
  /\ forks = 0
  /\ proc = "down"
  /\ stored = [path |-> <<>>, fresh |-> {}, cursor |-> 0]
  /\ retained = Nothing
  /\ cursor = 0 /\ cache = <<>> /\ refresh = FALSE /\ first = TRUE
  /\ fetch = None
  /\ page = None
  /\ faults = 0

(* The chain.                                                              *)
Mine ==
  /\ Len(chain) < MaxHeight
  /\ chain' = Append(chain, forks)
  /\ UNCHANGED <<forks, proc, stored, retained, source, fetch, page, faults>>

Reorganise ==
  /\ forks < MaxForks
  /\ \E n \in (Confirmations + 1)..(Len(chain) - 1) : chain' = At(chain, n)
  /\ forks' = forks + 1
  /\ UNCHANGED <<proc, stored, retained, source, fetch, page, faults>>

-----------------------------------------------------------------------------
(* The process ends.  A backfill that threw is saved as it is, a live      *)
(* block when it was ingested.                                             *)
Ends(save) ==
  /\ proc' = "down"
  /\ stored' = IF save /\ proc = "backfill"
               THEN [path |-> retained.path, fresh |-> retained.fresh, cursor |-> cursor]
               ELSE stored
  /\ retained' = Nothing
  /\ cursor' = 0 /\ cache' = <<>> /\ refresh' = FALSE /\ first' = TRUE
  /\ fetch' = None
  /\ page' = None

(* An error in fetchPage, or in the engine, ends the backfill or the live  *)
(* source, and with it the process.                                        *)
Throws == Ends(TRUE) /\ UNCHANGED <<env, faults>>

Crash ==
  /\ proc # "down"
  /\ faults < MaxFaults
  /\ Ends(FALSE)
  /\ faults' = faults + 1
  /\ UNCHANGED env

(* A request fails after its retries.                                      *)
RequestFails ==
  /\ proc # "down" /\ fetch # None
  /\ faults < MaxFaults
  /\ Ends(TRUE)
  /\ faults' = faults + 1
  /\ UNCHANGED env

(* Mutant: the retained head is not compared with the chain's.             *)
Resumes_Unattested ==
  /\ stored.cursor # 0
  /\ stored.path # <<>>
  /\ stored.cursor <= Len(stored.path) + 1

(* startupCursor: the persisted cursor can be resumed at the retained head,*)
(* which is still canonical.                                               *)
Resumes ==
  /\ stored.cursor # 0
  /\ stored.path # <<>>
  /\ stored.cursor <= Len(stored.path) + 1
  /\ At(chain, Len(stored.path)) = stored.path

(* The start of a process: the checkpoint, startupCursor, backfill.  The   *)
(* retained head's number must be on the chain.                            *)
Start ==
  /\ proc = "down"
  /\ Len(stored.path) <= Len(chain)
  /\ proc' = "backfill"
  /\ retained' = [path |-> stored.path, fresh |-> stored.fresh]
  /\ IF Resumes
     THEN /\ cache' = [n \in {Len(stored.path)} |-> stored.path]
          /\ cursor' = Len(stored.path) + 1
          /\ first' = FALSE /\ refresh' = TRUE
     ELSE /\ cache' = <<>>
          /\ cursor' = 0
          /\ first' = TRUE /\ refresh' = FALSE
  /\ UNCHANGED <<env, stored, fetch, page, faults>>

-----------------------------------------------------------------------------
(* fetchPage.                                                              *)

RequestedStart == IF first \/ cursor = 0 THEN 1 ELSE cursor
Overlapping(target) == {n \in DOMAIN cache : n <= Len(target)}
OrphanedSuffix(target) == \E n \in DOMAIN cache : n > Len(target)

(* The operations of a page: rewindTo, the blocks, and the head it attests.*)
Rewinding(path) == [rewind |-> TRUE, path |-> path, fresh |-> FALSE]
(* Mutant: the next page begins after the target.                          *)
Page_Skips(target, rewindTo, blocks, since) ==
  LET more == blocks # <<>> /\ Len(Last(blocks).path) < Len(target)
  IN
  [ops   |-> (IF rewindTo = None THEN <<>> ELSE <<Rewinding(rewindTo)>>) \o blocks,
   next  |-> Len(target) + 1,
   more  |-> more,
   since |-> since]

Page(target, rewindTo, blocks, since) ==
  LET next == IF blocks = <<>> THEN Len(target) + 1 ELSE Len(Last(blocks).path) + 1
      more == next <= Len(target)
  IN
  [ops   |-> (IF rewindTo = None THEN <<>> ELSE <<Rewinding(rewindTo)>>)
               \o blocks
               \o (IF more THEN <<>> ELSE <<Rewinding(target)>>),
   next  |-> next,
   more  |-> more,
   since |-> since]

Block(path, fresh) == [rewind |-> FALSE, path |-> path, fresh |-> fresh]

(* Mutant: the cache keeps the orphaned branch.                            *)
Trimmed_Keeps(reorgStart) == cache

Trimmed(reorgStart) ==
  IF reorgStart = None THEN cache
  ELSE [n \in {m \in DOMAIN cache : m < reorgStart} |-> cache[n]]

(* The synchronous part between the reorg search and the reads of a page.  *)
Plan(target, reorgStart, since) ==
  LET start == IF reorgStart = None THEN RequestedStart
               ELSE Min({RequestedStart, reorgStart})
      end   == Min({Len(target), start + PageSize - 1})
      kept  == Trimmed(reorgStart)
      rolledBack == reorgStart # None /\ reorgStart > Len(target)
      rewindTo   == IF rolledBack THEN cache[Len(target)] ELSE None
      whole == start..end \subseteq DOMAIN kept
  IN
  IF rolledBack /\ cache[Len(target)] # target THEN Throws
  ELSE IF start > Len(target) \/ whole
  THEN /\ page' = Page(target, rewindTo,
                       [i \in 1..(end + 1 - start) |-> Block(kept[start + i - 1], FALSE)], since)
       /\ fetch' = None
       /\ cache' = kept
       /\ first' = FALSE
       /\ UNCHANGED <<proc, stored, retained, cursor, refresh, env, faults>>
  ELSE IF start \in DOMAIN kept \/ (start > 1 /\ (start - 1) \notin DOMAIN kept) THEN Throws
  ELSE /\ fetch' = [pc |-> "headers", target |-> target, start |-> start, end |-> end,
                    rewindTo |-> rewindTo, since |-> since]
       /\ cache' = kept
       /\ UNCHANGED <<proc, stored, retained, cursor, refresh, first, page, env, faults>>

(* canonicalTarget, and findReorgStart up to its first read.               *)
FetchTarget ==
  /\ proc = "live" \/ (proc = "backfill" /\ page = None)
  /\ fetch = None /\ page = None
  /\ LET target == At(chain, Len(chain) - Confirmations) IN
     IF Overlapping(target) # {}
     THEN /\ fetch' = [pc |-> "probe", target |-> target, probe |-> Max(Overlapping(target)),
                       since |-> forks]
          /\ UNCHANGED <<proc, stored, retained, source, page, env, faults>>
     ELSE IF OrphanedSuffix(target) THEN Throws
     ELSE Plan(target, None, forks)

(* findReorgStart reads the header at the next lower cached number.        *)
ReorgStart(target, match) ==
  IF OrphanedSuffix(target) /\ match = Len(target) THEN match + 1
  ELSE IF match = Max(Overlapping(target)) THEN None
  ELSE match + 1
Probe ==
  /\ fetch # None /\ fetch.pc = "probe"
  /\ LET lower == {n \in DOMAIN cache : n < fetch.probe} IN
     IF fetch.probe <= Len(chain) /\ At(chain, fetch.probe) = cache[fetch.probe]
     THEN Plan(fetch.target, ReorgStart(fetch.target, fetch.probe), fetch.since)
     ELSE IF fetch.probe > Len(chain) \/ lower = {} THEN Throws
     ELSE /\ fetch' = [fetch EXCEPT !.probe = Max(lower)]
          /\ UNCHANGED <<proc, stored, retained, source, page, env, faults>>

(* Mutant: the page is not pinned to the cached parent.                    *)
Pinned_Anywhere(headers, start) == TRUE

(* expectedParentHash of loadRange.                                        *)
Pinned(headers, start) == start > 1 => cache[start - 1] = At(headers, start - 1)

(* loadRange: the headers, of one branch, ...                              *)
LoadHeaders ==
  /\ fetch # None /\ fetch.pc = "headers"
  /\ IF fetch.end <= Len(chain) /\ Pinned(chain, fetch.start)
     THEN /\ fetch' = [pc |-> "logs", target |-> fetch.target, start |-> fetch.start,
                       headers |-> At(chain, fetch.end), rewindTo |-> fetch.rewindTo,
                       since |-> fetch.since]
          /\ UNCHANGED <<proc, stored, retained, source, page, env, faults>>
     ELSE Throws

(* Mutant: one block too many.                                             *)
Newest_More(numbers) == {n \in numbers : Cardinality({m \in numbers : m > n}) <= Retention}

(* trimCanonicalCache                                                      *)
Newest(numbers) == {n \in numbers : Cardinality({m \in numbers : m > n}) < Retention}

(* ... then logs and state.  Reads of blocks that were orphaned meanwhile  *)
(* throw, unless there was nothing to read in them.                        *)
LoadLogs ==
  /\ fetch # None /\ fetch.pc = "logs"
  /\ \/ /\ LET numbers == fetch.start..Len(fetch.headers)
               loaded == [n \in DOMAIN cache \cup numbers |->
                            IF n \in numbers THEN At(fetch.headers, n) ELSE cache[n]]
               blocks == [i \in 1..Cardinality(numbers) |->
                            Block(At(fetch.headers, fetch.start + i - 1),
                                  refresh /\ Pools /\ i = 1)]
           IN
             /\ cache' = [n \in Newest(DOMAIN loaded) |-> loaded[n]]
             /\ page' = Page(fetch.target, fetch.rewindTo, blocks, fetch.since)
        /\ fetch' = None
        /\ first' = FALSE /\ refresh' = FALSE
        /\ UNCHANGED <<proc, stored, retained, cursor, env, faults>>
     \/ ~IsPrefix(fetch.headers, chain) /\ Throws

-----------------------------------------------------------------------------
(* runBackfill and followLive apply a page operation by operation.  A live *)
(* operation is durable before the next one.                               *)
ApplyOp ==
  /\ page # None /\ page.ops # <<>>
  /\ LET op == Head(page.ops) IN
     IF Accepts(op)
     THEN /\ retained' = Result(op)
          /\ stored' = IF proc = "live"
                       THEN [stored EXCEPT !.path = Result(op).path, !.fresh = Result(op).fresh]
                       ELSE stored
          /\ page' = [page EXCEPT !.ops = Tail(@)]
          /\ UNCHANGED <<proc, source, fetch, env, faults>>
     ELSE Throws

(* The cursor moves on; a backfill ends with the page that has no          *)
(* successor, and is saved before the live source starts.  It throws if a  *)
(* reorg's page has led it back to the cursor it had.                      *)
PageDone ==
  /\ page # None /\ page.ops = <<>>
  /\ \/ /\ proc = "backfill" /\ page.more /\ page.next = cursor
        /\ Throws
     \/ /\ ~(proc = "backfill" /\ page.more /\ page.next = cursor)
        /\ cursor' = page.next
        /\ page' = None
        /\ IF proc = "backfill" /\ ~page.more
           THEN /\ proc' = "live"
                /\ stored' = [path |-> retained.path, fresh |-> retained.fresh, cursor |-> page.next]
           ELSE UNCHANGED <<proc, stored>>
        /\ UNCHANGED <<retained, cache, refresh, first, fetch, env, faults>>

SourceNext == Start \/ FetchTarget \/ Probe \/ LoadHeaders \/ LoadLogs \/ ApplyOp \/ PageDone
Next == SourceNext \/ Mine \/ Reorganise \/ Crash \/ RequestFails

Spec == Init /\ [][Next]_vars

(* The process runs, a supervisor restarts it, and the chain grows.        *)
FairSpec == Spec /\ WF_vars(SourceNext) /\ WF_vars(Mine)

-----------------------------------------------------------------------------
TypeOK ==
  /\ chain \in Path /\ chain # <<>>
  /\ forks \in 0..MaxForks
  /\ proc \in {"down", "backfill", "live"}
  /\ retained.path \in Path /\ retained.fresh \subseteq 1..Len(retained.path)
  /\ stored.path \in Path /\ stored.fresh \subseteq 1..Len(stored.path)
  /\ stored.cursor \in 0..(MaxHeight + 1) /\ cursor \in 0..(MaxHeight + 1)
  /\ fetch \in FetchSet \cup {None} /\ page \in PageSet \cup {None}
  /\ DOMAIN cache \subseteq 1..MaxHeight /\ Range(cache) \subseteq Path
  /\ Cardinality(DOMAIN cache) <= Retention
  /\ faults \in 0..MaxFaults

(* Whatever the chain does between the reads of a page, and between pages, *)
(* the cache is a contiguous piece of one branch.                          *)
OneBranch ==
  \A n \in DOMAIN cache :
    /\ Len(cache[n]) = n
    /\ \A m \in DOMAIN cache : m > n => (n + 1) \in DOMAIN cache
    /\ (n + 1) \in DOMAIN cache => Front(cache[n + 1]) = cache[n]

(* No block is skipped: the next page begins at most right after the       *)
(* engine's head.                                                          *)
NothingSkipped ==
  proc # "down" /\ page = None => RequestedStart <= Len(retained.path) + 1

(* So what is fetched next continues what was fetched last.                *)
SourceConsistent == TypeOK /\ OneBranch /\ NothingSkipped

(* Unless the chain was reorganised after a page's fetch began, the engine *)
(* accepts all of it: the replay of a whole history included.              *)
PagesAccepted ==
  page # None /\ page.ops # <<>> /\ page.since = forks => Accepts(Head(page.ops))

(* The engine reaches the chain's confirmed head again and again, whatever *)
(* was reorganised, rolled back or lost, while the process ran or not.     *)
CatchesUp == []<>(retained.path = At(chain, Len(chain) - Confirmations))
=============================================================================
