----------------------------- MODULE StreamHub -----------------------------
(***************************************************************************)
(* The live stream of the analytics service: the in-memory replay window   *)
(* CandleStreamHub (packages/analytics/src/service.ts), the table          *)
(* stream_events behind it (postgres-store.ts), and the browsers that      *)
(* follow one topic of it over server-sent events.                         *)
(*                                                                         *)
(* Events are immutable and identified by their cursor 1, 2, 3, ..., so an *)
(* event is its cursor and history[c] is the topic of event c.  A topic's  *)
(* buffer is kept in cursor order by the code and is here the set of the   *)
(* cursors it holds; an absent map entry is the empty set or 0.            *)
(*                                                                         *)
(* The code runs on one JavaScript thread.  Between the COMMIT of a batch  *)
(* and its first publication other turns run; the publications themselves  *)
(* are one turn (phase "committing").  restore() runs before the server    *)
(* listens (phase "restoring").  The loop bodies of both are actions.      *)
(***************************************************************************)
EXTENDS Integers, Sequences, FiniteSetsExt

CONSTANTS
  Topics,            \* candle:<pair>:<interval> and pool:<pair> topics
  Reset,             \* the reset topic, which every subscriber receives
  Clients,           \* browsers following one topic each
  ReplaySize,        \* events kept per topic
  GlobalReplaySize,  \* events kept in all
  MaxReplayFrames,   \* replay frames one connection may be sent
  MaxSubscribers,    \* concurrent subscribers
  MaxBatch,          \* bound: events in one batch
  MaxEvents          \* bound: events in a behaviour

AllTopics == Topics \cup {Reset}

ASSUME TopicAssumption == Reset \notin Topics
ASSUME SizeAssumption ==
  /\ ReplaySize \in Nat \ {0}
  /\ GlobalReplaySize \in Nat \ {0}
  /\ MaxReplayFrames \in Nat
  /\ MaxSubscribers \in Nat
ASSUME BoundAssumption == MaxBatch \in Nat /\ MaxEvents \in Nat

VARIABLES
  history,              \* ghost: topic of every event ever made durable
  rows,                 \* cursors in the table stream_events
  phase,                \* what the server process is doing
  previous,             \* restore(): last row handled
  sequence,             \* CandleStreamHub.#sequence
  eventsByTopic,        \* CandleStreamHub.#eventsByTopic
  retainedEvents,       \* CandleStreamHub.#retainedEvents
  droppedThrough,       \* CandleStreamHub.#droppedThroughByTopic
  globalDroppedThrough, \* CandleStreamHub.#globalDroppedThrough
  client                \* each browser's stream state

hubVars == <<sequence, eventsByTopic, retainedEvents, droppedThrough,
             globalDroppedThrough>>
vars == <<history, rows, phase, previous, hubVars, client>>

Phases == {"serving", "committing", "down", "restoring"}

(* A browser: the topic it shows, the stream cursor of the snapshot it     *)
(* loaded, its Last-Event-ID, the events written to it since the snapshot, *)
(* and whether it is disconnected, connected, or due to refetch.           *)
ClientStates == {"closed", "live", "refetch"}
Client == [topic : Topics, base : Nat, lastEventId : Nat,
           got : SUBSET Nat, state : ClientStates]

-----------------------------------------------------------------------------
(* Windows                                                                 *)

MaxOr0(S) == IF S = {} THEN 0 ELSE Max(S)

(* The elements of S older than its n newest ones.                         *)
Overflow(S, n) == {c \in S : Cardinality({d \in S : d > c}) >= n}

(* Events a follower of topic t must see.                                  *)
Concerns(c, t) == history[c] = t \/ history[c] = Reset

(* writeStreamEvents: rows beyond the newest ReplaySize of their topic go  *)
(* first, then all but the newest GlobalReplaySize of what is left.        *)
TopicTrimmed(hist, S) ==
  {c \in S : c \notin Overflow({d \in S : hist[d] = hist[c]}, ReplaySize)}

(* Mutant: the table keeps its oldest rows.                                *)
TrimRows_Oldest(hist, S) ==
  LET kept == TopicTrimmed(hist, S)
  IN  {c \in kept : Cardinality({d \in kept : d <= c}) <= GlobalReplaySize}

TrimRows(hist, S) ==
  LET kept == TopicTrimmed(hist, S)
  IN  kept \ Overflow(kept, GlobalReplaySize)

-----------------------------------------------------------------------------
(* CandleStreamHub.#retain, in its three stages.  Each stage maps the      *)
(* buffers and the dropped-through marks to their next values.             *)

(* Stage 1: push the event and keep the newest ReplaySize of its topic.    *)
Pushed(c, t) == [eventsByTopic EXCEPT ![t] = @ \cup {c}]
Spliced(c, t) == Overflow(Pushed(c, t)[t], ReplaySize)
Buffers1(c, t) == [Pushed(c, t) EXCEPT ![t] = @ \ Spliced(c, t)]

(* Mutant: the splice leaves no mark.                                      *)
Dropped1_Unmarked(c, t) == droppedThrough

Dropped1(c, t) ==
  IF Spliced(c, t) = {} THEN droppedThrough
  ELSE [droppedThrough EXCEPT ![t] = Max(Spliced(c, t))]

(* Stage 2, #trimCombinedTopic: a topic and the resets together stay       *)
(* within ReplaySize.  A reset trims every topic that holds events.        *)
Trimmed(c, t) ==
  IF t = Reset THEN {u \in Topics : Buffers1(c, t)[u] # {}} ELSE {t}
CutOf(c, t, u) ==
  IF u \in Trimmed(c, t)
  THEN MaxOr0(Overflow(Buffers1(c, t)[u] \cup Buffers1(c, t)[Reset], ReplaySize))
  ELSE 0
Buffers2(c, t) ==
  [u \in AllTopics |-> {d \in Buffers1(c, t)[u] : d > CutOf(c, t, u)}]

(* Mutant: the cut leaves no mark.                                         *)
Dropped2_Unmarked(c, t) == Dropped1(c, t)

Dropped2(c, t) ==
  [u \in AllTopics |->
     IF CutOf(c, t, u) > Dropped1(c, t)[u] THEN CutOf(c, t, u)
                                           ELSE Dropped1(c, t)[u]]

(* Mutant: a spliced event stays in #retainedEvents.                       *)
Retained2_KeepsSpliced(c, t) ==
  (retainedEvents \cup {c})
    \ UNION {Buffers1(c, t)[u] \ Buffers2(c, t)[u] : u \in AllTopics}

Retained2(c, t) ==
  ((retainedEvents \cup {c}) \ Spliced(c, t))
    \ UNION {Buffers1(c, t)[u] \ Buffers2(c, t)[u] : u \in AllTopics}

(* Stage 3, #trimGlobalReplay: the oldest retained events leave until      *)
(* GlobalReplaySize remain; a topic emptied by it loses its mark, and a    *)
(* crowded map of marks loses those the global mark covers.                *)
Evicted(c, t) == Overflow(Retained2(c, t), GlobalReplaySize)
Global3(c, t) ==
  IF Evicted(c, t) = {} THEN globalDroppedThrough ELSE Max(Evicted(c, t))
Buffers3(c, t) == [u \in AllTopics |-> Buffers2(c, t)[u] \ Evicted(c, t)]
Dropped3(c, t) ==
  [u \in AllTopics |->
     IF /\ Buffers3(c, t)[u] = {}
        /\ Buffers2(c, t)[u] # {}
     THEN 0 ELSE Dropped2(c, t)[u]]
Crowded(c, t) ==
  Cardinality({u \in AllTopics : Dropped3(c, t)[u] # 0}) > 2 * GlobalReplaySize

(* Mutant: a crowded map loses the marks above the global one too.         *)
Dropped4_AllMarks(c, t) ==
  [u \in AllTopics |-> IF Crowded(c, t) THEN 0 ELSE Dropped3(c, t)[u]]

Dropped4(c, t) ==
  [u \in AllTopics |->
     IF Crowded(c, t) /\ Dropped3(c, t)[u] <= Global3(c, t)
     THEN 0 ELSE Dropped3(c, t)[u]]

Retain(c, t) ==
  /\ eventsByTopic' = Buffers3(c, t)
  /\ retainedEvents' = Retained2(c, t) \ Evicted(c, t)
  /\ droppedThrough' = Dropped4(c, t)
  /\ globalDroppedThrough' = Global3(c, t)

-----------------------------------------------------------------------------
(* #replayTopic: nothing is promised below the newest of the three marks.  *)
DroppedFor(t) ==
  Max({globalDroppedThrough, droppedThrough[t], droppedThrough[Reset]})
Replayable(after, t) == after <= sequence /\ after >= DroppedFor(t)
Replay(after, t) ==
  {c \in eventsByTopic[t] \cup eventsByTopic[Reset] : c > after}

(* What a complete stream of topic t carries after one cursor, up to       *)
(* another.                                                                *)
Owed(t, after, upTo) == {c \in 1..Len(history) : after < c /\ c <= upTo /\ Concerns(c, t)}

Subscribers == {k \in Clients : client[k].state = "live"}

-----------------------------------------------------------------------------
Init ==
  /\ history = <<>>
  /\ rows = {}
  /\ phase = "serving"
  /\ previous = 0
  /\ sequence = 0
  /\ eventsByTopic = [t \in AllTopics |-> {}]
  /\ retainedEvents = {}
  /\ droppedThrough = [t \in AllTopics |-> 0]
  /\ globalDroppedThrough = 0
  /\ \E topicOf \in [Clients -> Topics] :
       client = [k \in Clients |->
                   [topic |-> topicOf[k], base |-> 0, lastEventId |-> 0,
                    got |-> {}, state |-> "closed"]]

(* publishBatch up to the resolution of persist(): the transaction that    *)
(* inserts the events and trims the table.  A canonical reorg publishes a  *)
(* single reset; an append publishes candle and pool events.               *)
Batches == {<<Reset>>} \cup UNION {[1..n -> Topics] : n \in 1..MaxBatch}
PersistBatch(batch) ==
  LET written == history \o batch IN
  /\ phase = "serving"
  /\ sequence = Len(history)
  /\ Len(written) <= MaxEvents
  /\ history' = written
  /\ rows' = TrimRows(written, rows \cup (Len(history) + 1)..Len(written))
  /\ UNCHANGED <<phase, previous, hubVars, client>>

(* What a subscriber's browser holds once event c has been written to it.  *)
Received(k, c) ==
  IF client[k].state = "live" /\ Concerns(c, client[k].topic)
  THEN [client[k] EXCEPT !.got = @ \cup {c},
                         !.state = IF history[c] = Reset THEN "refetch" ELSE @]
  ELSE client[k]

(* #commit of the next event of the persisted batch.                       *)
CommitEvent ==
  LET c == sequence + 1 IN
  /\ phase \in {"serving", "committing"}
  /\ c <= Len(history)
  /\ sequence' = c
  /\ Retain(c, history[c])
  /\ client' = [k \in Clients |-> Received(k, c)]
  /\ phase' = IF c = Len(history) THEN "serving" ELSE "committing"
  /\ UNCHANGED <<history, rows, previous>>

(* Mutant: too long a replay is cut short and followed live.               *)
Connect_CutsReplay(k) ==
  LET b == client[k]
      all == Replay(b.lastEventId, b.topic)
      frames == all \ Overflow(all, MaxReplayFrames)
      reset == \/ Cardinality(Subscribers) >= MaxSubscribers
               \/ \E c \in frames : history[c] = Reset
      answered ==
        IF ~Replayable(b.lastEventId, b.topic) THEN [b EXCEPT !.state = "refetch"]
        ELSE [b EXCEPT !.got = @ \cup frames,
                       !.state = IF reset THEN "refetch" ELSE "live"]
  IN
  /\ phase = "serving"
  /\ b.state = "closed"
  /\ client' = [client EXCEPT ![k] = answered]
  /\ UNCHANGED <<history, rows, phase, previous, hubVars>>

(* openFilteredStream with the browser's Last-Event-ID.  An expired cursor *)
(* or too long a replay is answered with a reset frame; so is a full       *)
(* subscriber set, after the replay has been written.                      *)
Connect(k) ==
  LET b == client[k]
      frames == Replay(b.lastEventId, b.topic)
      refused == \/ ~Replayable(b.lastEventId, b.topic)
                 \/ Cardinality(frames) > MaxReplayFrames
      reset == \/ Cardinality(Subscribers) >= MaxSubscribers
               \/ \E c \in frames : history[c] = Reset
      answered ==
        IF refused THEN [b EXCEPT !.state = "refetch"]
        ELSE [b EXCEPT !.got = @ \cup frames,
                       !.state = IF reset THEN "refetch" ELSE "live"]
  IN
  /\ phase = "serving"
  /\ b.state = "closed"
  /\ client' = [client EXCEPT ![k] = answered]
  /\ UNCHANGED <<history, rows, phase, previous, hubVars>>

(* Frames reach a browser in order and a broken connection loses a suffix  *)
(* of them; a browser that received a reset does not resume.               *)
LastReceived(k) ==
  {x \in {client[k].lastEventId} \cup client[k].got :
     /\ x >= client[k].lastEventId
     /\ \A c \in client[k].got : c <= x => history[c] # Reset}
Broken(k, x) ==
  [client[k] EXCEPT !.lastEventId = x,
                    !.got = {c \in @ : c <= x},
                    !.state = "closed"]

(* The connection breaks, or the server closes it for backpressure.        *)
Disconnect(k) ==
  /\ client[k].state # "closed"
  /\ \E x \in LastReceived(k) : client' = [client EXCEPT ![k] = Broken(k, x)]
  /\ UNCHANGED <<history, rows, phase, previous, hubVars>>

(* The browser loads its history and the streamCursor with it.  The read   *)
(* waits for the mutation mutex, so no batch is half published.            *)
(* Only a load that starts a stream is a step here: an answer that comes   *)
(* while a stream is live (refetchOnWindowFocus) changes what is shown, of *)
(* which this module says nothing; AnalyticsService has it.                *)
Refetch(k) ==
  /\ phase = "serving"
  /\ sequence = Len(history)
  /\ client[k].state # "live"
  /\ client' = [client EXCEPT ![k].base = sequence,
                              ![k].lastEventId = sequence,
                              ![k].got = {},
                              ![k].state = "closed"]
  /\ UNCHANGED <<history, rows, phase, previous, hubVars>>

(* The process dies: the hub is gone and every connection breaks.          *)
Crash ==
  /\ phase # "down"
  /\ phase' = "down"
  /\ previous' = 0
  /\ sequence' = 0
  /\ eventsByTopic' = [t \in AllTopics |-> {}]
  /\ retainedEvents' = {}
  /\ droppedThrough' = [t \in AllTopics |-> 0]
  /\ globalDroppedThrough' = 0
  /\ \E last \in [Clients -> 0..Len(history)] :
       /\ \A k \in Clients : last[k] \in LastReceived(k)
       /\ client' = [k \in Clients |->
                       IF client[k].state = "closed" THEN client[k]
                                                     ELSE Broken(k, last[k])]
  /\ UNCHANGED <<history, rows>>

(* AnalyticsApiService.create loads the rows in cursor order ...           *)
Restart ==
  /\ phase = "down"
  /\ phase' = "restoring"
  /\ UNCHANGED <<history, rows, previous, hubVars, client>>

RowsLeft == {c \in rows : c > previous}

(* ... and restore() retains them one by one,                              *)
RestoreEvent ==
  /\ phase = "restoring"
  /\ RowsLeft # {}
  /\ LET c == Min(RowsLeft) IN
       /\ Retain(c, history[c])
       /\ previous' = c
  /\ UNCHANGED <<history, rows, phase, sequence, client>>

(* Mutant: restore() leaves no mark for what the table lost.               *)
Before_Unmarked(S) == 0

(* then resumes the sequence and marks what the table no longer holds.     *)
Before(S) == IF S = {} THEN 0 ELSE Min(S) - 1

(* Mutant: the sequence resumes at the next free cursor.                   *)
RestoreDone_NextCursor ==
  /\ phase = "restoring"
  /\ RowsLeft = {}
  /\ phase' = "serving"
  /\ sequence' = previous + 1
  /\ globalDroppedThrough' = Max({globalDroppedThrough, Before(rows)})
  /\ droppedThrough' =
       [t \in AllTopics |-> Max({droppedThrough[t], Before(eventsByTopic[t])})]
  /\ previous' = 0
  /\ UNCHANGED <<history, rows, eventsByTopic, retainedEvents, client>>

RestoreDone ==
  /\ phase = "restoring"
  /\ RowsLeft = {}
  /\ phase' = "serving"
  /\ sequence' = previous
  /\ globalDroppedThrough' = Max({globalDroppedThrough, Before(rows)})
  /\ droppedThrough' =
       [t \in AllTopics |-> Max({droppedThrough[t], Before(eventsByTopic[t])})]
  /\ previous' = 0
  /\ UNCHANGED <<history, rows, eventsByTopic, retainedEvents, client>>

Next ==
  \/ \E batch \in Batches : PersistBatch(batch)
  \/ CommitEvent
  \/ \E k \in Clients : Connect(k) \/ Disconnect(k) \/ Refetch(k)
  \/ Crash
  \/ Restart
  \/ RestoreEvent
  \/ RestoreDone

Spec == Init /\ [][Next]_vars

-----------------------------------------------------------------------------
TypeOK ==
  /\ history \in Seq(AllTopics)
  /\ rows \subseteq 1..Len(history)
  /\ phase \in Phases
  /\ previous \in 0..Len(history)
  /\ sequence \in 0..Len(history)
  /\ eventsByTopic \in [AllTopics -> SUBSET (1..Len(history))]
  /\ retainedEvents \subseteq 1..Len(history)
  /\ droppedThrough \in [AllTopics -> 0..Len(history)]
  /\ globalDroppedThrough \in 0..Len(history)
  /\ client \in [Clients -> Client]

(* No silent gap: whatever was published, trimmed, lost in transport or    *)
(* forgotten in a restart, a connected browser has been written every      *)
(* event of its topic published since its snapshot, and a disconnected one *)
(* holds every such event up to its Last-Event-ID.                         *)
NoSilentGap ==
  \A k \in Clients :
    LET b == client[k] IN
    /\ b.state = "live" => b.got = Owed(b.topic, b.base, sequence)
    /\ b.state = "closed" => b.got = Owed(b.topic, b.base, b.lastEventId)

(* Replay is exact: while the server serves, an accepted cursor of any     *)
(* topic is answered with all the later events of the topic and all the    *)
(* later resets, and nothing else.                                         *)
ReplayExact ==
  phase \in {"serving", "committing"} =>
    \A t \in Topics : \A after \in 0..sequence :
      Replayable(after, t) => Replay(after, t) = Owed(t, after, sequence)

(* The two indices of the window agree, so neither throw of                *)
(* #trimGlobalReplay is reachable.                                         *)
ReplayAccounting ==
  retainedEvents = UNION {eventsByTopic[t] : t \in AllTopics}

(* A restart resumes the cursor sequence exactly where the durable log     *)
(* ends: no cursor is given to a second event, none is skipped.            *)
RestartResumesLog ==
  [][phase = "restoring" /\ phase' = "serving"
       => sequence' = Len(history)]_vars

=============================================================================
