---------------------------- MODULE StreamHubInv ----------------------------
(***************************************************************************)
(* The inductive invariant behind NoSilentGap and ReplayExact: what the    *)
(* table, the window and the browsers must satisfy between any two steps   *)
(* so that the dropped-through marks never promise too much.               *)
(***************************************************************************)
EXTENDS StreamHub

(* The events the hub was fed since the process started, and the last one. *)
Fed ==
  CASE phase = "down" -> {}
    [] phase = "restoring" -> {c \in rows : c <= previous}
    [] OTHER -> 1..sequence
Top ==
  CASE phase = "down" -> 0
    [] phase = "restoring" -> previous
    [] OTHER -> sequence

(* A window (buffers, retained set, marks) that was fed the events fed, the*)
(* last of them at most top, is sound: it holds only what it was fed, above*)
(* its marks, and everything it was fed above its marks.                   *)
Window(hist, buffers, retained, dropped, global, fed, top) ==
  /\ fed \subseteq 1..top
  /\ buffers \in [AllTopics -> SUBSET fed]
  /\ retained = UNION {buffers[x] : x \in AllTopics}
  /\ dropped \in [AllTopics -> 0..top]
  /\ global \in 0..top
  /\ \A x \in AllTopics : \A c \in buffers[x] :
       hist[c] = x /\ c > dropped[x] /\ c > global
  /\ \A c \in fed : c > global /\ c > dropped[hist[c]] => c \in buffers[hist[c]]

(* The table keeps the newest event, and what it lacks is either older than*)
(* everything it holds, or older than all it holds of its topic, of which  *)
(* it holds some.                                                          *)
Lacks(hist, S, c) ==
  \/ \A r \in S : c < r
  \/ /\ \E r \in S : hist[r] = hist[c]
     /\ \A r \in S : hist[r] = hist[c] => c < r
Table(hist, S) ==
  /\ S \subseteq 1..Len(hist)
  /\ hist # <<>> => Len(hist) \in S
  /\ \A c \in (1..Len(hist)) \ S : Lacks(hist, S, c)

StateOK ==
  /\ history \in Seq(AllTopics)
  /\ phase \in Phases
  /\ previous \in {0} \cup rows
  /\ sequence \in 0..Len(history)
  /\ phase \in {"down", "restoring"} => sequence = 0
  /\ phase # "restoring" => previous = 0

(* A browser holds what is owed to it up to some event, which is the last  *)
(* published one while it is connected, and its Last-Event-ID when not.    *)
OwedOf(hist, t, after, upTo) ==
  {c \in 1..Len(hist) : after < c /\ c <= upTo /\ hist[c] \in {t, Reset}}
BrowserOK(hist, ph, seq, b) ==
  /\ b \in Client
  /\ b.base <= b.lastEventId
  /\ b.lastEventId <= Len(hist)
  /\ \E m \in b.lastEventId..Len(hist) : b.got = OwedOf(hist, b.topic, b.base, m)
  /\ b.state = "closed" => b.got = OwedOf(hist, b.topic, b.base, b.lastEventId)
  /\ b.state = "live" => /\ ph \in {"serving", "committing"}
                         /\ b.lastEventId <= seq
                         /\ b.got = OwedOf(hist, b.topic, b.base, seq)
Browsers ==
  /\ client \in [Clients -> Client]
  /\ \A k \in Clients : BrowserOK(history, phase, sequence, client[k])

IInv ==
  /\ StateOK
  /\ Table(history, rows)
  /\ Window(history, eventsByTopic, retainedEvents, droppedThrough,
            globalDroppedThrough, Fed, Top)
  /\ Browsers
=============================================================================
