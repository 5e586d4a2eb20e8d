-------------------------- MODULE AnalyticsRuntime --------------------------
(***************************************************************************)
(* The life of analytics processes that share one PostgreSQL schema: the   *)
(* writer lease of postgres-store.ts (a session-scoped advisory lock on    *)
(* the one connection every write uses), the startup sequence and the      *)
(* supervision of server-cli.ts, and the readiness and shutdown of         *)
(* runtime.ts.  A saved state is a version number.                         *)
(***************************************************************************)
EXTENDS Naturals, FiniteSets

CONSTANTS
  Processes,   \* places where a supervisor keeps one process running
  None,
  Grace,       \* failed health probes that are fatal
  MaxVersion,  \* bound: saves
  MaxFaults    \* bound: signals, crashes, drops, outages, late answers, source failures

ASSUME RuntimeAssumption ==
  /\ None \notin Processes \cup Nat
  /\ Grace \in Nat \ {0, 1} /\ MaxVersion \in Nat /\ MaxFaults \in Nat

VARIABLES
  holder,      \* database: whose session has the advisory lock
  version,     \* database: the saved state
  outage,      \* database: statements are not answered
  pc,          \* where a process is
  session,     \* the database's session of its lease connection: none, open, lost (the
               \* client is gone, or gave it up unanswered), ended (by the pool, answered)
  lease,       \* writerLeaseClient is set
  leaseError,  \* writerLeaseError is set
  memory,      \* the last version its engine has read or sent
  tx,          \* the database has an open save of that session, or its COMMIT
  live,        \* the live source runs
  failed,      \* markFailed
  unhealthy,   \* consecutive failed health probes
  stage,       \* of the shutdown: up, draining, closing, unlocking, ending, closed
  exits,       \* process.exit awaits the shutdown
  faults,
  overlapped   \* history: a lock was released under an open transaction

database == <<holder, version, outage>>
store == <<session, lease, leaseError, memory, tx>>
runtime == <<pc, live, failed, unhealthy>>
shutdown == <<stage, exits>>
vars == <<database, store, runtime, shutdown, faults, overlapped>>

-----------------------------------------------------------------------------
Init ==
  /\ holder = None /\ version = 0 /\ outage = FALSE
  /\ pc = [p \in Processes |-> "off"]
  /\ session = [p \in Processes |-> "none"]
  /\ lease = [p \in Processes |-> FALSE]
  /\ leaseError = [p \in Processes |-> FALSE]
  /\ memory = [p \in Processes |-> None]
  /\ tx = [p \in Processes |-> FALSE]
  /\ live = [p \in Processes |-> FALSE]
  /\ failed = [p \in Processes |-> FALSE]
  /\ unhealthy = [p \in Processes |-> 0]
  /\ stage = [p \in Processes |-> "up"]
  /\ exits = [p \in Processes |-> FALSE]
  /\ faults = 0
  /\ overlapped = FALSE

Released(p) == IF holder = p THEN None ELSE holder
Closing(p) == stage[p] \in {"closing", "unlocking", "ending", "closed"}
Acquiring(p) == pc[p] \in {"connect", "schema"}
Supervised(p) == pc[p] \in {"load", "backfill", "listen", "serving"}
Answers(p) == session[p] = "open" /\ ~outage
CanSave(p) == pc[p] = "backfill" \/ live[p]

(* createAnalyticsShutdown: the first call begins the shutdown.            *)
Shutting(p) == [stage EXCEPT ![p] = IF @ = "up" THEN "draining" ELSE @]

Fault == faults < MaxFaults /\ faults' = faults + 1

(* lock_timeout, statement_timeout, query_timeout: what would be answered  *)
(* may be late, and what is not answered fails, the session alive or not.  *)
TimesOut(answered) == IF answered THEN Fault ELSE UNCHANGED faults

(* client.release(true): the database has not noticed yet.                 *)
GivenUp(p) == [session EXCEPT ![p] = IF @ = "open" THEN "lost" ELSE @]

-----------------------------------------------------------------------------
(* Startup.  A step that throws begins the shutdown.                       *)
StartupFails(p) ==
  /\ pc' = [pc EXCEPT ![p] = "failed"]
  /\ stage' = Shutting(p)
  /\ UNCHANGED exits

Launch(p) ==
  /\ pc[p] = "off" /\ session[p] = "none"
  /\ pc' = [pc EXCEPT ![p] = "connect"]
  /\ UNCHANGED <<database, store, live, failed, unhealthy, shutdown, faults, overlapped>>

(* acquireWriterLease: pg_try_advisory_lock on a connection of its own.    *)
(* In an outage the lock may be granted and the answer not arrive.         *)
AcquireWriterLease(p) ==
  /\ pc[p] = "connect"
  /\ \/ /\ holder = None /\ ~outage
        /\ holder' = p
        /\ session' = [session EXCEPT ![p] = "open"]
        /\ lease' = [lease EXCEPT ![p] = TRUE]
        /\ pc' = [pc EXCEPT ![p] = "schema"]
        /\ UNCHANGED <<shutdown>>
     \/ /\ holder # None \/ outage
        /\ StartupFails(p)
        /\ UNCHANGED <<holder, session, lease>>
     \/ /\ holder = None /\ outage
        /\ holder' = p
        /\ session' = [session EXCEPT ![p] = "lost"]
        /\ StartupFails(p)
        /\ UNCHANGED lease
  /\ UNCHANGED <<version, outage, leaseError, memory, tx, live, failed, unhealthy, faults, overlapped>>

(* createSchema; a failure gives the connection up.                        *)
CreateSchema(p) ==
  /\ pc[p] = "schema"
  /\ \/ /\ Answers(p)
        /\ pc' = [pc EXCEPT ![p] = "health"]
        /\ UNCHANGED <<session, lease, shutdown, faults>>
     \/ /\ TimesOut(Answers(p))
        /\ lease' = [lease EXCEPT ![p] = FALSE]
        /\ session' = GivenUp(p)
        /\ StartupFails(p)
  /\ UNCHANGED <<database, leaseError, memory, tx, live, failed, unhealthy, overlapped>>

(* Mutant: the health check uses any connection.                           *)
Healthy_Anywhere(p) == ~outage /\ lease[p] /\ ~leaseError[p] /\ ~Closing(p)

(* The first health check has a time limit.                                *)
Healthy(p) == Answers(p) /\ lease[p] /\ ~leaseError[p] /\ ~Closing(p)
CheckHealth(p) ==
  /\ pc[p] = "health"
  /\ \/ Healthy(p) /\ pc' = [pc EXCEPT ![p] = "load"] /\ UNCHANGED <<shutdown, faults>>
     \/ TimesOut(Healthy(p)) /\ StartupFails(p)
  /\ UNCHANGED <<database, store, live, failed, unhealthy, overlapped>>

(* requireWriterLease                                                      *)
Writable(p) == lease[p] /\ ~leaseError[p]

(* AnalyticsApiService.create loads the checkpoint on the lease's session. *)
Load(p) ==
  /\ pc[p] = "load"
  /\ \/ /\ Writable(p) /\ Answers(p)
        /\ memory' = [memory EXCEPT ![p] = version]
        /\ pc' = [pc EXCEPT ![p] = "backfill"]
        /\ UNCHANGED <<shutdown, faults>>
     \/ /\ TimesOut(Writable(p) /\ Answers(p))
        /\ StartupFails(p)
        /\ UNCHANGED memory
  /\ UNCHANGED <<database, session, lease, leaseError, tx, live, failed, unhealthy, overlapped>>

(* An aborted backfill fails, unless its last page was already read.       *)
BackfillEnds(p) ==
  /\ pc[p] = "backfill" /\ ~tx[p]
  /\ \/ pc' = [pc EXCEPT ![p] = "listen"] /\ UNCHANGED shutdown
     \/ stage[p] # "up" /\ StartupFails(p)
  /\ UNCHANGED <<database, store, live, failed, unhealthy, faults, overlapped>>

(* The HTTP server listens and the live source starts.                     *)
Listen(p) ==
  /\ pc[p] = "listen"
  /\ pc' = [pc EXCEPT ![p] = "serving"]
  /\ live' = [live EXCEPT ![p] = TRUE]
  /\ UNCHANGED <<database, store, failed, unhealthy, shutdown, faults, overlapped>>

-----------------------------------------------------------------------------
(* Saves, of the backfill or of a live block.                              *)
BeginSave(p) ==
  /\ CanSave(p)
  /\ ~tx[p] /\ Writable(p) /\ session[p] = "open"
  /\ version < MaxVersion
  /\ tx' = [tx EXCEPT ![p] = TRUE]
  /\ UNCHANGED <<database, session, lease, leaseError, memory, runtime, shutdown, faults, overlapped>>

(* Mutant: the save uses any connection of the pool.                       *)
Commit_Anywhere(p) ==
  /\ tx[p] \/ (CanSave(p) /\ Writable(p) /\ version < MaxVersion)
  /\ ~outage
  /\ version' = version + 1
  /\ memory' = [memory EXCEPT ![p] = IF pc[p] = "off" THEN None ELSE version + 1]
  /\ tx' = [tx EXCEPT ![p] = FALSE]
  /\ UNCHANGED <<holder, outage, session, lease, leaseError, runtime, shutdown, faults, overlapped>>

(* COMMIT.  It may take effect after the save has thrown, or the process   *)
(* exited, when it was sent before.                                        *)
Commit(p) ==
  /\ tx[p]
  /\ Answers(p) \/ ~CanSave(p)
  /\ version' = version + 1
  /\ memory' = [memory EXCEPT ![p] = IF pc[p] = "off" THEN None ELSE version + 1]
  /\ tx' = [tx EXCEPT ![p] = FALSE]
  /\ UNCHANGED <<holder, outage, session, lease, leaseError, runtime, shutdown, faults, overlapped>>

(* Mutant: the end of the source is only reported.                         *)
SourceEnded_Reported(p) ==
  /\ live' = [live EXCEPT ![p] = FALSE]
  /\ failed' = [failed EXCEPT ![p] = @ \/ stage[p] = "up"]
  /\ UNCHANGED shutdown

(* The end of the live source: fatal unless the process shuts down.        *)
SourceEnded(p) ==
  /\ live' = [live EXCEPT ![p] = FALSE]
  /\ failed' = [failed EXCEPT ![p] = @ \/ stage[p] = "up"]
  /\ stage' = Shutting(p)
  /\ UNCHANGED exits

(* A statement of a save fails, at once on a lost connection, else by its  *)
(* time limit, and the save throws out of the backfill or the source.  The *)
(* ROLLBACK undoes it if that is answered.                                 *)
SaveFails(p) ==
  /\ CanSave(p)
  /\ tx[p] \/ session[p] # "open"
  /\ TimesOut(Answers(p))
  /\ \/ Answers(p) /\ tx' = [tx EXCEPT ![p] = FALSE]
     \/ UNCHANGED tx
  /\ \/ live[p] /\ SourceEnded(p) /\ UNCHANGED pc
     \/ ~live[p] /\ StartupFails(p) /\ UNCHANGED <<live, failed>>
  /\ UNCHANGED <<database, session, lease, leaseError, memory, unhealthy, overlapped>>

LiveSourceFails(p) ==
  /\ live[p] /\ ~tx[p] /\ stage[p] = "up"
  /\ Fault
  /\ SourceEnded(p)
  /\ UNCHANGED <<database, store, pc, unhealthy, overlapped>>

LiveSourceAborts(p) ==
  /\ live[p] /\ ~tx[p] /\ stage[p] # "up"
  /\ SourceEnded(p)
  /\ UNCHANGED <<database, store, pc, unhealthy, faults, overlapped>>

-----------------------------------------------------------------------------
(* The database and the network.                                           *)
OutageBegins ==
  /\ ~outage /\ Fault
  /\ outage' = TRUE
  /\ UNCHANGED <<holder, version, store, runtime, shutdown, overlapped>>

OutageEnds ==
  /\ outage
  /\ outage' = FALSE
  /\ UNCHANGED <<holder, version, store, runtime, shutdown, faults, overlapped>>

(* The server ends a session: the lock is free, the transaction undone.    *)
SessionDrops(p) ==
  /\ session[p] = "open" /\ Fault
  /\ session' = [session EXCEPT ![p] = "none"]
  /\ holder' = Released(p)
  /\ tx' = [tx EXCEPT ![p] = FALSE]
  /\ UNCHANGED <<version, outage, lease, leaseError, memory, runtime, shutdown, overlapped>>

(* The client loses the connection, and the server has not noticed yet.    *)
ConnectionLost(p) ==
  /\ session[p] = "open" /\ Fault
  /\ session' = GivenUp(p)
  /\ UNCHANGED <<database, lease, leaseError, memory, tx, runtime, shutdown, overlapped>>

(* recordWriterLeaseError, recordWriterLeaseEnd                            *)
NoticeDrop(p) ==
  /\ lease[p] /\ session[p] # "open" /\ ~leaseError[p] /\ ~Closing(p)
  /\ leaseError' = [leaseError EXCEPT ![p] = TRUE]
  /\ UNCHANGED <<database, session, lease, memory, tx, runtime, shutdown, faults, overlapped>>

(* The server notices that a session has no client any more.               *)
OrphanEnds(p) ==
  /\ session[p] \in {"lost", "ended"}
  /\ session' = [session EXCEPT ![p] = "none"]
  /\ holder' = Released(p)
  /\ tx' = [tx EXCEPT ![p] = FALSE]
  /\ UNCHANGED <<version, outage, lease, leaseError, memory, runtime, shutdown, faults, overlapped>>

-----------------------------------------------------------------------------
(* Supervision.                                                            *)

(* Mutant: an unanswered probe does not count.                             *)
Probe_Forgets(p) ==
  /\ Supervised(p) /\ stage[p] = "up" /\ unhealthy[p] < Grace
  /\ unhealthy' = [unhealthy EXCEPT ![p] = 0]
  /\ UNCHANGED <<database, store, pc, live, failed, shutdown, faults, overlapped>>

(* Mutant: the rounds go on after the failure was reported.                *)
Probe_GoesOn(p) ==
  /\ Supervised(p) /\ stage[p] = "up" /\ unhealthy[p] <= Grace
  /\ unhealthy' = [unhealthy EXCEPT ![p] = IF Healthy(p) THEN 0 ELSE @ + 1]
  /\ UNCHANGED <<database, store, pc, live, failed, shutdown, faults, overlapped>>

(* waitForSustainedDatabaseHealthFailure: a round.                         *)
Probe(p) ==
  /\ Supervised(p) /\ stage[p] = "up" /\ unhealthy[p] < Grace
  /\ \/ Healthy(p) /\ unhealthy' = [unhealthy EXCEPT ![p] = 0] /\ UNCHANGED faults
     \/ TimesOut(Healthy(p)) /\ unhealthy' = [unhealthy EXCEPT ![p] = @ + 1]
  /\ UNCHANGED <<database, store, pc, live, failed, shutdown, overlapped>>

(* superviseAnalyticsFatalFailure                                          *)
Fatal(p) ==
  /\ Supervised(p) /\ stage[p] = "up"
  /\ leaseError[p] \/ unhealthy[p] = Grace
  /\ failed' = [failed EXCEPT ![p] = @ \/ pc[p] \in {"listen", "serving"}]
  /\ stage' = Shutting(p)
  /\ exits' = [exits EXCEPT ![p] = TRUE]
  /\ UNCHANGED <<database, store, pc, live, unhealthy, faults, overlapped>>

(* SIGTERM, SIGINT                                                         *)
Signal(p) ==
  /\ pc[p] # "off" /\ ~exits[p] /\ Fault
  /\ stage' = Shutting(p)
  /\ exits' = [exits EXCEPT ![p] = TRUE]
  /\ UNCHANGED <<database, store, runtime, overlapped>>

-----------------------------------------------------------------------------
(* shutdownAnalyticsRuntime: the source and the server are awaited for     *)
(* three quarters of the time limit, then the store is closed.  The rounds *)
(* of probes, and their count, ended with the shutdown's signal.           *)
Drained(p) ==
  /\ stage[p] = "draining"
  /\ stage' = [stage EXCEPT ![p] = "closing"]
  /\ unhealthy' = [unhealthy EXCEPT ![p] = 0]
  /\ UNCHANGED <<database, store, pc, live, failed, exits, faults, overlapped>>

(* Mutant: close does not await a pending acquisition.                     *)
CloseStore_AtOnce(p) ==
  /\ stage[p] = "closing"
  /\ stage' = [stage EXCEPT ![p] = IF Writable(p) THEN "unlocking" ELSE "ending"]
  /\ lease' = [lease EXCEPT ![p] = FALSE]
  /\ UNCHANGED <<database, session, leaseError, memory, tx, runtime, exits, faults, overlapped>>

(* Mutant: close leaves the lock to the end of the connection.             *)
CloseStore_NoUnlock(p) ==
  /\ stage[p] = "closing" /\ ~Acquiring(p)
  /\ stage' = [stage EXCEPT ![p] = "ending"]
  /\ lease' = [lease EXCEPT ![p] = FALSE]
  /\ UNCHANGED <<database, session, leaseError, memory, tx, runtime, exits, faults, overlapped>>

(* close: awaits a pending acquisition, then releases the lease.           *)
CloseStore(p) ==
  /\ stage[p] = "closing" /\ ~Acquiring(p)
  /\ stage' = [stage EXCEPT ![p] = IF Writable(p) THEN "unlocking" ELSE "ending"]
  /\ lease' = [lease EXCEPT ![p] = FALSE]
  /\ UNCHANGED <<database, session, leaseError, memory, tx, runtime, exits, faults, overlapped>>

(* pg_advisory_unlock, between two statements of a save that is still run. *)
(* A save that has thrown sends no COMMIT after it.                        *)
Unlock(p) ==
  /\ stage[p] = "unlocking" /\ Answers(p)
  /\ stage' = [stage EXCEPT ![p] = "ending"]
  /\ holder' = Released(p)
  /\ tx' = [tx EXCEPT ![p] = @ /\ CanSave(p)]
  /\ overlapped' = (overlapped \/ (tx[p] /\ CanSave(p)))
  /\ UNCHANGED <<version, outage, session, lease, leaseError, memory, runtime, exits, faults>>

(* The unlock throws, at once or by its time limit: the client is given    *)
(* up and the database keeps the lock until it notices.                    *)
UnlockFails(p) ==
  /\ stage[p] = "unlocking" /\ TimesOut(Answers(p))
  /\ stage' = [stage EXCEPT ![p] = "ending"]
  /\ session' = GivenUp(p)
  /\ UNCHANGED <<database, lease, leaseError, memory, tx, runtime, exits, overlapped>>

(* The pool ends its connection, if it still has it, unacknowledged.       *)
EndPool(p) ==
  /\ stage[p] = "ending"
  /\ stage' = [stage EXCEPT ![p] = "closed"]
  /\ session' = [session EXCEPT ![p] = IF @ = "open" THEN "ended" ELSE @]
  /\ UNCHANGED <<database, lease, leaseError, memory, tx, runtime, exits, faults, overlapped>>

(* The process ends.                                                       *)
Gone(p) ==
  /\ pc' = [pc EXCEPT ![p] = "off"]
  /\ session' = GivenUp(p)
  /\ lease' = [lease EXCEPT ![p] = FALSE]
  /\ leaseError' = [leaseError EXCEPT ![p] = FALSE]
  /\ memory' = [memory EXCEPT ![p] = None]
  /\ live' = [live EXCEPT ![p] = FALSE]
  /\ failed' = [failed EXCEPT ![p] = FALSE]
  /\ unhealthy' = [unhealthy EXCEPT ![p] = 0]
  /\ stage' = [stage EXCEPT ![p] = "up"]
  /\ exits' = [exits EXCEPT ![p] = FALSE]
  /\ UNCHANGED <<database, tx, overlapped>>

(* When the store is closed, or when process.exit stops waiting for it.    *)
Exit(p) ==
  /\ stage[p] = "closed" \/ (Closing(p) /\ exits[p])
  /\ exits[p] \/ ~live[p]
  /\ Gone(p)
  /\ UNCHANGED faults

Crash(p) == pc[p] # "off" /\ Fault /\ Gone(p)

-----------------------------------------------------------------------------
(* What the code and the network do by themselves.                         *)
Runs(p) ==
  \/ Launch(p) \/ AcquireWriterLease(p) \/ CreateSchema(p) \/ CheckHealth(p) \/ Load(p)
  \/ BackfillEnds(p) \/ Listen(p) \/ Commit(p) \/ SaveFails(p) \/ LiveSourceAborts(p)
  \/ NoticeDrop(p) \/ OrphanEnds(p) \/ Fatal(p)
  \/ Drained(p) \/ CloseStore(p) \/ Unlock(p) \/ UnlockFails(p) \/ EndPool(p) \/ Exit(p)

Next ==
  \/ OutageBegins \/ OutageEnds
  \/ \E p \in Processes :
       Runs(p) \/ Probe(p) \/ BeginSave(p) \/ LiveSourceFails(p) \/ SessionDrops(p)
         \/ ConnectionLost(p) \/ Signal(p) \/ Crash(p)

Spec == Init /\ [][Next]_vars

(* The steps of a process and its timers go on; a supervisor restarts it.  *)
Fairness == \A p \in Processes : WF_vars(Runs(p)) /\ WF_vars(Probe(p))
FairSpec == Spec /\ Fairness

-----------------------------------------------------------------------------
TypeOK ==
  /\ holder \in Processes \cup {None} /\ version \in Nat /\ outage \in BOOLEAN
  /\ pc \in [Processes -> {"off", "connect", "schema", "health", "load", "backfill", "listen",
                           "serving", "failed"}]
  /\ session \in [Processes -> {"none", "open", "lost", "ended"}]
  /\ lease \in [Processes -> BOOLEAN] /\ leaseError \in [Processes -> BOOLEAN]
  /\ memory \in [Processes -> Nat \cup {None}]
  /\ tx \in [Processes -> BOOLEAN]
  /\ live \in [Processes -> BOOLEAN] /\ failed \in [Processes -> BOOLEAN]
  /\ unhealthy \in [Processes -> 0..Grace]
  /\ stage \in [Processes -> {"up", "draining", "closing", "unlocking", "ending", "closed"}]
  /\ exits \in [Processes -> BOOLEAN]
  /\ faults \in Nat /\ overlapped \in BOOLEAN

(* readinessProbe, with the health check answered on the lease's session.  *)
Ready(p) ==
  /\ pc[p] = "serving" /\ stage[p] = "up" /\ live[p] /\ ~failed[p]
  /\ Healthy(p)

(* A process that answers ready is the only writer, and has the saved      *)
(* state, unless some lock was released under an open transaction.         *)
ReadyIsWriter ==
  ~overlapped => \A p \in Processes : Ready(p) => holder = p /\ memory[p] = version

(* No other process has saved since the lock's holder loaded the state:    *)
(* what it saves next replaces nothing it has not read.                    *)
HolderCurrent ==
  \A p \in Processes : holder = p /\ memory[p] # None => memory[p] = version

(* The same, unless some lock was released under an open transaction.      *)
FencedHolderCurrent == ~overlapped => HolderCurrent

(* A closed store has no lease, no connection and no acquisition pending,  *)
(* not even one that close found under way.  Its lock is free for the next *)
(* process, unless the connection was lost or the unlock not answered in   *)
(* time: then the client was given up, and the database keeps the lock     *)
(* until the server ends that session.                                     *)
CloseReleases ==
  \A p \in Processes :
    stage[p] = "closed" =>
      /\ ~lease[p] /\ session[p] # "open" /\ ~Acquiring(p)
      /\ holder = p => session[p] = "lost"

(* After the last fault one of the processes serves for good: no lock is   *)
(* left behind.                                                            *)
EventuallyServes == <>[]~outage => <>[](\E p \in Processes : Ready(p))

(* A process whose database never answers again does not stay up.          *)
OutageIsFatal ==
  \A p \in Processes : <>[]outage => []<>~(Supervised(p) /\ stage[p] = "up")
=============================================================================
