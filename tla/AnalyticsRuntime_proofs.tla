---------------------- MODULE AnalyticsRuntime_proofs ----------------------
(***************************************************************************)
(* Proofs of the safety of AnalyticsRuntime for any number of processes.   *)
(***************************************************************************)
EXTENDS AnalyticsRuntime, TLAPS

(* How one process and the lock stand to each other.                       *)
LeaseInv(q) ==
  /\ holder = q => session[q] \in {"open", "lost"}
  /\ lease[q] /\ session[q] # "none" => holder = q
  /\ leaseError[q] => session[q] # "open"
  /\ session[q] = "open" /\ ~lease[q] => stage[q] \in {"unlocking", "ending"}
  /\ session[q] = "open" /\ stage[q] = "ending" => holder # q
  /\ stage[q] \in {"unlocking", "ending", "closed"} => ~lease[q]
  /\ stage[q] = "closed" => session[q] # "open"
  /\ Acquiring(q) => stage[q] \in {"up", "draining", "closing"}
  /\ pc[q] = "connect" => session[q] = "none" /\ ~lease[q] /\ ~leaseError[q]
  /\ pc[q] = "off" => stage[q] = "up" /\ ~lease[q] /\ ~live[q] /\ ~leaseError[q] /\ session[q] # "open"

(* How its engine and its saves stand to the saved state.                  *)
FenceInv(q) ==
  /\ pc[q] \in {"off", "connect", "schema"} => memory[q] = None
  /\ pc[q] \in {"backfill", "listen", "serving"} => memory[q] # None
  /\ live[q] => pc[q] = "serving"
  /\ tx[q] => session[q] # "none"
  /\ Acquiring(q) => ~tx[q]
  /\ ~overlapped /\ tx[q] => holder = q
  /\ ~overlapped /\ holder = q /\ memory[q] # None => memory[q] = version

IInv == TypeOK /\ \A q \in Processes : LeaseInv(q) /\ FenceInv(q)

-----------------------------------------------------------------------------
LEMMA InitIInv == Init => IInv
  <1> SUFFICES ASSUME Init PROVE IInv  OBVIOUS
  <1>0. 0 \in 0..Grace  BY RuntimeAssumption DEF RuntimeAssumption
  <1>1. TypeOK  BY <1>0 DEF Init, TypeOK
  <1>2. ASSUME NEW q \in Processes PROVE LeaseInv(q) /\ FenceInv(q)
    BY RuntimeAssumption DEF RuntimeAssumption, Init, LeaseInv, FenceInv, Acquiring
  <1> QED  BY <1>1, <1>2 DEF IInv

LEMMA StutterIInv == IInv /\ UNCHANGED vars => IInv'
  BY DEF IInv, TypeOK, LeaseInv, FenceInv, Acquiring, vars, database, store, runtime, shutdown

LEMMA LaunchIInv == ASSUME NEW p \in Processes, IInv, Launch(p) PROVE IInv'
  <1>1. TypeOK'
    BY RuntimeAssumption DEF RuntimeAssumption, IInv, TypeOK, Launch, database, store, shutdown
  <1>2. ASSUME NEW q \in Processes PROVE LeaseInv(q)' /\ FenceInv(q)'
    <2>1. LeaseInv(q) /\ FenceInv(q)  BY DEF IInv
    <2> QED
      BY <2>1, RuntimeAssumption DEF RuntimeAssumption, IInv, TypeOK, LeaseInv, FenceInv, Acquiring, Launch, database, store, shutdown
  <1> QED  BY <1>1, <1>2 DEF IInv

LEMMA AcquireWriterLeaseIInv == ASSUME NEW p \in Processes, IInv, AcquireWriterLease(p) PROVE IInv'
  <1>1. TypeOK'
    BY RuntimeAssumption DEF RuntimeAssumption, IInv, TypeOK, AcquireWriterLease, StartupFails, Shutting, shutdown
  <1>2. ASSUME NEW q \in Processes PROVE LeaseInv(q)' /\ FenceInv(q)'
    <2>1. LeaseInv(q) /\ FenceInv(q)  BY DEF IInv
    <2>2. LeaseInv(q)'
      <3>1. CASE q = p  BY <3>1, <2>1, RuntimeAssumption DEF RuntimeAssumption, IInv, TypeOK, LeaseInv, FenceInv, Acquiring, AcquireWriterLease, StartupFails, Shutting, shutdown
      <3>2. CASE q # p  BY <3>2, <2>1, RuntimeAssumption DEF RuntimeAssumption, IInv, TypeOK, LeaseInv, FenceInv, Acquiring, AcquireWriterLease, StartupFails, Shutting, shutdown
      <3> QED  BY <3>1, <3>2
    <2>3. FenceInv(q)'
      BY <2>1, RuntimeAssumption DEF RuntimeAssumption, IInv, TypeOK, LeaseInv, FenceInv, Acquiring, AcquireWriterLease, StartupFails, Shutting, shutdown
    <2> QED  BY <2>2, <2>3
  <1> QED  BY <1>1, <1>2 DEF IInv

LEMMA CreateSchemaIInv == ASSUME NEW p \in Processes, IInv, CreateSchema(p) PROVE IInv'
  <1>3. faults' \in Nat
    BY DEF IInv, TypeOK, CreateSchema, TimesOut, Fault
  <1>4. session' \in [Processes -> {"none", "open", "lost", "ended"}]
    BY DEF IInv, TypeOK, CreateSchema, GivenUp
  <1>1. TypeOK'
    BY <1>3, <1>4 DEF IInv, TypeOK, CreateSchema, StartupFails, Shutting, shutdown, database
  <1>2. ASSUME NEW q \in Processes PROVE LeaseInv(q)' /\ FenceInv(q)'
    <2>1. LeaseInv(q) /\ FenceInv(q)  BY DEF IInv
    <2> QED
      BY <2>1, RuntimeAssumption DEF RuntimeAssumption, IInv, TypeOK, LeaseInv, FenceInv, Acquiring, CreateSchema, TimesOut, GivenUp, Fault, Answers, StartupFails, Shutting, shutdown, database
  <1> QED  BY <1>1, <1>2 DEF IInv

LEMMA CheckHealthIInv == ASSUME NEW p \in Processes, IInv, CheckHealth(p) PROVE IInv'
  <1>1. TypeOK'
    BY RuntimeAssumption DEF RuntimeAssumption, IInv, TypeOK, CheckHealth, TimesOut, Fault, StartupFails, Shutting, shutdown, database, store
  <1>2. ASSUME NEW q \in Processes PROVE LeaseInv(q)' /\ FenceInv(q)'
    <2>1. LeaseInv(q) /\ FenceInv(q)  BY DEF IInv
    <2> QED
      BY <2>1, RuntimeAssumption DEF RuntimeAssumption, IInv, TypeOK, LeaseInv, FenceInv, Acquiring, CheckHealth, TimesOut, Fault, StartupFails, Shutting, shutdown, database, store
  <1> QED  BY <1>1, <1>2 DEF IInv

LEMMA LoadIInv == ASSUME NEW p \in Processes, IInv, Load(p) PROVE IInv'
  <1>1. TypeOK'
    BY RuntimeAssumption DEF RuntimeAssumption, IInv, TypeOK, Load, TimesOut, Fault, Writable, StartupFails, Shutting, shutdown, database
  <1>2. ASSUME NEW q \in Processes PROVE LeaseInv(q)' /\ FenceInv(q)'
    <2>1. LeaseInv(q) /\ FenceInv(q)  BY DEF IInv
    <2> QED
      BY <2>1, RuntimeAssumption DEF RuntimeAssumption, IInv, TypeOK, LeaseInv, FenceInv, Acquiring, Load, TimesOut, Fault, Writable, StartupFails, Shutting, shutdown, database
  <1> QED  BY <1>1, <1>2 DEF IInv

LEMMA BackfillEndsIInv == ASSUME NEW p \in Processes, IInv, BackfillEnds(p) PROVE IInv'
  <1>1. TypeOK'
    BY RuntimeAssumption DEF RuntimeAssumption, IInv, TypeOK, BackfillEnds, StartupFails, Shutting, shutdown, database, store
  <1>2. ASSUME NEW q \in Processes PROVE LeaseInv(q)' /\ FenceInv(q)'
    <2>1. LeaseInv(q) /\ FenceInv(q)  BY DEF IInv
    <2> QED
      BY <2>1, RuntimeAssumption DEF RuntimeAssumption, IInv, TypeOK, LeaseInv, FenceInv, Acquiring, BackfillEnds, StartupFails, Shutting, shutdown, database, store
  <1> QED  BY <1>1, <1>2 DEF IInv

LEMMA ListenIInv == ASSUME NEW p \in Processes, IInv, Listen(p) PROVE IInv'
  <1>1. TypeOK'
    BY RuntimeAssumption DEF RuntimeAssumption, IInv, TypeOK, Listen, database, store, shutdown
  <1>2. ASSUME NEW q \in Processes PROVE LeaseInv(q)' /\ FenceInv(q)'
    <2>1. LeaseInv(q) /\ FenceInv(q)  BY DEF IInv
    <2> QED
      BY <2>1, RuntimeAssumption DEF RuntimeAssumption, IInv, TypeOK, LeaseInv, FenceInv, Acquiring, Listen, database, store, shutdown
  <1> QED  BY <1>1, <1>2 DEF IInv

LEMMA BeginSaveIInv == ASSUME NEW p \in Processes, IInv, BeginSave(p) PROVE IInv'
  <1>1. TypeOK'
    BY RuntimeAssumption DEF RuntimeAssumption, IInv, TypeOK, BeginSave, CanSave, Writable, database, runtime, shutdown
  <1>2. ASSUME NEW q \in Processes PROVE LeaseInv(q)' /\ FenceInv(q)'
    <2>1. LeaseInv(q) /\ FenceInv(q)  BY DEF IInv
    <2> QED
      BY <2>1, RuntimeAssumption DEF RuntimeAssumption, IInv, TypeOK, LeaseInv, FenceInv, Acquiring, BeginSave, CanSave, Writable, database, runtime, shutdown
  <1> QED  BY <1>1, <1>2 DEF IInv

LEMMA CommitIInv == ASSUME NEW p \in Processes, IInv, Commit(p) PROVE IInv'
  <1>1. TypeOK'
    BY RuntimeAssumption DEF RuntimeAssumption, IInv, TypeOK, Commit, runtime, shutdown
  <1>3. ~overlapped /\ tx[p] => holder = p
    BY DEF IInv, FenceInv
  <1>2. ASSUME NEW q \in Processes PROVE LeaseInv(q)' /\ FenceInv(q)'
    <2>1. LeaseInv(q) /\ FenceInv(q)  BY DEF IInv
    <2>2. ~overlapped => holder = p  BY <1>3 DEF Commit
    <2>3. memory'[q] = IF q # p THEN memory[q] ELSE IF pc[p] = "off" THEN None ELSE version'
      BY DEF IInv, TypeOK, Commit
    <2>4. LeaseInv(q)'
      BY <2>1 DEF LeaseInv, Acquiring, Commit, runtime, shutdown
    <2>5. tx'[q] => tx[q]  BY DEF IInv, TypeOK, Commit
    <2>6. version' \in Nat  BY DEF IInv, TypeOK, Commit
    <2>7. None \notin Nat  BY RuntimeAssumption DEF RuntimeAssumption
    <2> QED
      BY <2>1, <2>2, <2>3, <2>4, <2>5, <2>6, <2>7 DEF FenceInv, Acquiring, Commit, runtime, shutdown
  <1> QED  BY <1>1, <1>2 DEF IInv

LEMMA SaveFailsIInv == ASSUME NEW p \in Processes, IInv, SaveFails(p) PROVE IInv'
  <1>3. faults' \in Nat
    BY DEF IInv, TypeOK, SaveFails, TimesOut, Fault
  <1>4. tx' \in [Processes -> BOOLEAN]
    BY DEF IInv, TypeOK, SaveFails
  <1>5. /\ stage' \in [Processes -> {"up", "draining", "closing", "unlocking", "ending", "closed"}]
        /\ UNCHANGED exits
    BY DEF IInv, TypeOK, SaveFails, SourceEnded, StartupFails, Shutting
  <1>6. /\ live' \in [Processes -> BOOLEAN] /\ failed' \in [Processes -> BOOLEAN]
        /\ pc' \in [Processes -> {"off", "connect", "schema", "health", "load", "backfill", "listen",
                                  "serving", "failed"}]
    BY DEF IInv, TypeOK, SaveFails, SourceEnded, StartupFails
  <1>1. TypeOK'
    BY <1>3, <1>4, <1>5, <1>6 DEF IInv, TypeOK, SaveFails, database
  <1>2. ASSUME NEW q \in Processes PROVE LeaseInv(q)' /\ FenceInv(q)'
    <2>1. LeaseInv(q) /\ FenceInv(q)  BY DEF IInv
    <2> QED
      BY <2>1, RuntimeAssumption DEF RuntimeAssumption, IInv, TypeOK, LeaseInv, FenceInv, Acquiring, SaveFails, TimesOut, Fault, CanSave, SourceEnded, StartupFails, Shutting, shutdown, database, Answers
  <1> QED  BY <1>1, <1>2 DEF IInv

LEMMA LiveSourceFailsIInv == ASSUME NEW p \in Processes, IInv, LiveSourceFails(p) PROVE IInv'
  <1>1. TypeOK'
    BY RuntimeAssumption DEF RuntimeAssumption, IInv, TypeOK, LiveSourceFails, SourceEnded, Shutting, Fault, shutdown, database, store
  <1>2. ASSUME NEW q \in Processes PROVE LeaseInv(q)' /\ FenceInv(q)'
    <2>1. LeaseInv(q) /\ FenceInv(q)  BY DEF IInv
    <2> QED
      BY <2>1, RuntimeAssumption DEF RuntimeAssumption, IInv, TypeOK, LeaseInv, FenceInv, Acquiring, LiveSourceFails, SourceEnded, Shutting, Fault, shutdown, database, store
  <1> QED  BY <1>1, <1>2 DEF IInv

LEMMA LiveSourceAbortsIInv == ASSUME NEW p \in Processes, IInv, LiveSourceAborts(p) PROVE IInv'
  <1>1. TypeOK'
    BY RuntimeAssumption DEF RuntimeAssumption, IInv, TypeOK, LiveSourceAborts, SourceEnded, Shutting, shutdown, database, store
  <1>2. ASSUME NEW q \in Processes PROVE LeaseInv(q)' /\ FenceInv(q)'
    <2>1. LeaseInv(q) /\ FenceInv(q)  BY DEF IInv
    <2> QED
      BY <2>1, RuntimeAssumption DEF RuntimeAssumption, IInv, TypeOK, LeaseInv, FenceInv, Acquiring, LiveSourceAborts, SourceEnded, Shutting, shutdown, database, store
  <1> QED  BY <1>1, <1>2 DEF IInv

LEMMA OutageBeginsIInv == ASSUME IInv, OutageBegins PROVE IInv'
  <1>1. TypeOK'
    BY RuntimeAssumption DEF RuntimeAssumption, IInv, TypeOK, OutageBegins, Fault, store, runtime, shutdown
  <1>2. ASSUME NEW q \in Processes PROVE LeaseInv(q)' /\ FenceInv(q)'
    <2>1. LeaseInv(q) /\ FenceInv(q)  BY DEF IInv
    <2> QED
      BY <2>1, RuntimeAssumption DEF RuntimeAssumption, IInv, TypeOK, LeaseInv, FenceInv, Acquiring, OutageBegins, Fault, store, runtime, shutdown
  <1> QED  BY <1>1, <1>2 DEF IInv

LEMMA OutageEndsIInv == ASSUME IInv, OutageEnds PROVE IInv'
  <1>1. TypeOK'
    BY RuntimeAssumption DEF RuntimeAssumption, IInv, TypeOK, OutageEnds, store, runtime, shutdown
  <1>2. ASSUME NEW q \in Processes PROVE LeaseInv(q)' /\ FenceInv(q)'
    <2>1. LeaseInv(q) /\ FenceInv(q)  BY DEF IInv
    <2> QED
      BY <2>1, RuntimeAssumption DEF RuntimeAssumption, IInv, TypeOK, LeaseInv, FenceInv, Acquiring, OutageEnds, store, runtime, shutdown
  <1> QED  BY <1>1, <1>2 DEF IInv

LEMMA SessionDropsIInv == ASSUME NEW p \in Processes, IInv, SessionDrops(p) PROVE IInv'
  <1>1. TypeOK'
    BY RuntimeAssumption DEF RuntimeAssumption, IInv, TypeOK, SessionDrops, Fault, Released, runtime, shutdown
  <1>2. ASSUME NEW q \in Processes PROVE LeaseInv(q)' /\ FenceInv(q)'
    <2>1. LeaseInv(q) /\ FenceInv(q)  BY DEF IInv
    <2> QED
      BY <2>1, RuntimeAssumption DEF RuntimeAssumption, IInv, TypeOK, LeaseInv, FenceInv, Acquiring, SessionDrops, Fault, Released, runtime, shutdown
  <1> QED  BY <1>1, <1>2 DEF IInv

LEMMA ConnectionLostIInv == ASSUME NEW p \in Processes, IInv, ConnectionLost(p) PROVE IInv'
  <1>1. TypeOK'
    BY RuntimeAssumption DEF RuntimeAssumption, IInv, TypeOK, ConnectionLost, GivenUp, Fault, Released, runtime, shutdown, database
  <1>2. ASSUME NEW q \in Processes PROVE LeaseInv(q)' /\ FenceInv(q)'
    <2>1. LeaseInv(q) /\ FenceInv(q)  BY DEF IInv
    <2> QED
      BY <2>1, RuntimeAssumption DEF RuntimeAssumption, IInv, TypeOK, LeaseInv, FenceInv, Acquiring, ConnectionLost, GivenUp, Fault, Released, runtime, shutdown, database
  <1> QED  BY <1>1, <1>2 DEF IInv

LEMMA NoticeDropIInv == ASSUME NEW p \in Processes, IInv, NoticeDrop(p) PROVE IInv'
  <1>1. TypeOK'
    BY RuntimeAssumption DEF RuntimeAssumption, IInv, TypeOK, NoticeDrop, database, runtime, shutdown
  <1>2. ASSUME NEW q \in Processes PROVE LeaseInv(q)' /\ FenceInv(q)'
    <2>1. LeaseInv(q) /\ FenceInv(q)  BY DEF IInv
    <2> QED
      BY <2>1, RuntimeAssumption DEF RuntimeAssumption, IInv, TypeOK, LeaseInv, FenceInv, Acquiring, NoticeDrop, database, runtime, shutdown
  <1> QED  BY <1>1, <1>2 DEF IInv

LEMMA OrphanEndsIInv == ASSUME NEW p \in Processes, IInv, OrphanEnds(p) PROVE IInv'
  <1>1. TypeOK'
    BY RuntimeAssumption DEF RuntimeAssumption, IInv, TypeOK, OrphanEnds, Released, runtime, shutdown
  <1>2. ASSUME NEW q \in Processes PROVE LeaseInv(q)' /\ FenceInv(q)'
    <2>1. LeaseInv(q) /\ FenceInv(q)  BY DEF IInv
    <2> QED
      BY <2>1, RuntimeAssumption DEF RuntimeAssumption, IInv, TypeOK, LeaseInv, FenceInv, Acquiring, OrphanEnds, Released, runtime, shutdown
  <1> QED  BY <1>1, <1>2 DEF IInv

LEMMA ProbeIInv == ASSUME NEW p \in Processes, IInv, Probe(p) PROVE IInv'
  <1>1. TypeOK'
    BY RuntimeAssumption DEF RuntimeAssumption, IInv, TypeOK, Probe, TimesOut, Fault, database, store, shutdown
  <1>2. ASSUME NEW q \in Processes PROVE LeaseInv(q)' /\ FenceInv(q)'
    <2>1. LeaseInv(q) /\ FenceInv(q)  BY DEF IInv
    <2> QED
      BY <2>1, RuntimeAssumption DEF RuntimeAssumption, IInv, TypeOK, LeaseInv, FenceInv, Acquiring, Probe, TimesOut, Fault, database, store, shutdown
  <1> QED  BY <1>1, <1>2 DEF IInv

LEMMA FatalIInv == ASSUME NEW p \in Processes, IInv, Fatal(p) PROVE IInv'
  <1>1. TypeOK'
    BY RuntimeAssumption DEF RuntimeAssumption, IInv, TypeOK, Fatal, Shutting, Supervised, database, store
  <1>2. ASSUME NEW q \in Processes PROVE LeaseInv(q)' /\ FenceInv(q)'
    <2>1. LeaseInv(q) /\ FenceInv(q)  BY DEF IInv
    <2> QED
      BY <2>1, RuntimeAssumption DEF RuntimeAssumption, IInv, TypeOK, LeaseInv, FenceInv, Acquiring, Fatal, Shutting, Supervised, database, store
  <1> QED  BY <1>1, <1>2 DEF IInv

LEMMA SignalIInv == ASSUME NEW p \in Processes, IInv, Signal(p) PROVE IInv'
  <1>1. TypeOK'
    BY RuntimeAssumption DEF RuntimeAssumption, IInv, TypeOK, Signal, Fault, Shutting, database, store, runtime
  <1>2. ASSUME NEW q \in Processes PROVE LeaseInv(q)' /\ FenceInv(q)'
    <2>1. LeaseInv(q) /\ FenceInv(q)  BY DEF IInv
    <2> QED
      BY <2>1, RuntimeAssumption DEF RuntimeAssumption, IInv, TypeOK, LeaseInv, FenceInv, Acquiring, Signal, Fault, Shutting, database, store, runtime
  <1> QED  BY <1>1, <1>2 DEF IInv

LEMMA DrainedIInv == ASSUME NEW p \in Processes, IInv, Drained(p) PROVE IInv'
  <1>1. TypeOK'
    BY RuntimeAssumption DEF RuntimeAssumption, IInv, TypeOK, Drained, database, store, runtime
  <1>2. ASSUME NEW q \in Processes PROVE LeaseInv(q)' /\ FenceInv(q)'
    <2>1. LeaseInv(q) /\ FenceInv(q)  BY DEF IInv
    <2> QED
      BY <2>1, RuntimeAssumption DEF RuntimeAssumption, IInv, TypeOK, LeaseInv, FenceInv, Acquiring, Drained, database, store, runtime
  <1> QED  BY <1>1, <1>2 DEF IInv

LEMMA CloseStoreIInv == ASSUME NEW p \in Processes, IInv, CloseStore(p) PROVE IInv'
  <1>1. TypeOK'
    BY RuntimeAssumption DEF RuntimeAssumption, IInv, TypeOK, CloseStore, Writable, database, runtime
  <1>2. ASSUME NEW q \in Processes PROVE LeaseInv(q)' /\ FenceInv(q)'
    <2>1. LeaseInv(q) /\ FenceInv(q)  BY DEF IInv
    <2> QED
      BY <2>1, RuntimeAssumption DEF RuntimeAssumption, IInv, TypeOK, LeaseInv, FenceInv, Acquiring, CloseStore, Writable, database, runtime
  <1> QED  BY <1>1, <1>2 DEF IInv

LEMMA UnlockIInv == ASSUME NEW p \in Processes, IInv, Unlock(p) PROVE IInv'
  <1>1. TypeOK'
    BY RuntimeAssumption DEF RuntimeAssumption, IInv, TypeOK, Unlock, CanSave, Released, store, runtime
  <1>2. ASSUME NEW q \in Processes PROVE LeaseInv(q)' /\ FenceInv(q)'
    <2>1. LeaseInv(q) /\ FenceInv(q)  BY DEF IInv
    <2> QED
      BY <2>1, RuntimeAssumption DEF RuntimeAssumption, IInv, TypeOK, LeaseInv, FenceInv, Acquiring, Unlock, CanSave, Released, store, runtime
  <1> QED  BY <1>1, <1>2 DEF IInv

LEMMA UnlockFailsIInv == ASSUME NEW p \in Processes, IInv, UnlockFails(p) PROVE IInv'
  <1>1. TypeOK'
    BY RuntimeAssumption DEF RuntimeAssumption, IInv, TypeOK, UnlockFails, TimesOut, Fault, GivenUp, CanSave, Released, store, runtime, database
  <1>2. ASSUME NEW q \in Processes PROVE LeaseInv(q)' /\ FenceInv(q)'
    <2>1. LeaseInv(q) /\ FenceInv(q)  BY DEF IInv
    <2> QED
      BY <2>1, RuntimeAssumption DEF RuntimeAssumption, IInv, TypeOK, LeaseInv, FenceInv, Acquiring, UnlockFails, TimesOut, Fault, GivenUp, CanSave, Released, store, runtime, database
  <1> QED  BY <1>1, <1>2 DEF IInv

LEMMA EndPoolIInv == ASSUME NEW p \in Processes, IInv, EndPool(p) PROVE IInv'
  <1>1. TypeOK'
    BY RuntimeAssumption DEF RuntimeAssumption, IInv, TypeOK, EndPool, Released, runtime, database
  <1>2. ASSUME NEW q \in Processes PROVE LeaseInv(q)' /\ FenceInv(q)'
    <2>1. LeaseInv(q) /\ FenceInv(q)  BY DEF IInv
    <2> QED
      BY <2>1, RuntimeAssumption DEF RuntimeAssumption, IInv, TypeOK, LeaseInv, FenceInv, Acquiring, EndPool, Released, runtime, database
  <1> QED  BY <1>1, <1>2 DEF IInv

LEMMA ExitIInv == ASSUME NEW p \in Processes, IInv, Exit(p) PROVE IInv'
  <1>1. TypeOK'
    BY RuntimeAssumption DEF RuntimeAssumption, IInv, TypeOK, Exit, GivenUp, Gone, Closing, database
  <1>2. ASSUME NEW q \in Processes PROVE LeaseInv(q)' /\ FenceInv(q)'
    <2>1. LeaseInv(q) /\ FenceInv(q)  BY DEF IInv
    <2> QED
      BY <2>1, RuntimeAssumption DEF RuntimeAssumption, IInv, TypeOK, LeaseInv, FenceInv, Acquiring, Exit, GivenUp, Gone, Closing, database
  <1> QED  BY <1>1, <1>2 DEF IInv

LEMMA CrashIInv == ASSUME NEW p \in Processes, IInv, Crash(p) PROVE IInv'
  <1>1. TypeOK'
    BY RuntimeAssumption DEF RuntimeAssumption, IInv, TypeOK, Crash, GivenUp, Gone, Fault, database
  <1>2. ASSUME NEW q \in Processes PROVE LeaseInv(q)' /\ FenceInv(q)'
    <2>1. LeaseInv(q) /\ FenceInv(q)  BY DEF IInv
    <2> QED
      BY <2>1, RuntimeAssumption DEF RuntimeAssumption, IInv, TypeOK, LeaseInv, FenceInv, Acquiring, Crash, GivenUp, Gone, Fault, database
  <1> QED  BY <1>1, <1>2 DEF IInv
-----------------------------------------------------------------------------
LEMMA NextIInv == IInv /\ [Next]_vars => IInv'
  <1> SUFFICES ASSUME IInv, [Next]_vars PROVE IInv'  OBVIOUS
  <1>1. CASE UNCHANGED vars  BY <1>1, StutterIInv
  <1>2. CASE OutageBegins \/ OutageEnds  BY <1>2, OutageBeginsIInv, OutageEndsIInv
  <1>3. ASSUME NEW p \in Processes, Runs(p) PROVE IInv'
    BY <1>3, LaunchIInv, AcquireWriterLeaseIInv, CreateSchemaIInv, CheckHealthIInv, LoadIInv, BackfillEndsIInv, ListenIInv, CommitIInv, SaveFailsIInv,
       LiveSourceAbortsIInv, NoticeDropIInv, OrphanEndsIInv, FatalIInv, DrainedIInv, CloseStoreIInv, UnlockIInv, UnlockFailsIInv,
       EndPoolIInv, ExitIInv
       DEF Runs
  <1>4. ASSUME NEW p \in Processes,
               Probe(p) \/ BeginSave(p) \/ LiveSourceFails(p) \/ SessionDrops(p) \/ ConnectionLost(p)
                 \/ Signal(p) \/ Crash(p)
        PROVE  IInv'
    BY <1>4, ProbeIInv, BeginSaveIInv, LiveSourceFailsIInv, SessionDropsIInv, ConnectionLostIInv, SignalIInv, CrashIInv
  <1> QED  BY <1>1, <1>2, <1>3, <1>4 DEF Next

(* The invariant holds in every behaviour.                                 *)
THEOREM Invariance == Spec => []IInv
  BY InitIInv, NextIInv, PTL DEF Spec

(* Every variable has its type: runtime.ts, postgres-store.ts.             *)
THEOREM TypeCorrect == Spec => []TypeOK
  <1>1. IInv => TypeOK  BY DEF IInv
  <1> QED  BY <1>1, Invariance, PTL

(* postgres-store.ts: what the holder of the writer lease saves next       *)
(* replaces nothing it has not read, unless a store was closed, and its    *)
(* lock released, under an open transaction.                               *)
THEOREM Fenced == Spec => []FencedHolderCurrent
  <1>1. IInv => FencedHolderCurrent
    BY DEF IInv, FenceInv, FencedHolderCurrent, HolderCurrent
  <1> QED  BY <1>1, Invariance, PTL

(* runtime.ts readinessProbe: a process that answers ready is the only     *)
(* writer and has the saved state, under the same proviso.                 *)
THEOREM ReadyWrites == Spec => []ReadyIsWriter
  <1>1. IInv => ReadyIsWriter
    BY DEF IInv, LeaseInv, FenceInv, ReadyIsWriter, Ready, Healthy, Answers
  <1> QED  BY <1>1, Invariance, PTL

(* postgres-store.ts close: a closed store has no lease, no connection and *)
(* no acquisition pending; the database has its lock only where the client *)
(* was lost or given up unanswered.                                        *)
THEOREM ClosedReleased == Spec => []CloseReleases
  <1>1. IInv => CloseReleases
    BY DEF IInv, LeaseInv, CloseReleases
  <1> QED  BY <1>1, Invariance, PTL
=============================================================================
