------------------------- MODULE ThreadGroupProofs --------------------------
(***************************************************************************)
(* The thread group, the heap that it collects and the queue that its      *)
(* threads share, for any number of threads, objects, collections, nested  *)
(* GC_STOP regions and calls.                                              *)
(*                                                                         *)
(* The group: the types, the inductive invariant GCInv of the collection   *)
(* protocol, and the safety properties that follow from it.  GCInv without *)
(* its last conjunct is preserved by every action but two for reasons of   *)
(* its own; NextGCPhase is the exception, it relies on ReadyCount:         *)
(* GCReadyCount counts distinct counted threads, so when it reaches        *)
(* nRunning every counted thread has reported.                             *)
(*                                                                         *)
(* The heap: the collector frees nothing that a thread can reach and       *)
(* leaves no mark behind, as long as no thread executes while its group is *)
(* being marked.  The heap adds to the steps of ThreadGroup and takes no   *)
(* other ones, so that GCInv holds there as well.  HeapInv says what the   *)
(* collector knows about the objects at each point of the protocol.        *)
(*                                                                         *)
(* The queue: its types, that take and peek find the element they waited   *)
(* for, that no broadcast is lost, and that the ring stays put while it is *)
(* marked.  A step of the queue is a step of the thread group or leaves it *)
(* alone, so that GCInv holds there as well.                               *)
(***************************************************************************)
EXTENDS Heap, SharedQueue, FiniteSetTheorems, TLAPS

-----------------------------------------------------------------------------
(* Types *)

\* The group starts well typed, whichever threads exist.
LEMMA MembersTyped ==
  ASSUME NEW T \in SUBSET Thread, Members(T)
  PROVE  TypeOK
<1>1. blocked \in [Thread -> BOOLEAN] /\ wantGC \in BOOLEAN
  BY Zenon DEF Members
<1>2. QED
  BY <1>1, ThreadAssumption DEF Members, TypeOK, PCs, Phases

\* The first states have the type.
LEMMA TypeInit == Init => TypeOK
BY MembersTyped, ThreadAssumption, Zenon DEF Init

\* Each action of one thread keeps the types; DoGC and the scan by cases.
LEMMA TypeStep ==
  ASSUME TypeOK, [Next]_vars
  PROVE  TypeOK'
<1> USE ThreadAssumption DEF TypeOK, PCs, Phases, Go, threadVars, lockVars, phaseVars,
                             collectVars
<1>0. CASE UNCHANGED vars
  BY <1>0, Zenon DEF vars
<1>1. ASSUME NEW t \in Thread, Block(t) \/ Unblock(t) \/ GcStop(t) \/ GcResume(t)
      PROVE  TypeOK'
  <2>1. CASE Block(t)
    BY <2>1, Zenon DEF Block, ReleaseLock
  <2>2. CASE Unblock(t)
    BY <2>2, Zenon DEF Unblock, TakeLock
  <2>3. CASE GcStop(t)
    BY <2>3 DEF GcStop
  <2>4. CASE GcResume(t)
    BY <2>4 DEF GcResume
  <2>5. QED
    BY <1>1, <2>1, <2>2, <2>3, <2>4, Zenon
<1>2. ASSUME NEW t \in Thread, NewThread(t)
      PROVE  TypeOK'
  <2>1. PICK u \in Thread :
           /\ pc' = [pc EXCEPT ![t] = "creating", ![u] = "starting"]
           /\ child' = [child EXCEPT ![t] = u]
           /\ tyLock' = [tyLock EXCEPT ![t] = NoThread, ![u] = u]
           /\ blocked' = [blocked EXCEPT ![t] = TRUE, ![u] = FALSE]
    BY <1>2, Zenon DEF NewThread
  <2>2. blocked' \in [Thread -> BOOLEAN]
    BY <2>1, Zenon
  <2>3. QED
    BY <1>2, <2>1, <2>2, Zenon DEF NewThread
<1>3. ASSUME NEW t \in Thread,
             NewThreadReturn(t) \/ AddThread(t) \/ Created(t) \/ CleanupThread(t)
               \/ LeaveGroup(t) \/ ThreadGroupCall(t) \/ ThreadGroupReturn(t)
      PROVE  TypeOK'
  <2>1. CASE NewThreadReturn(t)
    BY <2>1, Zenon DEF NewThreadReturn, TakeLock
  <2>2. CASE AddThread(t)
    BY <2>2, Zenon DEF AddThread
  <2>3. CASE Created(t)
    BY <2>3, Zenon DEF Created
  <2>4. CASE CleanupThread(t)
    BY <2>4, Zenon DEF CleanupThread, ReleaseLock
  <2>5. CASE LeaveGroup(t)
    BY <2>5, Zenon DEF LeaveGroup
  <2>6. CASE ThreadGroupCall(t) \/ ThreadGroupReturn(t)
    BY <2>6 DEF ThreadGroupCall, ThreadGroupReturn
  <2>7. QED
    BY <1>3, <2>1, <2>2, <2>3, <2>4, <2>5, <2>6, Zenon
<1>4. ASSUME NEW t \in Thread, Wait(t)
      PROVE  TypeOK'
  <2>1. CASE CheckFlags(t)
    BY <2>1, Zenon DEF CheckFlags, WaitGC, ReleaseLock
  <2>2. CASE WaitGCPhase(t)
    BY <2>2, Zenon DEF WaitGCPhase
  <2>3. CASE WaitGCTake(t)
    BY <2>3, Zenon DEF WaitGCTake, TakeLock
  <2>4. CASE WaitGCMark(t)
    BY <2>4 DEF WaitGCMark
  <2>5. CASE WaitGCSweep(t)
    BY <2>5 DEF WaitGCSweep
  <2>6. CASE WaitGCReturn(t)
    BY <2>6, Zenon DEF WaitGCReturn
  <2>7. QED
    BY <1>4, <2>1, <2>2, <2>3, <2>4, <2>5, <2>6, Zenon DEF Wait
<1>5. ASSUME NEW t \in Thread, NEW r \in {"run", "dying"}, DoGC(t, r)
      PROVE  TypeOK'
  <2>1. CASE gcLock = NoThread
    BY <1>5, <2>1 DEF DoGC
  <2>2. CASE gcLock # NoThread
    <3>1. blocked' \in [Thread -> BOOLEAN]
      BY <1>5, <2>2, Zenon DEF DoGC, WaitGC, ReleaseLock
    <3>2. QED
      BY <1>5, <2>2, <3>1 DEF DoGC, WaitGC, ReleaseLock
  <2>3. QED
    BY <2>1, <2>2, Zenon
<1>6. ASSUME NEW t \in Thread, GcScan(t)
      PROVE  TypeOK'
  <2>1. PICK u \in todo : \/ /\ blocked' = [blocked EXCEPT ![u] = TRUE]
                             /\ UNCHANGED tyLock
                          \/ /\ tyLock' = [tyLock EXCEPT ![u] = t]
                             /\ UNCHANGED blocked
    BY <1>6, Zenon DEF GcScan
  <2>2. blocked' \in [Thread -> BOOLEAN]
    BY <2>1, Zenon
  <2>3. tyLock' \in [Thread -> Thread \cup {NoThread}]
    BY <2>1
  <2>4. todo' \subseteq Thread /\ runningThreads' \subseteq Thread
          /\ blockedThreads' \subseteq Thread
    BY <1>6 DEF GcScan
  <2>5. QED
    BY <1>6, <2>2, <2>3, <2>4, Zenon DEF GcScan
<1>7. ASSUME NEW t \in Thread, GcGroupLock(t) \/ StartGC(t) \/ GcMark(t) \/ GcSweep(t)
      PROVE  TypeOK'
  <2>1. CASE GcGroupLock(t)
    BY <2>1, Zenon DEF GcGroupLock
  <2>2. CASE StartGC(t) \/ GcMark(t)
    BY <2>2 DEF StartGC, GcMark, SetPhase
  <2>3. CASE GcSweep(t)
    BY <2>3, Zenon DEF GcSweep
  <2>4. QED
    BY <1>7, <2>1, <2>2, <2>3, Zenon
<1>8. ASSUME NEW t \in Thread,
             GcStartSweep(t) \/ GcDone(t) \/ EndGC(t) \/ GcUnlock(t) \/ UnlockThreads(t)
      PROVE  TypeOK'
  BY <1>8, SMTT(90) DEF GcStartSweep, GcDone, EndGC, GcUnlock, UnlockThreads,
                        NextGCPhase,
                        SetPhase
<1>9. QED
  BY <1>0, <1>1, <1>2, <1>3, <1>4, <1>5, <1>6, <1>7, <1>8, Zenon
     DEF Next, Program, Collect, CheckUsed, TyGC, CleanupGC

\* Every variable of the thread group keeps its type, for any set of threads.
THEOREM ThreadGroupTypeCorrect == Spec => []TypeOK
  BY TypeInit, TypeStep, PTL DEF Spec

-----------------------------------------------------------------------------
(* The inductive invariant *)

\* GCInv without ReadyCount, in three parts that are proved one by one.
Locks == Membership /\ Leadership /\ LockDiscipline
Scanning == Scanned /\ FlagInv
Waiting == Participants /\ Counted

\* No collection is in progress at the start.
LEMMA MembersGCInv ==
  ASSUME NEW T \in SUBSET Thread, Members(T)
  PROVE  GCInv
<1>1. Locks /\ Scanning /\ Waiting
  BY ThreadAssumption, Zenon
     DEF Members, Locks, Scanning, Waiting, Membership, Leadership, LockDiscipline, Scanned,
         FlagInv, Participants, Counted, OwnsLock, Leading, GCLocked, Idle, InWait, LeaderAt
<1>2. ReadyCount
  BY Zenon DEF Members, ReadyCount
<1>3. QED
  BY <1>1, <1>2, Zenon DEF GCInv, Locks, Scanning, Waiting

\* The first states satisfy the inductive invariant of the protocol.
LEMMA GCInvInit == Init => GCInv
BY MembersGCInv, ThreadAssumption, Zenon DEF Init

\* When GCReadyCount has reached nRunning, every counted thread has reported.
LEMMA AllReported ==
  ASSUME TypeOK, NEW p, ready = Cardinality(Reported(p)),
         ready >= Cardinality(runningThreads)
  PROVE  \A u \in runningThreads : pc[u] = p
<1>1. IsFiniteSet(runningThreads)
  BY ThreadAssumption, FS_Subset, Zenon DEF TypeOK
<1>2. Reported(p) \in SUBSET runningThreads
  BY Zenon DEF Reported
<1>3. /\ IsFiniteSet(Reported(p))
      /\ Cardinality(Reported(p)) <= Cardinality(runningThreads)
      /\ Cardinality(runningThreads) = Cardinality(Reported(p)) => runningThreads = Reported(p)
  BY <1>1, <1>2, FS_Subset, Zenon
<1>4. Cardinality(runningThreads) \in Nat /\ Cardinality(Reported(p)) \in Nat
  BY <1>1, <1>3, FS_CardinalityType, Zenon
<1>5. runningThreads = Reported(p)
  BY <1>3, <1>4
<1>6. QED
  BY <1>5, Zenon DEF Reported

\* Every step keeps the locks, the lists and the phase in step.
LEMMA LocksStep ==
  ASSUME TypeOK, GCInv, [Next]_vars
  PROVE  Locks'
<1> USE ThreadAssumption
    DEF Locks, TypeOK, GCInv, Go, threadVars, lockVars, phaseVars, collectVars, Leading,
        GCLocked, LeaderAt, Membership, Leadership, LockDiscipline, OwnsLock
<1>0. CASE UNCHANGED vars
  BY <1>0, Zenon DEF vars
<1>1. ASSUME NEW t \in Thread, Block(t) PROVE Locks'
  BY <1>1, SMTT(90) DEF Block, ReleaseLock, Scanned, Idle
<1>2. ASSUME NEW t \in Thread, Unblock(t) PROVE Locks'
  BY <1>2, SMTT(90) DEF Unblock, TakeLock
<1>3. ASSUME NEW t \in Thread, GcStop(t) PROVE Locks'
  BY <1>3, SMTT(90) DEF GcStop
<1>4. ASSUME NEW t \in Thread, GcResume(t) PROVE Locks'
  BY <1>4, SMTT(90) DEF GcResume
<1>5. ASSUME NEW t \in Thread, NewThread(t) PROVE Locks'
  BY <1>5, SMTT(90) DEF NewThread, Scanned, Idle
<1>6. ASSUME NEW t \in Thread, NewThreadReturn(t) PROVE Locks'
  BY <1>6, SMTT(90) DEF NewThreadReturn, TakeLock
<1>7. ASSUME NEW t \in Thread, AddThread(t) PROVE Locks'
  BY <1>7, SMTT(90) DEF AddThread
<1>8. ASSUME NEW t \in Thread, Created(t) PROVE Locks'
  BY <1>8, SMTT(90) DEF Created
<1>9. ASSUME NEW t \in Thread, CleanupThread(t) PROVE Locks'
  BY <1>9, SMTT(90) DEF CleanupThread, ReleaseLock, Scanned, Idle
<1>10. ASSUME NEW t \in Thread, LeaveGroup(t) PROVE Locks'
  BY <1>10, SMTT(90) DEF LeaveGroup
<1>11. ASSUME NEW t \in Thread, CheckFlags(t) PROVE Locks'
  BY <1>11, SMTT(90) DEF CheckFlags, WaitGC, ReleaseLock, Scanned, Idle
<1>12. ASSUME NEW t \in Thread, WaitGCPhase(t) PROVE Locks'
  BY <1>12, SMTT(90) DEF WaitGCPhase
<1>13. ASSUME NEW t \in Thread, WaitGCTake(t) PROVE Locks'
  BY <1>13, SMTT(90) DEF WaitGCTake, TakeLock
<1>14. ASSUME NEW t \in Thread, WaitGCMark(t) PROVE Locks'
  BY <1>14, SMTT(90) DEF WaitGCMark
<1>15. ASSUME NEW t \in Thread, WaitGCSweep(t) PROVE Locks'
  BY <1>15, SMTT(90) DEF WaitGCSweep
<1>16. ASSUME NEW t \in Thread, WaitGCReturn(t) PROVE Locks'
  BY <1>16, SMTT(90) DEF WaitGCReturn
<1>17. ASSUME NEW t \in Thread, CheckUsed(t) \/ TyGC(t) PROVE Locks'
  BY <1>17, SMTT(90) DEF CheckUsed, TyGC, DoGC, WaitGC, ReleaseLock, Scanned, Idle
<1>18. ASSUME NEW t \in Thread, CleanupGC(t) PROVE Locks'
  BY <1>18, SMTT(90) DEF CleanupGC, DoGC, WaitGC, ReleaseLock, Scanned, Idle
<1>19. ASSUME NEW t \in Thread, GcGroupLock(t) PROVE Locks'
  BY <1>19, SMTT(90) DEF GcGroupLock
<1>20. ASSUME NEW t \in Thread, GcScan(t) PROVE Locks'
  BY <1>20, SMTT(90) DEF GcScan
<1>21. ASSUME NEW t \in Thread, StartGC(t) PROVE Locks'
  BY <1>21, SMTT(90) DEF StartGC, SetPhase
<1>22. ASSUME NEW t \in Thread, GcMark(t) PROVE Locks'
  BY <1>22, SMTT(90) DEF GcMark
<1>23. ASSUME NEW t \in Thread, GcStartSweep(t) PROVE Locks'
  <2>1. \A u \in runningThreads : pc[u] = "wgSweep"
    BY <1>23, AllReported, SMTT(90) DEF GcStartSweep, NextGCPhase, ReadyCount
  <2>2. QED
    BY <1>23, <2>1, SMTT(90) DEF GcStartSweep, NextGCPhase, SetPhase
<1>24. ASSUME NEW t \in Thread, GcSweep(t) PROVE Locks'
  BY <1>24, SMTT(90) DEF GcSweep
<1>25. ASSUME NEW t \in Thread, GcDone(t) PROVE Locks'
  <2>1. \A u \in runningThreads : pc[u] = "wgDone"
    BY <1>25, AllReported, SMTT(90) DEF GcDone, NextGCPhase, ReadyCount
  <2>2. QED
    BY <1>25, <2>1, SMTT(90) DEF GcDone, NextGCPhase, SetPhase
<1>26. ASSUME NEW t \in Thread, EndGC(t) PROVE Locks'
  BY <1>26, SMTT(90) DEF EndGC
<1>27. ASSUME NEW t \in Thread, GcUnlock(t) PROVE Locks'
  BY <1>27, SMTT(90) DEF GcUnlock
<1>28. ASSUME NEW t \in Thread, UnlockThreads(t) PROVE Locks'
  BY <1>28, SMTT(90) DEF UnlockThreads, Scanned, Idle
<1>29. ASSUME NEW t \in Thread, ThreadGroupCall(t) PROVE Locks'
  BY <1>29, SMTT(90) DEF ThreadGroupCall
<1>30. ASSUME NEW t \in Thread, ThreadGroupReturn(t) PROVE Locks'
  BY <1>30, SMTT(90) DEF ThreadGroupReturn
<1> HIDE DEF Locks, TypeOK, GCInv, Go, threadVars, lockVars, phaseVars, collectVars,
             Leading, GCLocked, LeaderAt, Membership, Leadership, LockDiscipline,
             OwnsLock
<1>31. QED
  BY <1>0, <1>1, <1>2, <1>3, <1>4, <1>5, <1>6, <1>7, <1>8, <1>9, <1>10, <1>11, <1>12, <1>13,
     <1>14, <1>15, <1>16, <1>17, <1>18, <1>19, <1>20, <1>21, <1>22, <1>23, <1>24, <1>25,
     <1>26, <1>27, <1>28, <1>29, <1>30, Zenon DEF Next, Program, Wait, Collect

\* Every step keeps what the scan has found out.
LEMMA ScanningStep ==
  ASSUME TypeOK, GCInv, [Next]_vars
  PROVE  Scanning'
<1> USE ThreadAssumption
    DEF Scanning, TypeOK, GCInv, Go, threadVars, lockVars, phaseVars, collectVars,
        Leading, GCLocked, LeaderAt, Membership, Leadership, Scanned, FlagInv,
        Gathering, Idle, InWait
<1>0. CASE UNCHANGED vars
  BY <1>0, Zenon DEF vars
<1>1. ASSUME NEW t \in Thread, Block(t) PROVE Scanning'
  BY <1>1, SMTT(90) DEF Block, ReleaseLock
<1>2. ASSUME NEW t \in Thread, Unblock(t) PROVE Scanning'
  BY <1>2, SMTT(90) DEF Unblock, TakeLock, LockDiscipline, OwnsLock
<1>3. ASSUME NEW t \in Thread, GcStop(t) PROVE Scanning'
  BY <1>3, SMTT(90) DEF GcStop
<1>4. ASSUME NEW t \in Thread, GcResume(t) PROVE Scanning'
  BY <1>4, SMTT(90) DEF GcResume
<1>5. ASSUME NEW t \in Thread, NewThread(t) PROVE Scanning'
  BY <1>5, SMTT(90) DEF NewThread
<1>6. ASSUME NEW t \in Thread, NewThreadReturn(t) PROVE Scanning'
  BY <1>6, SMTT(90) DEF NewThreadReturn, TakeLock, LockDiscipline, OwnsLock
<1>7. ASSUME NEW t \in Thread, AddThread(t) PROVE Scanning'
  BY <1>7, SMTT(90) DEF AddThread
<1>8. ASSUME NEW t \in Thread, Created(t) PROVE Scanning'
  BY <1>8, SMTT(90) DEF Created
<1>9. ASSUME NEW t \in Thread, CleanupThread(t) PROVE Scanning'
  BY <1>9, SMTT(90) DEF CleanupThread, ReleaseLock
<1>10. ASSUME NEW t \in Thread, LeaveGroup(t) PROVE Scanning'
  BY <1>10, SMTT(90) DEF LeaveGroup
<1>11. ASSUME NEW t \in Thread, CheckFlags(t) PROVE Scanning'
  BY <1>11, SMTT(90) DEF CheckFlags, WaitGC, ReleaseLock
<1>12. ASSUME NEW t \in Thread, WaitGCPhase(t) PROVE Scanning'
  BY <1>12, SMTT(90) DEF WaitGCPhase
<1>13. ASSUME NEW t \in Thread, WaitGCTake(t) PROVE Scanning'
  BY <1>13, SMTT(90) DEF WaitGCTake, TakeLock
<1>14. ASSUME NEW t \in Thread, WaitGCMark(t) PROVE Scanning'
  BY <1>14, SMTT(90) DEF WaitGCMark
<1>15. ASSUME NEW t \in Thread, WaitGCSweep(t) PROVE Scanning'
  BY <1>15, SMTT(90) DEF WaitGCSweep
<1>16. ASSUME NEW t \in Thread, WaitGCReturn(t) PROVE Scanning'
  BY <1>16, SMTT(90) DEF WaitGCReturn
<1>17. ASSUME NEW t \in Thread, CheckUsed(t) \/ TyGC(t) PROVE Scanning'
  BY <1>17, SMTT(90) DEF CheckUsed, TyGC, DoGC, WaitGC, ReleaseLock
<1>18. ASSUME NEW t \in Thread, CleanupGC(t) PROVE Scanning'
  BY <1>18, SMTT(90) DEF CleanupGC, DoGC, WaitGC, ReleaseLock
<1>19. ASSUME NEW t \in Thread, GcGroupLock(t) PROVE Scanning'
  BY <1>19, SMTT(90) DEF GcGroupLock
<1>20. ASSUME NEW t \in Thread, GcScan(t) PROVE Scanning'
  BY <1>20, SMTT(90) DEF GcScan, LockDiscipline, OwnsLock, PCs
<1>21. ASSUME NEW t \in Thread, StartGC(t) PROVE Scanning'
  BY <1>21, SMTT(90) DEF StartGC, SetPhase
<1>22. ASSUME NEW t \in Thread, GcMark(t) PROVE Scanning'
  BY <1>22, SMTT(90) DEF GcMark
<1>23. ASSUME NEW t \in Thread, GcStartSweep(t) PROVE Scanning'
  <2>1. \A u \in runningThreads : pc[u] = "wgSweep"
    BY <1>23, AllReported, SMTT(90) DEF GcStartSweep, NextGCPhase, ReadyCount
  <2>2. QED
    BY <1>23, <2>1, SMTT(90) DEF GcStartSweep, NextGCPhase, SetPhase
<1>24. ASSUME NEW t \in Thread, GcSweep(t) PROVE Scanning'
  BY <1>24, SMTT(90) DEF GcSweep
<1>25. ASSUME NEW t \in Thread, GcDone(t) PROVE Scanning'
  <2>1. \A u \in runningThreads : pc[u] = "wgDone"
    BY <1>25, AllReported, SMTT(90) DEF GcDone, NextGCPhase, ReadyCount
  <2>2. QED
    BY <1>25, <2>1, SMTT(90) DEF GcDone, NextGCPhase, SetPhase
<1>26. ASSUME NEW t \in Thread, EndGC(t) PROVE Scanning'
  BY <1>26, SMTT(90) DEF EndGC
<1>27. ASSUME NEW t \in Thread, GcUnlock(t) PROVE Scanning'
  BY <1>27, SMTT(90) DEF GcUnlock
<1>28. ASSUME NEW t \in Thread, UnlockThreads(t) PROVE Scanning'
  BY <1>28, SMTT(90) DEF UnlockThreads
<1>29. ASSUME NEW t \in Thread, ThreadGroupCall(t) PROVE Scanning'
  BY <1>29, SMTT(90) DEF ThreadGroupCall
<1>30. ASSUME NEW t \in Thread, ThreadGroupReturn(t) PROVE Scanning'
  BY <1>30, SMTT(90) DEF ThreadGroupReturn
<1> HIDE DEF Scanning, TypeOK, GCInv, Go, threadVars, lockVars, phaseVars, collectVars,
             Leading, GCLocked, LeaderAt, Membership, Leadership, Scanned, FlagInv,
             Gathering, Idle, InWait
<1>31. QED
  BY <1>0, <1>1, <1>2, <1>3, <1>4, <1>5, <1>6, <1>7, <1>8, <1>9, <1>10, <1>11, <1>12, <1>13,
     <1>14, <1>15, <1>16, <1>17, <1>18, <1>19, <1>20, <1>21, <1>22, <1>23, <1>24, <1>25,
     <1>26, <1>27, <1>28, <1>29, <1>30, Zenon DEF Next, Program, Wait, Collect

\* Every step keeps the counted threads where the phase wants them; the two
\* NextGCPhase steps because all threads have reported.
LEMMA WaitingStep ==
  ASSUME TypeOK, GCInv, [Next]_vars
  PROVE  Waiting'
<1> USE ThreadAssumption
    DEF Waiting, TypeOK, GCInv, Go, threadVars, lockVars, phaseVars, collectVars,
        Leading, GCLocked, LeaderAt, Leadership, Participants, Counted, Gathering, Idle,
        InWait
<1>0. CASE UNCHANGED vars
  BY <1>0, Zenon DEF vars
<1>1. ASSUME NEW t \in Thread, Block(t) PROVE Waiting'
  BY <1>1, SMTT(90) DEF Block, ReleaseLock
<1>2. ASSUME NEW t \in Thread, Unblock(t) PROVE Waiting'
  BY <1>2, SMTT(90) DEF Unblock, TakeLock
<1>3. ASSUME NEW t \in Thread, GcStop(t) PROVE Waiting'
  BY <1>3, SMTT(90) DEF GcStop
<1>4. ASSUME NEW t \in Thread, GcResume(t) PROVE Waiting'
  BY <1>4, SMTT(90) DEF GcResume
<1>5. ASSUME NEW t \in Thread, NewThread(t) PROVE Waiting'
  BY <1>5, SMTT(90) DEF NewThread
<1>6. ASSUME NEW t \in Thread, NewThreadReturn(t) PROVE Waiting'
  BY <1>6, SMTT(90) DEF NewThreadReturn, TakeLock
<1>7. ASSUME NEW t \in Thread, AddThread(t) PROVE Waiting'
  BY <1>7, SMTT(90) DEF AddThread
<1>8. ASSUME NEW t \in Thread, Created(t) PROVE Waiting'
  BY <1>8, SMTT(90) DEF Created
<1>9. ASSUME NEW t \in Thread, CleanupThread(t) PROVE Waiting'
  BY <1>9, SMTT(90) DEF CleanupThread, ReleaseLock
<1>10. ASSUME NEW t \in Thread, LeaveGroup(t) PROVE Waiting'
  BY <1>10, SMTT(90) DEF LeaveGroup
<1>11. ASSUME NEW t \in Thread, CheckFlags(t) PROVE Waiting'
  BY <1>11, SMTT(90) DEF CheckFlags, WaitGC, ReleaseLock
<1>12. ASSUME NEW t \in Thread, WaitGCPhase(t) PROVE Waiting'
  BY <1>12, SMTT(90) DEF WaitGCPhase, Scanned, Membership
<1>13. ASSUME NEW t \in Thread, WaitGCTake(t) PROVE Waiting'
  BY <1>13, SMTT(90) DEF WaitGCTake, TakeLock
<1>14. ASSUME NEW t \in Thread, WaitGCMark(t) PROVE Waiting'
  BY <1>14, SMTT(90) DEF WaitGCMark
<1>15. ASSUME NEW t \in Thread, WaitGCSweep(t) PROVE Waiting'
  BY <1>15, SMTT(90) DEF WaitGCSweep
<1>16. ASSUME NEW t \in Thread, WaitGCReturn(t) PROVE Waiting'
  BY <1>16, SMTT(90) DEF WaitGCReturn
<1>17. ASSUME NEW t \in Thread, CheckUsed(t) \/ TyGC(t) PROVE Waiting'
  BY <1>17, SMTT(90) DEF CheckUsed, TyGC, DoGC, WaitGC, ReleaseLock
<1>18. ASSUME NEW t \in Thread, CleanupGC(t) PROVE Waiting'
  BY <1>18, SMTT(90) DEF CleanupGC, DoGC, WaitGC, ReleaseLock
<1>19. ASSUME NEW t \in Thread, GcGroupLock(t) PROVE Waiting'
  BY <1>19, SMTT(90) DEF GcGroupLock
<1>20. ASSUME NEW t \in Thread, GcScan(t) PROVE Waiting'
  BY <1>20, SMTT(90) DEF GcScan, Scanned, FlagInv, Membership, LockDiscipline, OwnsLock,
                         PCs
<1>21. ASSUME NEW t \in Thread, StartGC(t) PROVE Waiting'
  BY <1>21, SMTT(90) DEF StartGC, SetPhase
<1>22. ASSUME NEW t \in Thread, GcMark(t) PROVE Waiting'
  BY <1>22, SMTT(90) DEF GcMark
<1>23. ASSUME NEW t \in Thread, GcStartSweep(t) PROVE Waiting'
  <2>1. \A u \in runningThreads : pc[u] = "wgSweep"
    BY <1>23, AllReported, SMTT(90) DEF GcStartSweep, NextGCPhase, ReadyCount
  <2>2. QED
    BY <1>23, <2>1, SMTT(90) DEF GcStartSweep, NextGCPhase, SetPhase
<1>24. ASSUME NEW t \in Thread, GcSweep(t) PROVE Waiting'
  BY <1>24, SMTT(90) DEF GcSweep
<1>25. ASSUME NEW t \in Thread, GcDone(t) PROVE Waiting'
  <2>1. \A u \in runningThreads : pc[u] = "wgDone"
    BY <1>25, AllReported, SMTT(90) DEF GcDone, NextGCPhase, ReadyCount
  <2>2. QED
    BY <1>25, <2>1, SMTT(90) DEF GcDone, NextGCPhase, SetPhase
<1>26. ASSUME NEW t \in Thread, EndGC(t) PROVE Waiting'
  BY <1>26, SMTT(90) DEF EndGC
<1>27. ASSUME NEW t \in Thread, GcUnlock(t) PROVE Waiting'
  BY <1>27, SMTT(90) DEF GcUnlock
<1>28. ASSUME NEW t \in Thread, UnlockThreads(t) PROVE Waiting'
  BY <1>28, SMTT(90) DEF UnlockThreads
<1>29. ASSUME NEW t \in Thread, ThreadGroupCall(t) PROVE Waiting'
  BY <1>29, SMTT(90) DEF ThreadGroupCall
<1>30. ASSUME NEW t \in Thread, ThreadGroupReturn(t) PROVE Waiting'
  BY <1>30, SMTT(90) DEF ThreadGroupReturn
<1> HIDE DEF Waiting, TypeOK, GCInv, Go, threadVars, lockVars, phaseVars, collectVars,
             Leading, GCLocked, LeaderAt, Leadership, Participants, Counted, Gathering,
             Idle, InWait
<1>31. QED
  BY <1>0, <1>1, <1>2, <1>3, <1>4, <1>5, <1>6, <1>7, <1>8, <1>9, <1>10, <1>11, <1>12, <1>13,
     <1>14, <1>15, <1>16, <1>17, <1>18, <1>19, <1>20, <1>21, <1>22, <1>23, <1>24, <1>25,
     <1>26, <1>27, <1>28, <1>29, <1>30, Zenon DEF Next, Program, Wait, Collect

Quiet(t) == \/ Block(t) \/ Unblock(t) \/ GcStop(t) \/ GcResume(t) \/ NewThread(t)
            \/ NewThreadReturn(t) \/ AddThread(t) \/ Created(t) \/ CleanupThread(t)
            \/ LeaveGroup(t) \/ CheckFlags(t) \/ WaitGCPhase(t) \/ WaitGCTake(t)
            \/ WaitGCReturn(t) \/ CheckUsed(t) \/ TyGC(t) \/ CleanupGC(t)
            \/ GcGroupLock(t) \/ GcScan(t) \/ GcMark(t) \/ GcSweep(t)
            \/ GcUnlock(t) \/ UnlockThreads(t) \/ ThreadGroupCall(t)
            \/ ThreadGroupReturn(t)

\* A step between places that are not reports changes no report.
LEMMA SameReported ==
  ASSUME TypeOK, NEW t \in Thread, NEW to \in PCs \ {"wgSweep", "wgDone"},
         pc[t] \notin {"wgSweep", "wgDone"}, Go(t, to), UNCHANGED runningThreads
  PROVE  /\ Reported("wgSweep")' = Reported("wgSweep")
         /\ Reported("wgDone")' = Reported("wgDone")
  BY Zenon DEF TypeOK, PCs, Reported, Go

\* Apart from the two reports and the changes of phase, no step changes who has
\* reported while there is something to report.
LEMMA QuietStep ==
  ASSUME TypeOK, GCInv, NEW t \in Thread, Quiet(t)
  PROVE  /\ phase' = phase /\ ready' = ready
         /\ phase = "MARK" => Reported("wgSweep")' = Reported("wgSweep")
         /\ phase = "SWEEP" => Reported("wgDone")' = Reported("wgDone")
<1> USE ThreadAssumption DEF PCs, threadVars, lockVars, phaseVars, collectVars
<1>1. CASE GcStop(t) \/ GcResume(t)
  BY <1>1, Zenon DEF GcStop, GcResume, Reported
<1>2. CASE NewThread(t)
  BY <1>2 DEF NewThread, Reported, TypeOK
<1>3. CASE Block(t) \/ Unblock(t) \/ CleanupThread(t) \/ LeaveGroup(t)
  BY <1>3, SameReported, Zenon DEF Block, Unblock, CleanupThread, LeaveGroup
<1>4. CASE NewThreadReturn(t) \/ AddThread(t) \/ Created(t)
  BY <1>4, SameReported, Zenon DEF NewThreadReturn, AddThread, Created
<1>5. CASE CheckFlags(t) \/ CheckUsed(t) \/ TyGC(t) \/ CleanupGC(t)
  BY <1>5, SameReported, Zenon DEF CheckFlags, CheckUsed, TyGC, CleanupGC, DoGC, WaitGC
<1>6. CASE WaitGCPhase(t) \/ WaitGCTake(t)
  BY <1>6, SameReported, Zenon DEF WaitGCPhase, WaitGCTake, TypeOK
<1>7. CASE WaitGCReturn(t)
  BY <1>7, Zenon DEF WaitGCReturn
<1>8. CASE GcGroupLock(t) \/ GcScan(t)
  BY <1>8, Zenon DEF GcGroupLock, GcScan, GCInv, Leadership, LeaderAt, Leading
<1>9. CASE GcMark(t) \/ GcSweep(t) \/ GcUnlock(t) \/ UnlockThreads(t)
  BY <1>9, SameReported, Zenon DEF GcMark, GcSweep, GcUnlock, UnlockThreads, TypeOK
<1>10. CASE ThreadGroupCall(t) \/ ThreadGroupReturn(t)
  BY <1>10, SameReported, Zenon DEF ThreadGroupCall, ThreadGroupReturn
<1>11. QED
  BY <1>1, <1>2, <1>3, <1>4, <1>5, <1>6, <1>7, <1>8, <1>9, <1>10, Zenon DEF Quiet

\* One more report.
LEMMA Report ==
  ASSUME TypeOK, NEW t \in runningThreads, NEW p, pc[t] # p,
         pc' = [pc EXCEPT ![t] = p], UNCHANGED runningThreads
  PROVE  Cardinality(Reported(p)') = Cardinality(Reported(p)) + 1
<1>1. Reported(p)' = Reported(p) \cup {t} /\ t \notin Reported(p)
  BY Zenon DEF Reported, TypeOK
<1>2. IsFiniteSet(Reported(p))
  BY ThreadAssumption, FS_Subset, Zenon DEF Reported, TypeOK
<1>3. QED
  BY <1>1, <1>2, FS_AddElement, Zenon

\* GCReadyCount keeps counting the reports of the phase.
LEMMA ReadyStep ==
  ASSUME TypeOK, GCInv, [Next]_vars
  PROVE  ReadyCount'
<1>0. CASE UNCHANGED vars
  BY <1>0, Zenon DEF vars, threadVars, phaseVars, collectVars, GCInv, ReadyCount, Reported
<1>1. ASSUME NEW t \in Thread, Quiet(t) PROVE ReadyCount'
  BY <1>1, QuietStep, Zenon DEF GCInv, ReadyCount
<1>2. ASSUME NEW t \in Thread, WaitGCMark(t) PROVE ReadyCount'
  <2>1. t \in runningThreads /\ phase = "MARK" /\ phase' = "MARK"
    BY <1>2, Zenon DEF WaitGCMark, GCInv, Participants
  <2>2. Cardinality(Reported("wgSweep")') = Cardinality(Reported("wgSweep")) + 1
    BY <1>2, <2>1, Report, Zenon DEF WaitGCMark, Go, collectVars
  <2>3. QED
    BY <1>2, <2>1, <2>2, Zenon DEF WaitGCMark, GCInv, ReadyCount
<1>3. ASSUME NEW t \in Thread, WaitGCSweep(t) PROVE ReadyCount'
  <2>1. t \in runningThreads /\ phase = "SWEEP" /\ phase' = "SWEEP"
    BY <1>3, Zenon DEF WaitGCSweep, GCInv, Participants
  <2>2. Cardinality(Reported("wgDone")') = Cardinality(Reported("wgDone")) + 1
    BY <1>3, <2>1, Report, Zenon DEF WaitGCSweep, Go, collectVars
  <2>3. QED
    BY <1>3, <2>1, <2>2, Zenon DEF WaitGCSweep, GCInv, ReadyCount
<1>4. ASSUME NEW t \in Thread, StartGC(t) PROVE ReadyCount'
  <2>1. Reported("wgSweep")' = {}
    BY <1>4, ThreadAssumption, Zenon
       DEF StartGC, Go, collectVars, Reported, GCInv, Leadership, Participants, LeaderAt,
           Leading, TypeOK
  <2>2. QED
    BY <1>4, <2>1, FS_EmptySet, Zenon DEF StartGC, SetPhase, ReadyCount
<1>5. ASSUME NEW t \in Thread, GcStartSweep(t) PROVE ReadyCount'
  <2>1. \A u \in runningThreads : pc[u] = "wgSweep"
    <3>1. phase = "MARK"
      BY <1>5, ThreadAssumption, Zenon DEF GcStartSweep, GCInv, Leadership, LeaderAt, Leading
    <3>2. QED
      BY <1>5, <3>1, AllReported, Zenon DEF GcStartSweep, NextGCPhase, GCInv, ReadyCount
  <2>2. Reported("wgDone")' = {}
    BY <1>5, <2>1, Zenon DEF GcStartSweep, Go, collectVars, Reported, TypeOK
  <2>3. QED
    BY <1>5, <2>2, FS_EmptySet, Zenon DEF GcStartSweep, NextGCPhase, SetPhase, ReadyCount
<1>6. ASSUME NEW t \in Thread, GcDone(t) \/ EndGC(t) PROVE ReadyCount'
  BY <1>6, Zenon DEF GcDone, EndGC, NextGCPhase, SetPhase, ReadyCount
<1>7. QED
  BY <1>0, <1>1, <1>2, <1>3, <1>4, <1>5, <1>6, Zenon DEF Next, Program, Wait, Collect, Quiet

\* The invariant is inductive, whatever specification the steps belong to.
LEMMA GCInvStep ==
  ASSUME TypeOK, GCInv, [Next]_vars
  PROVE  GCInv'
  BY LocksStep, ScanningStep, WaitingStep, ReadyStep, Zenon
     DEF GCInv, Locks, Scanning, Waiting

\* The inductive invariant of the collection protocol holds for any number of
\* threads and collections.
THEOREM GCInvHolds == Spec => []GCInv
  BY GCInvStep, ThreadGroupTypeCorrect, GCInvInit, PTL DEF Spec

-----------------------------------------------------------------------------
(* What it is for *)

\* GCInv implies the three safety properties.
LEMMA Consequences ==
  ASSUME TypeOK, GCInv
  PROVE  SweepExclusion /\ AllAccounted /\ StrayIsStale
<1> USE ThreadAssumption
    DEF GCInv, Membership, Leadership, LeaderAt, Scanned, Counted, Leading, GCLocked,
        Gathering, Idle, InWait, Executing, TypeOK
<1>1. AllAccounted
  BY SMTT(90) DEF AllAccounted
<1>2. SweepExclusion
  BY SMTT(90) DEF SweepExclusion
<1>3. StrayIsStale
  BY SMTT(90) DEF StrayIsStale
<1>4. QED
  BY <1>1, <1>2, <1>3, Zenon

\* Nothing is swept while a thread of the group executes Ty code.
THEOREM SweepIsExclusive == Spec => []SweepExclusion
  BY ThreadGroupTypeCorrect, GCInvHolds, Consequences, PTL

\* Once marking starts the collector has counted every other thread, and no
\* thread joins or leaves the group until it is done sweeping.
THEOREM EveryThreadAccounted == Spec => []AllAccounted
  BY ThreadGroupTypeCorrect, GCInvHolds, Consequences, PTL

\* A thread executes during marking only on a DONE left from an earlier
\* collection.
THEOREM StraysAreStale == Spec => []StrayIsStale
  BY ThreadGroupTypeCorrect, GCInvHolds, Consequences, PTL

-----------------------------------------------------------------------------
(* THE HEAP *)

-----------------------------------------------------------------------------
(* The group *)

\* What the threads do to objects takes the group through steps of its own.
LEMMA HeapStepIsGroupStep ==
  ASSUME [HeapNext]_<<groupVars, heapVars>>
  PROVE  [Next]_vars
<1>1. CASE UNCHANGED <<groupVars, heapVars>>
  BY <1>1, Zenon DEF groupVars
<1>2. CASE HeapNext
  <2>1. PICK t \in Thread : \/ Mutate(t) \/ Spawn(t) \/ Cleanup(t) \/ MarkOwn(t) \/ MarkAll(t)
                            \/ SweepOwn(t) \/ SweepAll(t) \/ Other(t)
    BY <1>2, Zenon DEF HeapNext
  <2>2. CASE Mutate(t)
    BY <2>2, Zenon DEF Mutate, groupVars
  <2>3. CASE Spawn(t) \/ Cleanup(t)
    BY <2>3, Zenon DEF Spawn, Cleanup, Next, Program
  <2>4. CASE MarkOwn(t) \/ SweepOwn(t)
    BY <2>4, Zenon DEF MarkOwn, SweepOwn, Next, Wait
  <2>5. CASE MarkAll(t) \/ SweepAll(t)
    BY <2>5, Zenon DEF MarkAll, SweepAll, Next, Collect
  <2>6. CASE Other(t)
    BY <2>6, Zenon DEF Other, Next, Program, Wait, Collect
  <2>7. QED
    BY <2>1, <2>2, <2>3, <2>4, <2>5, <2>6, Zenon
<1>3. QED
  BY <1>1, <1>2, Zenon

-----------------------------------------------------------------------------
(* Types *)

\* Every action keeps the types of the heap.
LEMMA HeapTypeStep ==
  ASSUME HeapTypeOK, [HeapNext]_<<groupVars, heapVars>>
  PROVE  HeapTypeOK'
<1>0. TypeOK'
  BY HeapStepIsGroupStep, TypeStep, Zenon DEF HeapTypeOK
<1> USE ObjectAssumption
<1>1. CASE UNCHANGED <<groupVars, heapVars>>
  BY <1>0, <1>1, Zenon DEF HeapTypeOK, heapVars
<1>2. CASE HeapNext
  <2>0. PICK t \in Thread : \/ Mutate(t) \/ Spawn(t) \/ Cleanup(t) \/ MarkOwn(t) \/ MarkAll(t)
                            \/ SweepOwn(t) \/ SweepAll(t) \/ Other(t)
    BY <1>2, Zenon DEF HeapNext
  <2>s. strayed' \in BOOLEAN
    BY <1>2, Zenon DEF HeapNext
  <2> DEFINE HeapOK == /\ roots \in [Thread -> SUBSET Object]
                       /\ global \in Object \cup {NoObject}
                       /\ field \in [Object -> Object \cup {NoObject}]
                       /\ owner \in [Object -> Thread \cup {Unborn, DeadAllocs, Freed}]
                       /\ marked \subseteq Object
  <2>h. HeapOK
    BY Zenon DEF HeapTypeOK
  <2>1. CASE Mutate(t)
    <3>1. ASSUME Alloc(t) PROVE HeapOK'
      BY <2>h, <3>1 DEF Alloc, Born
    <3>2. ASSUME Load(t) PROVE HeapOK'
      BY <2>h, <3>2 DEF Load
    <3>3. ASSUME Store(t) PROVE HeapOK'
      BY <2>h, <3>3 DEF Store
    <3>4. ASSUME Drop(t) PROVE HeapOK'
      BY <2>h, <3>4 DEF Drop
    <3>5. QED
      BY <2>1, <3>1, <3>2, <3>3, <3>4, <1>0, <2>s, Zenon DEF Mutate, HeapTypeOK
  <2>2. CASE Spawn(t)
    <3>1. PICK S \in SUBSET roots[t] : roots' = [roots EXCEPT ![child'[t]] = S]
      BY <2>2, Zenon DEF Spawn
    <3>2. roots' \in [Thread -> SUBSET Object]
      BY <2>h, <3>1, Zenon
    <3>3. QED
      BY <2>h, <2>2, <3>2, <1>0, <2>s, Zenon DEF Spawn, HeapTypeOK
  <2>3. CASE Cleanup(t)
    BY <2>h, <2>3, <1>0, <2>s, Zenon DEF Cleanup, HeapTypeOK
  <2>4. CASE MarkOwn(t) \/ MarkAll(t)
    BY <2>h, <2>4, <1>0, <2>s, Zenon DEF MarkOwn, MarkAll, Mark, Reach, HeapTypeOK
  <2>5. CASE SweepOwn(t) \/ SweepAll(t)
    BY <2>h, <2>5, <1>0, <2>s, Zenon DEF SweepOwn, SweepAll, Sweep, HeapTypeOK
  <2>6. CASE Other(t)
    BY <2>h, <2>6, <1>0, <2>s, Zenon DEF Other, HeapTypeOK
  <2>7. QED
    BY <2>0, <2>1, <2>2, <2>3, <2>4, <2>5, <2>6, Zenon
<1>3. QED
  BY <1>1, <1>2, Zenon

\* The heap is well typed and the group's invariant holds in every state.
LEMMA HeapTypeCorrect == HeapSpec => [](HeapTypeOK /\ GCInv)
<1>1. HeapInit => HeapTypeOK /\ GCInv
  BY TypeInit, GCInvInit, ObjectAssumption, Zenon DEF HeapInit, HeapTypeOK
<1>2. HeapTypeOK /\ GCInv /\ [HeapNext]_<<groupVars, heapVars>> => (HeapTypeOK /\ GCInv)'
  BY HeapTypeStep, HeapStepIsGroupStep, GCInvStep, Zenon DEF HeapTypeOK
<1>3. QED
  BY <1>1, <1>2, PTL DEF HeapSpec

-----------------------------------------------------------------------------
(* Reachability *)

Closed(C, X) == \A x \in C \ X : field[x] \in C \cup {NoObject}

\* Reach(S, X) contains S and what the objects outside X refer to ...
LEMMA ReachClosed ==
  ASSUME HeapTypeOK, NEW S \in SUBSET Object, NEW X
  PROVE  S \subseteq Reach(S, X) /\ Closed(Reach(S, X), X)
<1>1. S \subseteq Reach(S, X)
  BY Zenon DEF Reach
<1>2. ASSUME NEW x \in Reach(S, X) \ X, field[x] # NoObject
      PROVE  field[x] \in Reach(S, X)
  <2>1. x \in Object /\ field[x] \in Object
    BY <1>2, ObjectAssumption, Zenon DEF Reach, HeapTypeOK
  <2>2. ASSUME NEW C \in SUBSET Object, S \subseteq C, Closed(C, X)
        PROVE  field[x] \in C
    <3>1. x \in C
      BY <1>2, <2>2, Zenon DEF Reach, Closed
    <3>2. QED
      BY <1>2, <2>2, <3>1, Zenon DEF Closed
  <2>3. QED
    BY <2>1, <2>2, Zenon DEF Reach, Closed
<1>3. QED
  BY <1>1, <1>2, Zenon DEF Closed

\* ... and is the least such set.
LEMMA ReachLeast ==
  ASSUME NEW S, NEW X, NEW C \in SUBSET Object, S \subseteq C, Closed(C, X)
  PROVE  Reach(S, X) \subseteq C
  BY Zenon DEF Reach, Closed

AllRoots == RootsOf(Thread) \cup Globals

\* What the program can reach is closed and the least such set.
LEMMA LiveIsLeast ==
  ASSUME HeapTypeOK
  PROVE  /\ Live \subseteq Object /\ AllRoots \subseteq Live /\ Closed(Live, {})
         /\ \A C \in SUBSET Object : AllRoots \subseteq C /\ Closed(C, {}) => Live \subseteq C
<1>1. AllRoots \in SUBSET Object
  BY Zenon DEF AllRoots, RootsOf, Globals, HeapTypeOK
<1>2. Live = Reach(AllRoots, {})
  BY Zenon DEF Live, AllRoots
<1>3. QED
  BY <1>1, <1>2, ReachClosed, ReachLeast, Zenon DEF Reach

\* value_mark from some of the roots marks live objects only.
LEMMA MarksLive ==
  ASSUME HeapTypeOK, NEW S \in SUBSET AllRoots, NEW X
  PROVE  Reach(S, X) \subseteq Live
<1>1. Closed(Live, X)
  BY LiveIsLeast, Zenon DEF Closed
<1>2. QED
  BY <1>1, LiveIsLeast, ReachLeast, Zenon

\* What MarkStorage leaves marked is closed and contains where it started.
LEMMA MarkCloses ==
  ASSUME HeapTypeOK, Closed(marked, {}), NEW S \in SUBSET Object
  PROVE  /\ S \subseteq marked \cup Reach(S, marked)
         /\ Closed(marked \cup Reach(S, marked), {})
  BY ReachClosed, Zenon DEF Closed

-----------------------------------------------------------------------------
(* The invariant *)

\* References lead to objects that were allocated.
Refs == /\ \A t \in Thread : roots[t] \subseteq Born
        /\ global \in Born \cup {NoObject}
        /\ \A x \in Object : /\ field[x] \in Born \cup {NoObject}
                             /\ x \notin Born => field[x] = NoObject

\* A thread's list lasts from its creation to CleanupThread.
Owners == \A o \in Object :
            owner[o] \in Thread => pc[owner[o]] \notin {"none", "starting", "leaving", "exited"}

\* A thread that is not a member of the group has nothing on its stack that a
\* member does not have as well.
Stacks ==
  \A t \in Thread :
    /\ pc[t] \in {"none", "leaving", "exited"} => roots[t] = {}
    /\ pc[t] = "starting" =>
         \E u \in Thread : pc[u] = "creating" /\ child[u] = t /\ roots[t] \subseteq roots[u]

\* Only what is not freed is marked, and only during a collection.
Marks == /\ phase \in {"NONE", "DONE"} => marked = {}
         /\ \A o \in marked : owner[o] \notin {Unborn, Freed}

\* During marking: nothing changes, and the stacks of the threads that have
\* reported, of the blocked ones and of the collector are marked through.
Marking ==
  phase = "MARK" =>
    /\ \A u \in list : ~ Executing(u)
    /\ Closed(marked, {})
    /\ \A t \in Thread : pc[t] = "wgSweep" => roots[t] \subseteq marked
    /\ LeaderAt({"gcMarked"}) =>
         /\ \A t \in blockedThreads \cup {groupLock} : roots[t] \subseteq marked
         /\ global \in marked \cup {NoObject}

\* The lists that have been swept.
Swept(l) == \/ l \in Thread /\ pc[l] = "wgDone"
            \/ LeaderAt({"gcSwept"}) /\ l \in blockedThreads \cup {groupLock, DeadAllocs}

\* During the sweep: what is live and not on a list that was swept is marked.
Sweeping ==
  phase = "SWEEP" =>
    /\ \A o \in Live : o \in marked \/ Swept(owner[o])
    /\ \A o \in marked : ~ Swept(owner[o])

\* What no thread that executed during marking has put at risk.
Sound == Marks /\ Marking /\ Sweeping /\ NoDangling

\* The inductive invariant of the heap, next to GCInv of the protocol.
HeapInv == Refs /\ Owners /\ Stacks /\ (strayed \/ Sound)

-----------------------------------------------------------------------------
(* Steps that leave the objects alone *)

\* Where the other steps of the group may take the thread that takes them.
LEMMA OtherMoves ==
  ASSUME TypeOK, NEW t \in Thread, Other(t)
  PROVE  /\ pc' \in [Thread -> PCs]
         /\ \A u \in Thread : u # t => pc'[u] = pc[u] /\ child'[u] = child[u]
         /\ pc'[t] \notin {"none", "starting", "leaving", "wgSweep", "wgDone", "gcMarked",
                           "gcSwept"}
         /\ pc'[t] = "exited" => pc[t] = "leaving"
         /\ pc[t] = "creating" => pc[child[t]] # "starting"
<1> USE DEF Go, threadVars
<1>t. pc \in [Thread -> PCs] /\ child \in [Thread -> Thread \cup {NoThread}]
        /\ ret \in [Thread -> {"run", "dying"}]
  BY Zenon DEF TypeOK
<1>p. TypeOK'
  <2>1. Next
    BY Zenon DEF Other, Next, Program, Wait, Collect
  <2>2. QED
    BY <2>1, TypeStep, Zenon
<1>0. pc' \in [Thread -> PCs]
  BY <1>p, Zenon DEF TypeOK
<1> DEFINE Goal == /\ \A u \in Thread : u # t => pc'[u] = pc[u] /\ child'[u] = child[u]
                   /\ pc'[t] \notin {"none", "starting", "leaving", "wgSweep", "wgDone",
                                     "gcMarked", "gcSwept"}
                   /\ pc'[t] = "exited" => pc[t] = "leaving"
                   /\ pc[t] = "creating" => pc[child[t]] # "starting"
<1>1. ASSUME Block(t) \/ Unblock(t) PROVE Goal
  BY <1>1, <1>t, Zenon DEF Block, Unblock
<1>2. ASSUME NewThreadReturn(t) PROVE Goal
  BY <1>2, <1>t, Zenon DEF NewThreadReturn
<1>3. ASSUME AddThread(t) \/ Created(t) \/ LeaveGroup(t) PROVE Goal
  BY <1>3, <1>t, Zenon DEF AddThread, Created, LeaveGroup
<1>4. ASSUME CheckFlags(t) \/ WaitGCPhase(t) \/ WaitGCTake(t) \/ WaitGCReturn(t) PROVE Goal
  BY <1>4, <1>t, Zenon DEF CheckFlags, WaitGC, WaitGCPhase, WaitGCTake, WaitGCReturn
<1>5. ASSUME CheckUsed(t) \/ TyGC(t) \/ CleanupGC(t) PROVE Goal
  BY <1>5, <1>t, Zenon DEF CheckUsed, TyGC, CleanupGC, DoGC, WaitGC
<1>6. ASSUME GcGroupLock(t) \/ GcScan(t) \/ StartGC(t) \/ GcStartSweep(t) PROVE Goal
  BY <1>6, <1>t, Zenon DEF GcGroupLock, GcScan, StartGC, GcStartSweep
<1>7. ASSUME GcDone(t) \/ EndGC(t) \/ GcUnlock(t) \/ UnlockThreads(t) PROVE Goal
  BY <1>7, <1>t, Zenon DEF GcDone, EndGC, GcUnlock, UnlockThreads
<1>8. QED
  BY <1>0, <1>1, <1>2, <1>3, <1>4, <1>5, <1>6, <1>7, Zenon DEF Other

-----------------------------------------------------------------------------
(* References, lists and stacks *)

\* Every step keeps Refs.
LEMMA RefsStep ==
  ASSUME HeapTypeOK, Refs, [HeapNext]_<<groupVars, heapVars>>
  PROVE  Refs'
<1>1. CASE UNCHANGED <<groupVars, heapVars>>
  BY <1>1, Zenon DEF heapVars, Refs, Born
<1>2. ASSUME NEW t \in Thread, Alloc(t) PROVE Refs'
  <2>1. PICK o \in Object \ Born : /\ owner' = [owner EXCEPT ![o] = t]
                                   /\ roots' = [roots EXCEPT ![t] = @ \cup {o}]
                                   /\ UNCHANGED <<global, field, marked>>
    BY <1>2, Zenon DEF Alloc
  <2>2. Born' = Born \cup {o}
    BY <2>1, ObjectAssumption DEF Born, HeapTypeOK
  <2>3. \A u \in Thread : roots'[u] \subseteq roots[u] \cup {o}
    BY <2>1, Zenon DEF HeapTypeOK
  <2>4. QED
    BY <2>1, <2>2, <2>3, Zenon DEF Refs
<1>3. ASSUME NEW t \in Thread, Load(t) \/ Store(t) \/ Drop(t) PROVE Refs'
  <2>1. Born' = Born
    BY <1>3, Zenon DEF Load, Store, Drop, Born
  <2>2. CASE Load(t)
    BY <2>1, <2>2 DEF Load, Refs, HeapTypeOK
  <2>3. CASE Store(t)
    BY <2>1, <2>3, Zenon DEF Store, Refs, HeapTypeOK
  <2>4. CASE Drop(t)
    BY <2>1, <2>4, Zenon DEF Drop, Refs, HeapTypeOK
  <2>5. QED
    BY <1>3, <2>2, <2>3, <2>4, Zenon
<1>4. ASSUME NEW t \in Thread, Spawn(t) PROVE Refs'
  <2>1. Born' = Born
    BY <1>4, Zenon DEF Spawn, Born
  <2>2. PICK S \in SUBSET roots[t] : roots' = [roots EXCEPT ![child'[t]] = S]
    BY <1>4, Zenon DEF Spawn
  <2>3. \A u \in Thread : roots'[u] \subseteq roots[u] \cup roots[t]
    BY <2>2, Zenon DEF HeapTypeOK
  <2>4. QED
    BY <1>4, <2>1, <2>3, Zenon DEF Spawn, Refs
<1>5. ASSUME NEW t \in Thread, Cleanup(t) PROVE Refs'
  <2>1. Born' = Born
    BY <1>5, ObjectAssumption, Zenon DEF Cleanup, Born, HeapTypeOK, Unborn, DeadAllocs
  <2>2. \A u \in Thread : roots'[u] \subseteq roots[u]
    BY <1>5, Zenon DEF Cleanup, HeapTypeOK
  <2>3. QED
    BY <1>5, <2>1, <2>2, Zenon DEF Cleanup, Refs
<1>6. ASSUME NEW L \in SUBSET (Thread \cup {DeadAllocs}), Sweep(L), UNCHANGED <<roots, global, field>>
      PROVE  Refs'
  <2>1. Born' = Born
    BY <1>6, ObjectAssumption, Zenon DEF Sweep, Born, HeapTypeOK, Freed, Unborn, DeadAllocs
  <2>2. QED
    BY <1>6, <2>1, Zenon DEF Refs
<1>7. ASSUME NEW t \in Thread, SweepOwn(t) \/ SweepAll(t) PROVE Refs'
  <2>1. {t} \in SUBSET (Thread \cup {DeadAllocs})
           /\ blockedThreads \cup {t, DeadAllocs} \in SUBSET (Thread \cup {DeadAllocs})
    BY Zenon DEF HeapTypeOK, TypeOK
  <2>2. QED
    BY <1>6, <1>7, <2>1, Zenon DEF SweepOwn, SweepAll
<1>8. ASSUME NEW t \in Thread, MarkOwn(t) \/ MarkAll(t) \/ Other(t) PROVE Refs'
  BY <1>8, Zenon DEF MarkOwn, MarkAll, Other, Refs, Born
<1>9. QED
  BY <1>1, <1>2, <1>3, <1>4, <1>5, <1>7, <1>8, Zenon DEF HeapNext, Mutate

\* A step that moves one thread, not into or out of the group's edges, and
\* leaves the stacks and the lists of the others alone.
LEMMA QuietStacks ==
  ASSUME HeapTypeOK, Owners, Stacks, NEW t \in Thread,
         \A u \in Thread : u # t => pc'[u] = pc[u] /\ child'[u] = child[u],
         pc'[t] \notin {"none", "starting", "leaving"},
         pc'[t] = "exited" => pc[t] = "leaving",
         pc[t] = "creating" => (pc'[t] = "creating" /\ child'[t] = child[t])
                                 \/ pc[child[t]] # "starting",
         \A u \in Thread : u # t => roots'[u] = roots[u],
         pc[t] \in {"creating", "leaving"} => roots'[t] = roots[t],
         \A o \in Object : owner'[o] \in Thread => owner'[o] \in {t, owner[o]},
         (\E o \in Object : owner'[o] = t /\ owner[o] # t) => pc'[t] # "exited"
  PROVE  Owners' /\ Stacks'
<1>1. Owners'
  <2> SUFFICES ASSUME NEW o \in Object, owner'[o] \in Thread
               PROVE  pc'[owner'[o]] \notin {"none", "starting", "leaving", "exited"}
    BY Zenon DEF Owners
  <2>1. CASE owner'[o] # t
    BY <2>1, Zenon DEF Owners
  <2>2. CASE owner'[o] = t
    BY <2>2, Zenon DEF Owners
  <2>3. QED
    BY <2>1, <2>2, Zenon
<1>2. Stacks'
  <2> SUFFICES ASSUME NEW u \in Thread
               PROVE  /\ pc'[u] \in {"none", "leaving", "exited"} => roots'[u] = {}
                      /\ pc'[u] = "starting" =>
                           \E c \in Thread : /\ pc'[c] = "creating" /\ child'[c] = u
                                             /\ roots'[u] \subseteq roots'[c]
    BY Zenon DEF Stacks
  <2>1. pc'[u] \in {"none", "leaving", "exited"} => roots'[u] = {}
    BY DEF Stacks
  <2>2. ASSUME pc'[u] = "starting"
        PROVE  \E c \in Thread : /\ pc'[c] = "creating" /\ child'[c] = u
                                 /\ roots'[u] \subseteq roots'[c]
    <3>1. u # t /\ pc[u] = "starting"
      BY <2>2, Zenon
    <3>2. PICK c \in Thread : pc[c] = "creating" /\ child[c] = u /\ roots[u] \subseteq roots[c]
      BY <3>1, Zenon DEF Stacks
    <3>3. pc'[c] = "creating" /\ child'[c] = u /\ roots'[c] = roots[c]
      BY <3>1, <3>2, Zenon
    <3>4. QED
      BY <3>1, <3>2, <3>3, Zenon
  <2>3. QED
    BY <2>1, <2>2, Zenon
<1>3. QED
  BY <1>1, <1>2, Zenon

\* Every step keeps Owners and Stacks: the creation and the end of a thread,
\* and then the steps that are quiet in the sense above.
LEMMA StacksStep ==
  ASSUME HeapTypeOK, Owners, Stacks, GCInv, [HeapNext]_<<groupVars, heapVars>>
  PROVE  Owners' /\ Stacks'
<1>t. /\ pc \in [Thread -> PCs] /\ child \in [Thread -> Thread \cup {NoThread}]
      /\ roots \in [Thread -> SUBSET Object]
      /\ owner \in [Object -> Thread \cup {Unborn, DeadAllocs, Freed}]
  BY Zenon DEF HeapTypeOK, TypeOK
<1>1. CASE UNCHANGED <<groupVars, heapVars>>
  BY <1>1, Zenon DEF groupVars, vars, threadVars, heapVars, Owners, Stacks
<1>2. ASSUME NEW t \in Thread, Mutate(t) PROVE Owners' /\ Stacks'
  <2>1. pc[t] = "run" /\ pc' = pc /\ child' = child
    BY <1>2, Zenon DEF Mutate, groupVars, vars, threadVars
  <2>2. \A u \in Thread : u # t => roots'[u] = roots[u]
    BY <1>2, <1>t, Zenon DEF Mutate, Alloc, Load, Store, Drop
  <2>3. \A o \in Object : owner'[o] \in {t, owner[o]}
    BY <1>2, <1>t, Zenon DEF Mutate, Alloc, Load, Store, Drop
  <2>4. QED
    BY <2>1, <2>2, <2>3, QuietStacks, Zenon
<1>3. ASSUME NEW t \in Thread, Spawn(t) PROVE Owners' /\ Stacks'
  <2>1. PICK k \in Thread : /\ pc[k] = "none"
                            /\ pc' = [pc EXCEPT ![t] = "creating", ![k] = "starting"]
                            /\ child' = [child EXCEPT ![t] = k]
    BY <1>3, Zenon DEF Spawn, NewThread
  <2>2. child'[t] = k /\ pc[t] = "run" /\ owner' = owner /\ k # t
    BY <1>3, <1>t, <2>1, Zenon DEF Spawn, NewThread
  <2>3. PICK S \in SUBSET roots[t] : roots' = [roots EXCEPT ![k] = S]
    BY <1>3, <2>2, Zenon DEF Spawn
  <2>4. Owners'
    BY <1>t, <2>1, <2>2, Zenon DEF Owners
  <2>5. ASSUME NEW u \in Thread
        PROVE  /\ pc'[u] \in {"none", "leaving", "exited"} => roots'[u] = {}
               /\ pc'[u] = "starting" =>
                    \E c \in Thread : /\ pc'[c] = "creating" /\ child'[c] = u
                                      /\ roots'[u] \subseteq roots'[c]
    <3>1. CASE u = k
      <4>1. pc'[t] = "creating" /\ child'[t] = u /\ roots'[u] = S /\ roots'[t] = roots[t]
              /\ pc'[u] = "starting"
        BY <1>t, <2>1, <2>2, <2>3, <3>1, Zenon
      <4>2. QED
        BY <4>1, Zenon
    <3>2. CASE u # k
      <4>1. roots'[u] = roots[u] /\ (u # t => pc'[u] = pc[u]) /\ pc'[t] = "creating"
        BY <1>t, <2>1, <2>2, <2>3, <3>2, Zenon
      <4>2. ASSUME pc'[u] = "starting"
            PROVE  \E c \in Thread : /\ pc'[c] = "creating" /\ child'[c] = u
                                     /\ roots'[u] \subseteq roots'[c]
        <5>1. PICK c \in Thread : pc[c] = "creating" /\ child[c] = u /\ roots[u] \subseteq roots[c]
          BY <4>1, <4>2, Zenon DEF Stacks
        <5>2. c # t /\ c # k
          BY <2>1, <2>2, <5>1, Zenon
        <5>3. pc'[c] = "creating" /\ child'[c] = u /\ roots'[c] = roots[c]
          BY <1>t, <2>1, <2>3, <5>1, <5>2, Zenon
        <5>4. QED
          BY <4>1, <5>1, <5>3, Zenon
      <4>3. QED
        BY <4>1, <4>2, Zenon DEF Stacks
    <3>3. QED
      BY <3>1, <3>2, Zenon
  <2>6. QED
    BY <2>4, <2>5, Zenon DEF Stacks
<1>4. ASSUME NEW t \in Thread, Cleanup(t) PROVE Owners' /\ Stacks'
  <2>1. /\ pc[t] \in {"run", "dying"} /\ pc' = [pc EXCEPT ![t] = "leaving"] /\ child' = child
        /\ owner' = [o \in Object |-> IF owner[o] = t THEN DeadAllocs ELSE owner[o]]
        /\ roots' = [roots EXCEPT ![t] = {}]
    BY <1>4, Zenon DEF Cleanup, CleanupThread, Go
  <2>2. Owners'
    BY <1>t, <2>1, ObjectAssumption, Zenon DEF Owners
  <2>3. ASSUME NEW u \in Thread
        PROVE  /\ pc'[u] \in {"none", "leaving", "exited"} => roots'[u] = {}
               /\ pc'[u] = "starting" =>
                    \E c \in Thread : /\ pc'[c] = "creating" /\ child'[c] = u
                                      /\ roots'[u] \subseteq roots'[c]
    <3>1. CASE u = t
      BY <1>t, <2>1, <3>1, Zenon
    <3>2. CASE u # t
      <4>1. pc'[u] = pc[u] /\ roots'[u] = roots[u]
        BY <1>t, <2>1, <3>2, Zenon
      <4>2. \A c \in Thread : pc[c] = "creating" =>
                pc'[c] = "creating" /\ child'[c] = child[c] /\ roots'[c] = roots[c]
        BY <1>t, <2>1, Zenon
      <4>3. QED
        BY <4>1, <4>2 DEF Stacks
    <3>3. QED
      BY <3>1, <3>2, Zenon
  <2>4. QED
    BY <2>2, <2>3, Zenon DEF Stacks
<1>5. ASSUME NEW t \in Thread, MarkOwn(t) \/ MarkAll(t) \/ SweepOwn(t) \/ SweepAll(t)
      PROVE  Owners' /\ Stacks'
  <2>1. /\ \E to \in {"wgSweep", "gcMarked", "wgDone", "gcSwept"} : pc' = [pc EXCEPT ![t] = to]
        /\ child' = child /\ roots' = roots /\ pc[t] # "creating"
    BY <1>5, Zenon
       DEF MarkOwn, MarkAll, SweepOwn, SweepAll, WaitGCMark, GcMark, WaitGCSweep, GcSweep, Go
  <2>2. \A o \in Object : owner'[o] \in {Freed, owner[o]}
    BY <1>5, Zenon DEF MarkOwn, MarkAll, SweepOwn, SweepAll, Sweep
  <2>3. \A o \in Object : owner'[o] \in Thread => owner'[o] = owner[o]
    BY <2>2, ObjectAssumption, Zenon
  <2>4. QED
    BY <1>t, <2>1, <2>3, QuietStacks, Zenon
<1>6. ASSUME NEW t \in Thread, Other(t) PROVE Owners' /\ Stacks'
  <2>1. TypeOK /\ roots' = roots /\ owner' = owner
    BY <1>6, Zenon DEF Other, HeapTypeOK
  <2>2. QED
    BY <1>6, <2>1, OtherMoves, QuietStacks, Zenon
<1>7. QED
  BY <1>1, <1>2, <1>3, <1>4, <1>5, <1>6, Zenon DEF HeapNext

-----------------------------------------------------------------------------
(* The program's own steps *)

\* What is not allocated cannot be reached.
LEMMA LiveIsBorn ==
  ASSUME HeapTypeOK, Refs
  PROVE  Live \subseteq Born
<1>1. Born \in SUBSET Object
  BY Zenon DEF Born
<1>2. AllRoots \subseteq Born
  BY Zenon DEF AllRoots, RootsOf, Globals, Refs
<1>3. Closed(Born, {})
  BY <1>1, Zenon DEF Closed, Refs
<1>4. QED
  BY <1>1, <1>2, <1>3, LiveIsLeast, Zenon

\* Unless it strays, a thread executes only between two collections.
LEMMA ExecutingAlone ==
  ASSUME HeapTypeOK, GCInv, Marking, NEW t \in Thread, Executing(t)
  PROVE  phase \in {"NONE", "DONE"}
<1>1. t \in list
  BY Zenon DEF GCInv, Membership, Executing
<1>2. phase # "MARK"
  BY <1>1, Zenon DEF Marking
<1>3. phase # "SWEEP"
  BY <1>1, Consequences, Zenon DEF SweepExclusion, HeapTypeOK
<1>4. QED
  BY <1>2, <1>3, Zenon DEF HeapTypeOK, TypeOK, Phases

\* Between two collections nothing is marked: the rest is NoDangling.
LEMMA SoundBetween ==
  ASSUME phase' \in {"NONE", "DONE"}, marked' = {}, NoDangling'
  PROVE  Sound'
  BY Zenon DEF Sound, Marks, Marking, Sweeping

\* A step that only redirects references keeps what is live live, as long as
\* all it stores was live.
LEMMA LiveShrinks ==
  ASSUME HeapTypeOK, HeapTypeOK', NEW C \in SUBSET Object, AllRoots' \subseteq C, Closed(C, {})'
  PROVE  Live' \subseteq C
<1>1. \A D \in SUBSET Object : AllRoots' \subseteq D /\ Closed(D, {})' => Live' \subseteq D
  BY LiveIsLeast, Zenon DEF Closed, Live, AllRoots, Reach
<1>2. QED
  BY <1>1, Zenon DEF Closed

\* The program never gets hold of a freed object.
LEMMA MutateKeeps ==
  ASSUME HeapTypeOK, HeapTypeOK', GCInv, Refs, Sound, NEW t \in Thread, Mutate(t)
  PROVE  Sound'
<1>t. /\ roots \in [Thread -> SUBSET Object] /\ field \in [Object -> Object \cup {NoObject}]
      /\ global \in Object \cup {NoObject}
      /\ owner \in [Object -> Thread \cup {Unborn, DeadAllocs, Freed}]
  BY Zenon DEF HeapTypeOK
<1>1. phase \in {"NONE", "DONE"} /\ phase' = phase
  BY ExecutingAlone, Zenon DEF Mutate, Executing, groupVars, vars, phaseVars, Sound
<1>2. marked = {} /\ marked' = marked
  BY <1>1, Zenon DEF Sound, Marks, Mutate, Alloc, Load, Store, Drop
<1>3. /\ Live \subseteq Object /\ Closed(Live, {}) /\ AllRoots \subseteq Live
  BY LiveIsLeast, Zenon
<1>4. /\ \A u \in Thread : roots[u] \subseteq Live
      /\ global \in Live \cup {NoObject}
      /\ \A x \in Live : field[x] \in Live \cup {NoObject}
  BY <1>t, <1>3, Zenon DEF AllRoots, RootsOf, Globals, Closed
<1>5. \A o \in Live : owner[o] # Freed
  BY Zenon DEF Sound, NoDangling
<1>6. ASSUME Alloc(t) PROVE NoDangling'
  <2>1. PICK o \in Object \ Born : /\ owner' = [owner EXCEPT ![o] = t]
                                   /\ roots' = [roots EXCEPT ![t] = @ \cup {o}]
                                   /\ UNCHANGED <<global, field>>
    BY <1>6, Zenon DEF Alloc
  <2>2. field[o] = NoObject
    BY <2>1, Zenon DEF Refs
  <2>3. (Live \cup {o}) \in SUBSET Object
    BY <1>3, Zenon
  <2>4. \A u \in Thread : roots'[u] \subseteq Live \cup {o}
    BY <1>t, <1>4, <2>1, Zenon
  <2>5. AllRoots' \subseteq Live \cup {o}
    BY <1>4, <2>1, <2>4, Zenon DEF AllRoots, RootsOf, Globals
  <2>6. \A x \in Live \cup {o} : field'[x] \in Live \cup {o, NoObject}
    BY <1>4, <2>1, <2>2, Zenon
  <2>7. Live' \subseteq Live \cup {o}
    BY <2>3, <2>5, <2>6, LiveShrinks, Zenon DEF Closed
  <2>8. \A x \in Live \cup {o} : owner'[x] # Freed
    BY <1>t, <1>3, <1>5, <2>1, ObjectAssumption
  <2>9. QED
    BY <2>7, <2>8, Zenon DEF NoDangling
<1>7. ASSUME Load(t) \/ Store(t) \/ Drop(t) PROVE NoDangling'
  <2>0. owner' = owner
    BY <1>7, Zenon DEF Load, Store, Drop
  <2>1. \A u \in Thread : roots'[u] \subseteq Live
    <3>1. CASE Load(t)
      <4>1. PICK o \in ({field[x] : x \in roots[t]} \cup {global}) \ {NoObject} :
              roots' = [roots EXCEPT ![t] = @ \cup {o}]
        BY <3>1, Zenon DEF Load
      <4>2. o \in Live
        BY <1>4, <4>1, Zenon
      <4>3. QED
        BY <1>t, <1>4, <4>1, <4>2, Zenon
    <3>2. CASE Store(t) \/ Drop(t)
      BY <1>t, <1>4, <3>2, Zenon DEF Store, Drop
    <3>3. QED
      BY <1>7, <3>1, <3>2, Zenon
  <2>2. global' \in Live \cup {NoObject}
    BY <1>4, <1>7, Zenon DEF Load, Store, Drop
  <2>3. \A x \in Live : field'[x] \in Live \cup {NoObject}
    <3>1. CASE Load(t) \/ Drop(t)
      BY <1>4, <3>1, Zenon DEF Load, Drop
    <3>2. CASE Store(t)
      BY <1>t, <1>3, <1>4, <3>2, Zenon DEF Store
    <3>3. QED
      BY <1>7, <3>1, <3>2, Zenon
  <2>4. AllRoots' \subseteq Live
    BY <2>1, <2>2, Zenon DEF AllRoots, RootsOf, Globals
  <2>5. Live' \subseteq Live
    BY <1>3, <2>3, <2>4, LiveShrinks, Zenon DEF Closed
  <2>6. QED
    BY <1>5, <2>0, <2>5, Zenon DEF NoDangling
<1>8. NoDangling'
  BY <1>6, <1>7, Zenon DEF Mutate
<1>9. QED
  BY <1>1, <1>2, <1>8, SoundBetween, Zenon

\* Neither does a new thread, and an exiting one only lets go.
LEMMA SpawnExitKeeps ==
  ASSUME HeapTypeOK, HeapTypeOK', GCInv, Refs, Sound, NEW t \in Thread, Spawn(t) \/ Cleanup(t)
  PROVE  Sound'
<1>t. /\ roots \in [Thread -> SUBSET Object] /\ field \in [Object -> Object \cup {NoObject}]
      /\ global \in Object \cup {NoObject}
      /\ owner \in [Object -> Thread \cup {Unborn, DeadAllocs, Freed}]
  BY Zenon DEF HeapTypeOK
<1>0. Executing(t) /\ phase' = phase
  BY Zenon DEF Spawn, Cleanup, NewThread, CleanupThread, Executing, phaseVars
<1>1. phase \in {"NONE", "DONE"} /\ phase' = phase
  BY <1>0, ExecutingAlone, Zenon DEF Sound
<1>2. marked = {} /\ marked' = marked
  BY <1>1, Zenon DEF Sound, Marks, Spawn, Cleanup
<1>3. Live \subseteq Object /\ Closed(Live, {}) /\ AllRoots \subseteq Live
  BY LiveIsLeast, Zenon
<1>4. /\ \A u \in Thread : roots[u] \subseteq Live
      /\ global \in Live \cup {NoObject}
      /\ \A x \in Live : field[x] \in Live \cup {NoObject}
  BY <1>t, <1>3, Zenon DEF AllRoots, RootsOf, Globals, Closed
<1>5. \A u \in Thread : roots'[u] \subseteq Live
  <2>1. CASE Spawn(t)
    <3>1. PICK S \in SUBSET roots[t] : roots' = [roots EXCEPT ![child'[t]] = S]
      BY <2>1, Zenon DEF Spawn
    <3>2. QED
      BY <1>t, <1>4, <3>1, Zenon
  <2>2. CASE Cleanup(t)
    BY <1>t, <1>4, <2>2, Zenon DEF Cleanup
  <2>3. QED
    BY <2>1, <2>2, Zenon
<1>6. UNCHANGED <<global, field>>
  BY Zenon DEF Spawn, Cleanup
<1>7. AllRoots' \subseteq Live
  BY <1>4, <1>5, <1>6, Zenon DEF AllRoots, RootsOf, Globals
<1>8. Live' \subseteq Live
  BY <1>3, <1>4, <1>6, <1>7, LiveShrinks, Zenon DEF Closed
<1>9. \A o \in Object : owner[o] # Freed => owner'[o] # Freed
  BY <1>t, Zenon DEF Spawn, Cleanup, Freed, DeadAllocs
<1>10. NoDangling'
  BY <1>3, <1>8, <1>9, Zenon DEF NoDangling, Sound
<1>11. QED
  BY <1>1, <1>2, <1>10, SoundBetween, Zenon

-----------------------------------------------------------------------------
(* Marking and sweeping *)

\* Nothing that MarkStorage reads changes while the objects stay as they are.
LEMMA SameLive ==
  ASSUME UNCHANGED <<roots, global, field>>
  PROVE  Live' = Live
  BY Zenon DEF Live, RootsOf, Globals, Reach

\* A thread that reports has marked what its stack leads to.
LEMMA MarkOwnKeeps ==
  ASSUME HeapTypeOK, HeapTypeOK', GCInv, Refs, Sound, NEW t \in Thread, MarkOwn(t),
         ~ Straying'
  PROVE  Sound'
<1>t. /\ roots \in [Thread -> SUBSET Object] /\ pc \in [Thread -> PCs] /\ marked \subseteq Object
      /\ groupLock \in Thread \cup {NoThread} /\ blockedThreads \subseteq Thread
  BY Zenon DEF HeapTypeOK, TypeOK
<1>1. /\ pc[t] = "wgMark" /\ pc' = [pc EXCEPT ![t] = "wgSweep"]
      /\ UNCHANGED <<phase, groupLock, blockedThreads, roots, global, field, owner>>
      /\ marked' = marked \cup Reach(roots[t], marked)
  BY Zenon DEF MarkOwn, WaitGCMark, Mark, Go, phaseVars, lockVars, collectVars
<1>2. phase = "MARK"
  BY <1>1, Zenon DEF GCInv, Participants
<1>3. roots[t] \in SUBSET Object /\ roots[t] \subseteq AllRoots
  BY <1>t, Zenon DEF AllRoots, RootsOf
<1>4. Closed(marked, {})
  BY <1>2, Zenon DEF Sound, Marking
<1>5. roots[t] \subseteq marked' /\ Closed(marked', {})
  BY <1>1, <1>3, <1>4, MarkCloses, Zenon
<1>6. \A o \in marked' : owner'[o] \notin {Unborn, Freed}
  <2>1. Reach(roots[t], marked) \subseteq Live
    BY <1>3, MarksLive, Zenon
  <2>2. \A o \in Live : owner[o] \notin {Unborn, Freed}
    BY LiveIsBorn, Zenon DEF Born, Sound, NoDangling
  <2>3. QED
    BY <1>1, <2>1, <2>2, Zenon DEF Sound, Marks
<1>7. Marks'
  BY <1>1, <1>2, <1>6, Zenon DEF Marks
<1>8. Marking'
  <2>1. \A u \in list' : ~ Executing(u)'
    BY <1>1, <1>2, Zenon DEF Straying
  <2>2. Closed(marked, {})'
    BY <1>1, <1>5, Zenon DEF Closed
  <2>3. \A u \in Thread : pc'[u] = "wgSweep" => roots'[u] \subseteq marked'
    BY <1>t, <1>1, <1>2, <1>5, Zenon DEF Sound, Marking
  <2>4. ASSUME LeaderAt({"gcMarked"})'
        PROVE  /\ \A u \in blockedThreads' \cup {groupLock'} : roots'[u] \subseteq marked'
               /\ global' \in marked' \cup {NoObject}
    <3>1. LeaderAt({"gcMarked"})
      BY <1>t, <1>1, <2>4, Zenon DEF LeaderAt
    <3>2. QED
      BY <1>1, <1>2, <3>1, Zenon DEF Sound, Marking
  <2>5. QED
    BY <2>1, <2>2, <2>3, <2>4, Zenon DEF Marking
<1>9. Sweeping' /\ NoDangling'
  BY <1>1, <1>2, SameLive, Zenon DEF Sweeping, Sound, NoDangling
<1>10. QED
  BY <1>7, <1>8, <1>9, Zenon DEF Sound

\* The collector has then marked for itself, the blocked threads and the globals.
LEMMA MarkAllKeeps ==
  ASSUME HeapTypeOK, HeapTypeOK', GCInv, Refs, Sound, NEW t \in Thread, MarkAll(t),
         ~ Straying'
  PROVE  Sound'
<1> DEFINE R == RootsOf(blockedThreads \cup {t}) \cup Globals
<1>t. /\ roots \in [Thread -> SUBSET Object] /\ pc \in [Thread -> PCs] /\ marked \subseteq Object
      /\ groupLock \in Thread \cup {NoThread} /\ blockedThreads \subseteq Thread
      /\ global \in Object \cup {NoObject}
  BY Zenon DEF HeapTypeOK, TypeOK
<1>1. /\ pc[t] = "gcMark" /\ pc' = [pc EXCEPT ![t] = "gcMarked"]
      /\ UNCHANGED <<phase, groupLock, blockedThreads, roots, global, field, owner>>
      /\ marked' = marked \cup Reach(R, marked)
  BY Zenon DEF MarkAll, GcMark, Mark, Go, phaseVars, lockVars, collectVars
<1>2. phase = "MARK" /\ groupLock = t
  BY <1>t, <1>1, ThreadAssumption, Zenon DEF GCInv, Leadership, LeaderAt, Leading
<1>3. R \in SUBSET Object /\ R \subseteq AllRoots
  BY <1>t, Zenon DEF AllRoots, RootsOf, Globals
<1>4. Closed(marked, {})
  BY <1>2, Zenon DEF Sound, Marking
<1>5. R \subseteq marked' /\ Closed(marked', {})
  <2> HIDE DEF R
  <2> QED
    BY <1>1, <1>3, <1>4, MarkCloses, Zenon
<1>6. \A o \in marked' : owner'[o] \notin {Unborn, Freed}
  <2>1. Reach(R, marked) \subseteq Live
    <3> HIDE DEF R
    <3> QED
      BY <1>3, MarksLive, Zenon
  <2>2. \A o \in Live : owner[o] \notin {Unborn, Freed}
    BY LiveIsBorn, Zenon DEF Born, Sound, NoDangling
  <2>3. QED
    BY <1>1, <2>1, <2>2, Zenon DEF Sound, Marks
<1>7. Marks'
  BY <1>1, <1>2, <1>6, Zenon DEF Marks
<1>8. Marking'
  <2>1. \A u \in list' : ~ Executing(u)'
    BY <1>1, <1>2, Zenon DEF Straying
  <2>2. Closed(marked, {})'
    BY <1>1, <1>5, Zenon DEF Closed
  <2>3. \A u \in Thread : pc'[u] = "wgSweep" => roots'[u] \subseteq marked'
    BY <1>t, <1>1, <1>2, Zenon DEF Sound, Marking
  <2>4. /\ \A u \in blockedThreads' \cup {groupLock'} : roots'[u] \subseteq marked'
        /\ global' \in marked' \cup {NoObject}
    BY <1>t, <1>1, <1>2, <1>5, Zenon DEF RootsOf, Globals
  <2>5. QED
    BY <2>1, <2>2, <2>3, <2>4, Zenon DEF Marking
<1>9. Sweeping' /\ NoDangling'
  BY <1>1, <1>2, SameLive, Zenon DEF Sweeping, Sound, NoDangling
<1>10. QED
  BY <1>7, <1>8, <1>9, Zenon DEF Sound

\* Sweeping a list that was not swept before frees nothing that is live, and
\* leaves no mark on it.
LEMMA SweepKeeps ==
  ASSUME HeapTypeOK, HeapTypeOK', Sound, phase = "SWEEP", phase' = "SWEEP",
         NEW L \in SUBSET (Thread \cup {DeadAllocs}), Sweep(L),
         UNCHANGED <<roots, global, field>>,
         \A l \in L : ~ Swept(l),
         \A l \in Thread \cup {DeadAllocs, Unborn, Freed} : Swept(l)' <=> Swept(l) \/ l \in L
  PROVE  Sound'
<1>t. /\ owner \in [Object -> Thread \cup {Unborn, DeadAllocs, Freed}] /\ marked \subseteq Object
  BY Zenon DEF HeapTypeOK
<1>1. /\ \A o \in Object : owner'[o] = IF owner[o] \in L /\ o \notin marked THEN Freed ELSE owner[o]
      /\ \A o \in Object : o \in marked' <=> o \in marked /\ owner[o] \notin L
      /\ marked' \subseteq marked
  BY <1>t, Zenon DEF Sweep
<1>2. Live' = Live /\ Live \subseteq Object
  BY SameLive, LiveIsLeast, Zenon
<1>3. /\ \A o \in Live : o \in marked \/ Swept(owner[o])
      /\ \A o \in marked : ~ Swept(owner[o])
  BY Zenon DEF Sound, Sweeping
<1>4. \A o \in Live : owner'[o] = owner[o]
  BY <1>1, <1>2, <1>3, Zenon
<1>5. Marks'
  BY <1>t, <1>1, Zenon DEF Sound, Marks
<1>6. Marking'
  BY Zenon DEF Marking
<1>7. NoDangling'
  BY <1>2, <1>4, Zenon DEF Sound, NoDangling
<1>8. ASSUME NEW o \in Live PROVE o \in marked' \/ Swept(owner[o])'
  <2>1. owner'[o] = owner[o] /\ owner[o] \in Thread \cup {Unborn, DeadAllocs, Freed}
    BY <1>t, <1>2, <1>4, Zenon
  <2>2. o \in marked' \/ Swept(owner[o]) \/ owner[o] \in L
    BY <1>1, <1>2, <1>3, Zenon
  <2>3. QED
    BY <2>1, <2>2, Zenon DEF Swept
<1>9. ASSUME NEW o \in marked' PROVE ~ Swept(owner[o])'
  <2>1. o \in Object /\ o \in marked /\ owner[o] \notin L
    BY <1>t, <1>1, <1>9, Zenon
  <2>2. owner'[o] = owner[o]
    BY <1>1, <2>1, Zenon
  <2>3. QED
    BY <1>t, <1>3, <2>1, <2>2, Zenon DEF Swept
<1>10. Sweeping'
  BY <1>2, <1>8, <1>9, Zenon DEF Sweeping
<1>11. QED
  BY <1>5, <1>6, <1>7, <1>10, Zenon DEF Sound

\* Each thread in WaitGC sweeps its own list, once.
LEMMA SweepOwnKeeps ==
  ASSUME HeapTypeOK, HeapTypeOK', GCInv, Sound, NEW t \in Thread, SweepOwn(t)
  PROVE  Sound'
<1>t. /\ pc \in [Thread -> PCs] /\ groupLock \in Thread \cup {NoThread}
      /\ blockedThreads \subseteq Thread
  BY Zenon DEF HeapTypeOK, TypeOK
<1>1. /\ pc[t] = "wgSweep" /\ phase = "SWEEP" /\ pc' = [pc EXCEPT ![t] = "wgDone"]
      /\ UNCHANGED <<phase, groupLock, blockedThreads, roots, global, field>>
      /\ Sweep({t})
  BY Zenon DEF SweepOwn, WaitGCSweep, Go, phaseVars, lockVars, collectVars
<1>2. groupLock # t
  BY <1>1, Zenon DEF GCInv, Leadership, Leading
<1>3. LeaderAt({"gcSwept"})' <=> LeaderAt({"gcSwept"})
  BY <1>t, <1>1, <1>2, ThreadAssumption, Zenon DEF LeaderAt
<1>4. LeaderAt({"gcSwept"}) => t \notin blockedThreads
  BY <1>1, Zenon DEF GCInv, Scanned, LeaderAt, Idle
<1>5. t # DeadAllocs
  BY ObjectAssumption, Zenon
<1>6. \A l \in {t} : ~ Swept(l)
  BY <1>1, <1>2, <1>4, <1>5, Zenon DEF Swept
<1>7. \A l \in Thread \cup {DeadAllocs, Unborn, Freed} : Swept(l)' <=> Swept(l) \/ l \in {t}
  BY <1>t, <1>1, <1>3, Zenon DEF Swept
<1>8. {t} \in SUBSET (Thread \cup {DeadAllocs})
  OBVIOUS
<1>9. QED
  BY <1>1, <1>6, <1>7, <1>8, SweepKeeps, Zenon

\* The collector sweeps its own list, those of the blocked threads and the dead.
LEMMA SweepAllKeeps ==
  ASSUME HeapTypeOK, HeapTypeOK', GCInv, Sound, NEW t \in Thread, SweepAll(t)
  PROVE  Sound'
<1> DEFINE L == blockedThreads \cup {t, DeadAllocs}
<1>t. /\ pc \in [Thread -> PCs] /\ groupLock \in Thread \cup {NoThread}
      /\ blockedThreads \subseteq Thread
  BY Zenon DEF HeapTypeOK, TypeOK
<1>1. /\ pc[t] = "gcSweep" /\ pc' = [pc EXCEPT ![t] = "gcSwept"]
      /\ UNCHANGED <<phase, groupLock, blockedThreads, roots, global, field>>
      /\ Sweep(L)
  BY Zenon DEF SweepAll, GcSweep, Go, phaseVars, lockVars, collectVars
<1>2. phase = "SWEEP" /\ groupLock = t
  BY <1>t, <1>1, ThreadAssumption, Zenon DEF GCInv, Leadership, LeaderAt, Leading
<1>3. ~ LeaderAt({"gcSwept"}) /\ LeaderAt({"gcSwept"})'
  BY <1>t, <1>1, <1>2, ThreadAssumption, Zenon DEF LeaderAt
<1>4. \A u \in blockedThreads : pc[u] # "wgDone"
  BY <1>2, ThreadAssumption, Zenon DEF GCInv, Scanned, Idle
<1>5. DeadAllocs \notin Thread
  BY ObjectAssumption, Zenon
<1>6. \A l \in L : ~ Swept(l)
  BY <1>1, <1>3, <1>4, <1>5, Zenon DEF Swept
<1>7. \A l \in Thread \cup {DeadAllocs, Unborn, Freed} : Swept(l)' <=> Swept(l) \/ l \in L
  BY <1>t, <1>1, <1>2, <1>3, Zenon DEF Swept
<1>8. L \in SUBSET (Thread \cup {DeadAllocs})
  BY <1>t, Zenon
<1> HIDE DEF L
<1>9. QED
  BY <1>1, <1>2, <1>6, <1>7, <1>8, SweepKeeps, Zenon

-----------------------------------------------------------------------------
(* The collector's own steps *)

\* When marking starts nothing is marked and nobody has reported.
LEMMA StartKeeps ==
  ASSUME HeapTypeOK, HeapTypeOK', GCInv, Sound, NEW t \in Thread, StartGC(t),
         UNCHANGED <<roots, global, field, owner, marked>>, ~ Straying'
  PROVE  Sound'
<1>t. /\ pc \in [Thread -> PCs] /\ groupLock \in Thread \cup {NoThread} /\ phase \in Phases
  BY Zenon DEF HeapTypeOK, TypeOK
<1>1. /\ pc[t] = "gcScan" /\ pc' = [pc EXCEPT ![t] = "gcMark"] /\ phase' = "MARK"
      /\ UNCHANGED <<groupLock, blockedThreads>>
  BY Zenon DEF StartGC, SetPhase, Go, lockVars, collectVars
<1>2. groupLock = t /\ phase = "NONE"
  BY <1>t, <1>1, ThreadAssumption, Zenon DEF GCInv, Leadership, LeaderAt, Leading, Phases
<1>3. marked = {}
  BY <1>2, Zenon DEF Sound, Marks
<1>4. \A u \in Thread : pc'[u] # "wgSweep"
  BY <1>t, <1>1, <1>2, Zenon DEF GCInv, Participants
<1>5. ~ LeaderAt({"gcMarked"})'
  BY <1>t, <1>1, <1>2, Zenon DEF LeaderAt
<1>6. \A u \in list' : ~ Executing(u)'
  BY <1>1, Zenon DEF Straying
<1>7. Marking'
  BY <1>3, <1>4, <1>5, <1>6, Zenon DEF Marking, Closed
<1>8. Marks' /\ Sweeping' /\ NoDangling'
  BY <1>1, <1>3, SameLive, Zenon DEF Marks, Sweeping, NoDangling, Sound
<1>9. QED
  BY <1>7, <1>8, Zenon DEF Sound

\* When the sweep starts all that is live is marked: every thread has marked
\* its stack or had it marked.
LEMMA StartSweepKeeps ==
  ASSUME HeapTypeOK, HeapTypeOK', GCInv, Stacks, Sound, NEW t \in Thread, GcStartSweep(t),
         UNCHANGED <<roots, global, field, owner, marked>>
  PROVE  Sound'
<1>t. /\ pc \in [Thread -> PCs] /\ groupLock \in Thread \cup {NoThread} /\ phase \in Phases
      /\ marked \subseteq Object /\ TypeOK /\ list \subseteq Thread
      /\ runningThreads \subseteq Thread
  BY Zenon DEF HeapTypeOK, TypeOK
<1>1. /\ pc[t] = "gcMarked" /\ pc' = [pc EXCEPT ![t] = "gcSweep"] /\ phase' = "SWEEP"
      /\ UNCHANGED <<groupLock, blockedThreads>> /\ ready >= Cardinality(runningThreads)
  BY Zenon DEF GcStartSweep, NextGCPhase, SetPhase, Go, lockVars, collectVars
<1>2. groupLock = t /\ phase = "MARK"
  BY <1>t, <1>1, ThreadAssumption, Zenon DEF GCInv, Leadership, LeaderAt, Leading, Phases
<1>3. \A u \in runningThreads : pc[u] = "wgSweep"
  BY <1>t, <1>1, <1>2, AllReported, Zenon DEF GCInv, ReadyCount
<1>4. list = {t} \cup runningThreads \cup blockedThreads
  <2>1. t \in list
    BY <1>1, Zenon DEF GCInv, Membership
  <2>2. list \ {t} = runningThreads \cup blockedThreads
    BY <1>1, <1>2, ThreadAssumption, Zenon DEF GCInv, Scanned
  <2>3. QED
    BY <1>1, <1>2, <1>3, <2>1, <2>2, Zenon
<1>5. \A u \in list : roots[u] \subseteq marked
  BY <1>1, <1>2, <1>3, <1>4, <1>t, ThreadAssumption, Zenon DEF Sound, Marking, LeaderAt
<1>6. \A u \in Thread : roots[u] \subseteq marked
  <2> SUFFICES ASSUME NEW u \in Thread PROVE roots[u] \subseteq marked
    OBVIOUS
  <2>1. CASE u \in list
    BY <1>5, <2>1, Zenon
  <2>2. CASE pc[u] \in {"none", "exited"}
    BY <2>2, Zenon DEF Stacks
  <2>3. CASE pc[u] = "starting"
    <3>1. PICK c \in Thread : pc[c] = "creating" /\ roots[u] \subseteq roots[c]
      BY <2>3, Zenon DEF Stacks
    <3>2. c \in list
      BY <3>1, Zenon DEF GCInv, Membership
    <3>3. QED
      BY <1>5, <3>1, <3>2, Zenon
  <2>4. QED
    BY <2>1, <2>2, <2>3, Zenon DEF GCInv, Membership
<1>7. global \in marked \cup {NoObject} /\ Closed(marked, {})
  BY <1>1, <1>2, ThreadAssumption, Zenon DEF Sound, Marking, LeaderAt
<1>8. AllRoots \subseteq marked
  BY <1>6, <1>7, Zenon DEF AllRoots, RootsOf, Globals
<1>9. Live \subseteq marked
  BY <1>t, <1>7, <1>8, LiveIsLeast, Zenon
<1>10. ASSUME NEW l PROVE ~ Swept(l)'
  <2>1. ~ LeaderAt({"gcSwept"})'
    BY <1>t, <1>1, <1>2, Zenon DEF LeaderAt
  <2>2. \A u \in Thread : pc[u] # "wgDone"
    <3> SUFFICES ASSUME NEW u \in Thread, pc[u] = "wgDone" PROVE FALSE
      OBVIOUS
    <3>1. u \in list
      BY Zenon DEF GCInv, Membership
    <3>2. u \in blockedThreads
      BY <1>1, <1>3, <1>4, <3>1, Zenon
    <3>3. QED
      BY <1>2, <3>2, ThreadAssumption, Zenon DEF GCInv, Scanned, Idle
  <2>3. QED
    BY <1>t, <1>1, <2>1, <2>2, Zenon DEF Swept
<1>11. Live' = Live
  BY SameLive, Zenon
<1>12. Sweeping'
  BY <1>9, <1>10, <1>11, Zenon DEF Sweeping
<1>13. Marks' /\ Marking' /\ NoDangling'
  BY <1>1, <1>11, Zenon DEF Marks, Marking, NoDangling, Sound
<1>14. QED
  BY <1>12, <1>13, Zenon DEF Sound

\* When the sweep is over every list has been swept, so no mark is left.
LEMMA DoneKeeps ==
  ASSUME HeapTypeOK, HeapTypeOK', GCInv, Owners, Sound, NEW t \in Thread, GcDone(t),
         UNCHANGED <<roots, global, field, owner, marked>>
  PROVE  Sound'
<1>t. /\ pc \in [Thread -> PCs] /\ groupLock \in Thread \cup {NoThread} /\ phase \in Phases
      /\ marked \subseteq Object /\ TypeOK
      /\ owner \in [Object -> Thread \cup {Unborn, DeadAllocs, Freed}]
  BY Zenon DEF HeapTypeOK, TypeOK
<1>1. /\ pc[t] = "gcSwept" /\ phase' = "DONE" /\ ready >= Cardinality(runningThreads)
  BY Zenon DEF GcDone, NextGCPhase, SetPhase
<1>2. groupLock = t /\ phase = "SWEEP"
  BY <1>t, <1>1, ThreadAssumption, Zenon DEF GCInv, Leadership, LeaderAt, Leading, Phases
<1>3. \A u \in runningThreads : pc[u] = "wgDone"
  BY <1>t, <1>1, <1>2, AllReported, Zenon DEF GCInv, ReadyCount
<1>4. list \ {t} = runningThreads \cup blockedThreads
  BY <1>1, <1>2, ThreadAssumption, Zenon DEF GCInv, Scanned
<1>5. LeaderAt({"gcSwept"})
  BY <1>1, <1>2, ThreadAssumption, Zenon DEF LeaderAt
<1>6. ASSUME NEW o \in marked PROVE FALSE
  <2>1. ~ Swept(owner[o]) /\ owner[o] \in Thread \cup {DeadAllocs}
    BY <1>t, <1>2, Zenon DEF Sound, Marks, Sweeping
  <2>2. owner[o] \in Thread
    BY <1>5, <2>1, Zenon DEF Swept
  <2>3. owner[o] \in list
    BY <1>t, <2>2, Zenon DEF Owners, GCInv, Membership
  <2>4. Swept(owner[o])
    BY <1>2, <1>3, <1>4, <1>5, <2>2, <2>3, Zenon DEF Swept
  <2>5. QED
    BY <2>1, <2>4, Zenon
<1>7. NoDangling'
  BY SameLive, Zenon DEF NoDangling, Sound
<1>8. QED
  BY <1>1, <1>6, <1>7, SoundBetween, Zenon

\* The steps that do not change the phase: what the invariant says of the
\* collection in progress does not change either.
LEMMA SamePhase ==
  ASSUME HeapTypeOK, GCInv, NEW t \in Thread, Other(t),
         ~ (StartGC(t) \/ GcStartSweep(t) \/ GcDone(t) \/ EndGC(t))
  PROVE  /\ phase' = phase
         /\ phase \in {"MARK", "SWEEP"} =>
              /\ groupLock' = groupLock /\ blockedThreads' = blockedThreads
              /\ pc[t] \notin {"gcMarked", "gcSwept"}
         /\ phase = "SWEEP" => pc[t] # "wgDone"
<1> USE DEF Go, threadVars, lockVars, phaseVars, collectVars
<1>t. /\ groupLock \in Thread \cup {NoThread} /\ phase \in Phases
  BY Zenon DEF HeapTypeOK, TypeOK
<1>l. phase \in {"MARK", "SWEEP"} =>
        /\ groupLock # NoThread
        /\ pc[groupLock] \in {"gcMark", "gcMarked", "gcSweep", "gcSwept"}
        /\ \A u \in Thread : pc[u] \in Leading => u = groupLock
  BY <1>t, Zenon DEF GCInv, Leadership, LeaderAt
<1> DEFINE Goal == /\ phase' = phase
                   /\ phase \in {"MARK", "SWEEP"} =>
                        /\ groupLock' = groupLock /\ blockedThreads' = blockedThreads
                        /\ pc[t] \notin {"gcMarked", "gcSwept"}
                   /\ phase = "SWEEP" => pc[t] # "wgDone"
<1>1. ASSUME Block(t) \/ Unblock(t) \/ NewThreadReturn(t) PROVE Goal
  BY <1>1, Zenon DEF Block, Unblock, NewThreadReturn
<1>3. ASSUME AddThread(t) \/ Created(t) \/ LeaveGroup(t) PROVE Goal
  BY <1>3, Zenon DEF AddThread, Created, LeaveGroup
<1>4. ASSUME CheckFlags(t) \/ WaitGCPhase(t) \/ WaitGCTake(t) \/ WaitGCReturn(t) PROVE Goal
  BY <1>4, Zenon DEF CheckFlags, WaitGC, WaitGCPhase, WaitGCTake, WaitGCReturn
<1>5. ASSUME CheckUsed(t) \/ TyGC(t) \/ CleanupGC(t) PROVE Goal
  BY <1>5, Zenon DEF CheckUsed, TyGC, CleanupGC, DoGC, WaitGC
<1>6. ASSUME GcGroupLock(t) \/ GcScan(t) PROVE Goal
  BY <1>6, <1>l, Zenon DEF GcGroupLock, GcScan, Leading
<1>7. ASSUME GcUnlock(t) \/ UnlockThreads(t) PROVE Goal
  BY <1>7, <1>l, Zenon DEF GcUnlock, UnlockThreads, Leading
<1>8. QED
  BY <1>1, <1>3, <1>4, <1>5, <1>6, <1>7, Zenon DEF Other

\* Those steps keep the marks' invariant.
LEMMA SamePhaseKeeps ==
  ASSUME HeapTypeOK, HeapTypeOK', GCInv, Sound, NEW t \in Thread, Other(t), ~ Straying',
         ~ (StartGC(t) \/ GcStartSweep(t) \/ GcDone(t) \/ EndGC(t))
  PROVE  Sound'
<1>t. /\ pc \in [Thread -> PCs] /\ groupLock \in Thread \cup {NoThread} /\ phase \in Phases
      /\ TypeOK /\ blockedThreads \subseteq Thread
  BY Zenon DEF HeapTypeOK, TypeOK
<1>h. UNCHANGED <<roots, global, field, owner, marked>> /\ Live' = Live
  BY SameLive, Zenon DEF Other
<1>p. /\ pc' \in [Thread -> PCs]
      /\ \A u \in Thread : u # t => pc'[u] = pc[u]
      /\ pc'[t] \notin {"wgSweep", "wgDone", "gcMarked", "gcSwept"}
  BY <1>t, OtherMoves, Zenon
<1>f. /\ phase' = phase
      /\ phase \in {"MARK", "SWEEP"} =>
           /\ groupLock' = groupLock /\ blockedThreads' = blockedThreads
           /\ pc[t] \notin {"gcMarked", "gcSwept"}
      /\ phase = "SWEEP" => pc[t] # "wgDone"
  BY SamePhase, Zenon
<1>1. Marks' /\ NoDangling'
  BY <1>h, <1>f, Zenon DEF Sound, Marks, NoDangling
<1>2. Marking'
  <2> SUFFICES ASSUME phase = "MARK"
               PROVE  Marking'
    BY <1>f, Zenon DEF Marking
  <2>1. \A u \in list' : ~ Executing(u)'
    BY <1>f, Zenon DEF Straying
  <2>2. Closed(marked, {})'
    BY <1>h, Zenon DEF Closed, Sound, Marking
  <2>3. \A u \in Thread : pc'[u] = "wgSweep" => roots'[u] \subseteq marked'
    BY <1>h, <1>p, Zenon DEF Sound, Marking
  <2>4. ASSUME LeaderAt({"gcMarked"})'
        PROVE  /\ \A u \in blockedThreads' \cup {groupLock'} : roots'[u] \subseteq marked'
               /\ global' \in marked' \cup {NoObject}
    <3>1. LeaderAt({"gcMarked"})
      BY <1>t, <1>p, <1>f, <2>4, Zenon DEF LeaderAt
    <3>2. QED
      BY <1>h, <1>f, <3>1, Zenon DEF Sound, Marking
  <2>5. QED
    BY <2>1, <2>2, <2>3, <2>4, Zenon DEF Marking
<1>3. Sweeping'
  <2> SUFFICES ASSUME phase = "SWEEP"
               PROVE  Sweeping'
    BY <1>f, Zenon DEF Sweeping
  <2>1. LeaderAt({"gcSwept"})' <=> LeaderAt({"gcSwept"})
    BY <1>t, <1>p, <1>f, Zenon DEF LeaderAt
  <2>2. \A u \in Thread : pc'[u] = "wgDone" <=> pc[u] = "wgDone"
    BY <1>p, <1>f, Zenon
  <2>3. \A o \in Object : Swept(owner[o])' <=> Swept(owner[o])
    BY <1>h, <1>f, <2>1, <2>2, Zenon DEF Swept
  <2>4. Live \subseteq Object /\ marked \subseteq Object
    BY LiveIsLeast, Zenon DEF HeapTypeOK
  <2>5. QED
    BY <1>h, <2>3, <2>4, Zenon DEF Sweeping, Sound
<1>4. QED
  BY <1>1, <1>2, <1>3, Zenon DEF Sound

-----------------------------------------------------------------------------
(* The theorems *)

\* HeapInv holds at the start ...
LEMMA HeapInvInit == HeapInit => HeapInv
<1> SUFFICES ASSUME HeapInit PROVE HeapInv
  OBVIOUS
<1>t. HeapTypeOK
  BY TypeInit, ObjectAssumption, Zenon DEF HeapInit, HeapTypeOK
<1>1. Refs
  BY Zenon DEF HeapInit, Refs
<1>2. Owners /\ Stacks
  BY ObjectAssumption, Zenon DEF HeapInit, Init, Members, Owners, Stacks
<1>3. Marks /\ Marking /\ Sweeping
  BY Zenon DEF HeapInit, Init, Members, Marks, Marking, Sweeping
<1>4. NoDangling
  BY <1>t, <1>1, LiveIsBorn, Zenon DEF NoDangling, HeapInit, Freed, Unborn, Born
<1>5. QED
  BY <1>1, <1>2, <1>3, <1>4, Zenon DEF HeapInv, Sound

\* ... and every step keeps it.
LEMMA HeapInvStep ==
  ASSUME HeapTypeOK, HeapTypeOK', GCInv, HeapInv, [HeapNext]_<<groupVars, heapVars>>
  PROVE  HeapInv'
<1>1. Refs' /\ Owners' /\ Stacks'
  BY RefsStep, StacksStep, Zenon DEF HeapInv
<1>2. CASE UNCHANGED <<groupVars, heapVars>>
  <2>1. Sound => Sound'
    BY <1>2, SameLive, Zenon
       DEF groupVars, vars, threadVars, lockVars, phaseVars, collectVars, heapVars, Sound,
           Marks, Marking, Sweeping, NoDangling, Closed, LeaderAt, Executing, Swept
  <2>2. strayed' = strayed
    BY <1>2, Zenon DEF heapVars
  <2>3. QED
    BY <1>1, <2>1, <2>2, Zenon DEF HeapInv
<1>3. ASSUME NEW t \in Thread,
             Mutate(t) \/ Spawn(t) \/ Cleanup(t) \/ MarkOwn(t) \/ MarkAll(t)
               \/ SweepOwn(t) \/ SweepAll(t) \/ Other(t),
             Sound, ~ Straying'
      PROVE  Sound'
  <2>1. CASE Mutate(t) \/ Spawn(t) \/ Cleanup(t)
    BY <1>3, <2>1, MutateKeeps, SpawnExitKeeps, Zenon DEF HeapInv
  <2>2. CASE MarkOwn(t) \/ MarkAll(t) \/ SweepOwn(t) \/ SweepAll(t)
    BY <1>3, <2>2, MarkOwnKeeps, MarkAllKeeps, SweepOwnKeeps, SweepAllKeeps, Zenon DEF HeapInv
  <2>3. CASE Other(t)
    <3>1. UNCHANGED <<roots, global, field, owner, marked>>
      BY <2>3, Zenon DEF Other
    <3>2. CASE StartGC(t) \/ GcStartSweep(t) \/ GcDone(t)
      BY <1>3, <3>1, <3>2, StartKeeps, StartSweepKeeps, DoneKeeps, Zenon DEF HeapInv
    <3>3. CASE EndGC(t)
      <4>1. pc[t] = "gcDone" /\ phase' = "NONE"
        BY <3>3, Zenon DEF EndGC
      <4>2. phase = "DONE"
        BY <4>1, ThreadAssumption, Zenon DEF GCInv, Leadership, LeaderAt, Leading
      <4>3. QED
        BY <1>3, <3>1, <4>1, <4>2, SameLive, SoundBetween, Zenon DEF Sound, Marks, NoDangling
    <3>4. CASE ~ (StartGC(t) \/ GcStartSweep(t) \/ GcDone(t) \/ EndGC(t))
      BY <1>3, <2>3, <3>4, SamePhaseKeeps, Zenon
    <3>5. QED
      BY <3>2, <3>3, <3>4, Zenon
  <2>4. QED
    BY <1>3, <2>1, <2>2, <2>3, Zenon
<1>4. ASSUME HeapNext PROVE strayed' \/ Sound'
  <2>1. PICK t \in Thread :
          /\ \/ Mutate(t) \/ Spawn(t) \/ Cleanup(t) \/ MarkOwn(t) \/ MarkAll(t)
             \/ SweepOwn(t) \/ SweepAll(t) \/ Other(t)
          /\ strayed' = (strayed \/ Straying')
    BY <1>4, Zenon DEF HeapNext
  <2>2. CASE strayed \/ Straying'
    BY <2>1, <2>2, Zenon
  <2>3. CASE ~ strayed /\ ~ Straying'
    BY <1>3, <2>1, <2>3, Zenon DEF HeapInv
  <2>4. QED
    BY <2>2, <2>3, Zenon
<1>5. QED
  BY <1>1, <1>2, <1>4, Zenon DEF HeapInv

\* The types and the three invariants in every state.
LEMMA HeapInvHolds == HeapSpec => []HeapInv
<1>1. HeapTypeOK /\ GCInv /\ HeapTypeOK' /\ HeapInv /\ [HeapNext]_<<groupVars, heapVars>>
        => HeapInv'
  BY HeapInvStep, Zenon
<1>2. QED
  BY <1>1, HeapInvInit, HeapTypeCorrect, PTL DEF HeapSpec

\* For any number of threads and objects, any graph and any number of
\* collections: as long as no thread executed during a marking phase, the
\* sweeps of DoGC and WaitGC free nothing that a thread can still reach.
THEOREM NothingLiveIsFreed == HeapSpec => []NoDanglingUnlessStray
<1>1. HeapInv => NoDanglingUnlessStray
  BY Zenon DEF HeapInv, Sound, NoDanglingUnlessStray
<1>2. QED
  BY <1>1, HeapInvHolds, PTL

\* Every mark that a collection sets, one of its sweeps clears.
THEOREM NoMarkSurvives == HeapSpec => []MarksCleared
<1>1. HeapTypeOK /\ HeapInv => MarksCleared
  BY Zenon DEF HeapInv, Sound, Marks, MarksCleared
<1>2. QED
  BY <1>1, HeapInvHolds, HeapTypeCorrect, PTL

-----------------------------------------------------------------------------
(* THE SHARED QUEUE *)

\* Where a thread is in a method and in the group, and who holds q->mutex.
QueueControl ==
  \A t \in Thread :
    /\ at[t] \in {"mutex", "broadcast", "return"} => pc[t] = "run"
    /\ at[t] \in {"acquire", "waiting", "lockTy", "closed"} => pc[t] = "blocked"
    /\ at[t] = "lockTy" <=> mutex = t

\* The calls of put that wait for q->mutex.
Putting == {t \in Thread : at[t] = "mutex" /\ op[t] = "put"}

\* Every element was put by a call that has been through the mutex.
PutsCounted == count + Cardinality(Putting) =< puts

\* The inductive invariant of the queue, next to GCInv.
QueueInv == QueueControl /\ PutsCounted /\ TakeSeesItem /\ NoLostWakeup

-----------------------------------------------------------------------------
(* The group *)

\* A step of the queue is a step of the group or leaves it as it is.
LEMMA QueueStepIsGroupStep ==
  ASSUME [QueueNext]_allVars
  PROVE  [Next]_vars
<1>1. CASE UNCHANGED allVars
  BY <1>1, Zenon DEF allVars, groupVars
<1>2. ASSUME NEW t \in Thread,
             CallRunning(t) \/ Put(t) \/ Close(t) \/ Clear(t) \/ TryTake(t) \/ Read(t)
               \/ Broadcast(t) \/ Acquire(t) \/ TimedOut(t)
      PROVE  UNCHANGED vars
  BY <1>2, Zenon
     DEF CallRunning, Put, Close, Clear, TryTake, Read, Broadcast, Acquire, TimedOut,
         groupVars
<1>3. ASSUME NEW t \in Thread, Return(t) PROVE CheckUsed(t) \/ UNCHANGED vars
  BY <1>3, Zenon DEF Return, groupVars
<1>4. ASSUME NEW t \in Thread, CallBlocking(t) \/ TakeHead(t) \/ ClosedPanic(t)
      PROVE  Block(t) \/ Unblock(t)
  BY <1>4, Zenon DEF CallBlocking, TakeHead, ClosedPanic
<1>5. ASSUME NEW t \in Thread, Between(t) \/ Participate(t) \/ Lead(t)
      PROVE  Wait(t) \/ Collect(t)
  BY <1>5, Zenon DEF Between, Participate, Lead, Wait, Collect
<1>6. QED
  BY <1>1, <1>2, <1>3, <1>4, <1>5, Zenon DEF QueueNext, Next, Program, Collect

\* The group starts with all its threads running and no collection.
LEMMA QueueGroupInit == QueueInit => TypeOK /\ GCInv
BY MembersTyped, MembersGCInv, Zenon DEF QueueInit, AllRun

\* The collection protocol works under the queue as it does alone.
LEMMA QueueGroup == QueueSpec => [](TypeOK /\ GCInv)
<1>1. TypeOK /\ GCInv /\ [QueueNext]_allVars => (TypeOK /\ GCInv)'
  BY QueueStepIsGroupStep, TypeStep, GCInvStep, Zenon
<1>2. QED
  BY <1>1, QueueGroupInit, PTL DEF QueueSpec

-----------------------------------------------------------------------------
(* The queue *)

\* Each method keeps the types.
LEMMA TypedStep ==
  ASSUME Typed, [QueueNext]_allVars
  PROVE  Typed'
<1>0. TypeOK'
  BY QueueStepIsGroupStep, TypeStep, Zenon DEF Typed
<1> DEFINE T == /\ count \in Nat /\ open \in BOOLEAN /\ mutex \in Thread \cup {NoThread}
                /\ at \in [Thread -> Ats] /\ op \in [Thread -> Ops] /\ puts \in 0 .. MaxPuts
<1>t. T
  BY Zenon DEF Typed
<1>1. ASSUME NEW t \in Thread, NEW l \in Ats, NEW m \in Ops, Enter(t, l, m) \/ At(t, l)
      PROVE  at' \in [Thread -> Ats] /\ op' \in [Thread -> Ops]
  BY <1>1, <1>t, Zenon DEF Enter, At
<1>2. CASE UNCHANGED allVars
  BY <1>0, <1>2, Zenon DEF allVars, queueVars, Typed
<1>3. ASSUME NEW t \in Thread, CallRunning(t) PROVE T'
  <2>1. PICK m \in RunningOps \cap Methods :
          /\ Enter(t, "mutex", m)
          /\ IF m = "put" THEN puts < MaxPuts /\ puts' = puts + 1 ELSE UNCHANGED puts
    BY <1>3, Zenon DEF CallRunning
  <2>2. m \in Ops /\ "mutex" \in Ats
    BY Zenon DEF Ops, Ats
  <2>3. puts' \in 0 .. MaxPuts
    BY <1>t, <2>1, QueueAssumption
  <2>4. QED
    BY <1>1, <1>3, <1>t, <2>1, <2>2, <2>3, Zenon DEF CallRunning
<1>4. ASSUME NEW t \in Thread, Put(t) \/ Close(t) \/ Clear(t) \/ TryTake(t) \/ Read(t)
      PROVE  T'
  <2>1. at' \in [Thread -> Ats] /\ op' \in [Thread -> Ops]
    BY <1>4, <1>t, Zenon DEF Put, Close, Clear, TryTake, Read, Done, Enter, At, Ats, Ops
  <2>2. count' \in Nat
    BY <1>4, <1>t DEF Put, Close, Clear, TryTake, Read
  <2>3. open' \in BOOLEAN
    BY <1>4, <1>t, Zenon DEF Put, Close, Clear, TryTake, Read
  <2>4. UNCHANGED <<mutex, puts>>
    BY <1>4, Zenon DEF Put, Close, Clear, TryTake, Read
  <2>5. QED
    BY <1>t, <2>1, <2>2, <2>3, <2>4, Zenon
<1>5. ASSUME NEW t \in Thread, Broadcast(t) \/ Return(t) \/ CallBlocking(t) PROVE T'
  <2>1. at' \in [Thread -> Ats]
    BY <1>5, <1>t, Zenon DEF Broadcast, Return, CallBlocking, Done, Enter, Ats
  <2>2. op' \in [Thread -> Ops]
    BY <1>5, <1>t, Zenon DEF Broadcast, Return, CallBlocking, Done, Enter, Ops
  <2>3. UNCHANGED <<count, open, mutex, puts>>
    BY <1>5, Zenon DEF Broadcast, Return, CallBlocking
  <2>4. QED
    BY <1>t, <2>1, <2>2, <2>3, Zenon
<1>6. ASSUME NEW t \in Thread, Acquire(t) \/ TimedOut(t) \/ TakeHead(t) \/ ClosedPanic(t)
      PROVE  T'
  <2>1. at' \in [Thread -> Ats] /\ op' \in [Thread -> Ops]
    BY <1>6, <1>t, Zenon
       DEF Acquire, TimedOut, TakeHead, ClosedPanic, Done, Enter, At, Ats, Ops
  <2>2. count' \in Nat /\ mutex' \in Thread \cup {NoThread}
    BY <1>6, <1>t DEF Acquire, TimedOut, TakeHead, ClosedPanic
  <2>3. UNCHANGED <<open, puts>>
    BY <1>6, Zenon DEF Acquire, TimedOut, TakeHead, ClosedPanic
  <2>4. QED
    BY <1>t, <2>1, <2>2, <2>3, Zenon
<1>7. ASSUME NEW t \in Thread, Between(t) \/ Participate(t) \/ Lead(t) PROVE T'
  BY <1>7, <1>t, Zenon DEF Between, Participate, Lead, queueVars
<1>8. QED
  BY <1>0, <1>2, <1>3, <1>4, <1>5, <1>6, <1>7, Zenon DEF QueueNext, Typed

\* The threads in a method move only with the method.
LEMMA ControlStep ==
  ASSUME Typed, QueueControl, [QueueNext]_allVars
  PROVE  QueueControl'
<1>t. /\ mutex \in Thread \cup {NoThread} /\ at \in [Thread -> Ats] /\ op \in [Thread -> Ops]
      /\ pc \in [Thread -> PCs]
  BY Zenon DEF Typed, TypeOK
<1>1. CASE UNCHANGED allVars
  BY <1>1, Zenon DEF allVars, groupVars, vars, threadVars, queueVars, QueueControl
<1>2. ASSUME NEW t \in Thread,
             CallRunning(t) \/ Put(t) \/ Close(t) \/ Clear(t) \/ TryTake(t) \/ Read(t)
      PROVE  QueueControl'
  <2>1. /\ \E l \in {"mutex", "broadcast", "return", "idle"} : at' = [at EXCEPT ![t] = l]
        /\ pc' = pc /\ mutex' = mutex /\ at[t] \in {"idle", "mutex"}
        /\ pc[t] = "run" \/ at[t] = "mutex"
    BY <1>2, Zenon
       DEF CallRunning, Put, Close, Clear, TryTake, Read, Ready, Done, Enter, At, groupVars,
           vars, threadVars
  <2>2. pc[t] = "run" /\ mutex # t
    BY <2>1, Zenon DEF QueueControl
  <2>3. QED
    BY <1>t, <2>1, <2>2, Zenon DEF QueueControl
<1>3. ASSUME NEW t \in Thread, Broadcast(t) PROVE QueueControl'
  BY <1>3, <1>t, Zenon DEF Broadcast, groupVars, vars, threadVars, QueueControl
<1>4. ASSUME NEW t \in Thread, Return(t) PROVE QueueControl'
  <2>1. \A u \in Thread : u # t => pc'[u] = pc[u]
    BY <1>4, <1>t, Zenon DEF Return, CheckUsed, DoGC, WaitGC, Go, groupVars, vars, threadVars
  <2>2. at[t] = "return" /\ at' = [at EXCEPT ![t] = "idle"] /\ mutex' = mutex
    BY <1>4, Zenon DEF Return, Done, Enter
  <2>3. QED
    BY <1>t, <2>1, <2>2, Zenon DEF QueueControl
<1>5. ASSUME NEW t \in Thread, CallBlocking(t) PROVE QueueControl'
  BY <1>5, <1>t, Zenon DEF CallBlocking, Block, Go, Enter, Ready, QueueControl
<1>6. ASSUME NEW t \in Thread, Acquire(t) \/ TimedOut(t) PROVE QueueControl'
  <2>1. /\ at[t] \in {"acquire", "waiting"} /\ mutex = NoThread /\ pc' = pc
        /\ \/ mutex' = t /\ at' = [at EXCEPT ![t] = "lockTy"]
           \/ mutex' = mutex /\ \E l \in {"waiting", "closed"} : at' = [at EXCEPT ![t] = l]
    BY <1>6, Zenon DEF Acquire, TimedOut, At, groupVars, vars, threadVars
  <2>2. QED
    BY <1>t, <2>1, ThreadAssumption DEF QueueControl
<1>7. ASSUME NEW t \in Thread, TakeHead(t) PROVE QueueControl'
  BY <1>7, <1>t, ThreadAssumption, Zenon DEF TakeHead, Unblock, Go, Done, Enter, QueueControl
<1>8. ASSUME NEW t \in Thread, ClosedPanic(t) PROVE QueueControl'
  BY <1>8, <1>t, Zenon DEF ClosedPanic, Unblock, Go, Done, Enter, QueueControl
<1>9. ASSUME NEW t \in Thread, Between(t) \/ Participate(t) \/ Lead(t) PROVE QueueControl'
  <2>1. at' = at /\ mutex' = mutex
    BY <1>9, Zenon DEF Between, Participate, Lead, queueVars
  <2>2. pc[t] \in {"run", "blocked"} => at[t] = "idle"
    BY <1>9, Zenon
       DEF Between, Participate, Lead, Ready, WaitGCPhase, WaitGCTake, WaitGCMark,
           WaitGCSweep, WaitGCReturn, GcGroupLock, GcScan, StartGC, GcMark, GcStartSweep,
           GcSweep, GcDone, EndGC, GcUnlock, UnlockThreads
  <2>3. \A u \in Thread : u # t => pc'[u] = pc[u]
    <3>1. CASE Between(t) \/ Participate(t)
      BY <3>1, <1>t, Zenon
         DEF Between, Participate, CheckFlags, TyGC, DoGC, WaitGC, WaitGCPhase, WaitGCTake,
             WaitGCMark, WaitGCSweep, WaitGCReturn, Go
    <3>2. CASE Lead(t)
      BY <3>2, <1>t, Zenon
         DEF Lead, GcGroupLock, GcScan, StartGC, GcMark, GcStartSweep, GcSweep, GcDone, EndGC,
             GcUnlock, UnlockThreads, Go, threadVars
    <3>3. QED
      BY <1>9, <3>1, <3>2, Zenon
  <2>4. at[t] \in Ats /\ (at[t] # "idle" => pc[t] \in {"run", "blocked"})
    BY <1>t, Zenon DEF QueueControl, Ats
  <2>5. QED
    BY <2>1, <2>2, <2>3, <2>4, Zenon DEF QueueControl
<1>10. QED
  BY <1>1, <1>2, <1>3, <1>4, <1>5, <1>6, <1>7, <1>8, <1>9, Zenon DEF QueueNext

\* What changes the length, and that it takes a free q->mutex or the holder.
LEMMA CountStep ==
  ASSUME Typed, QueueControl, [QueueNext]_allVars,
         count' # count
  PROVE  \E t \in Thread :
           /\ (at[t] = "mutex" /\ mutex = NoThread) \/ (at[t] = "lockTy" /\ mutex = t)
           /\ Put(t) \/ Clear(t) \/ TryTake(t) \/ TakeHead(t)
<1>1. PICK t \in Thread : Put(t) \/ Clear(t) \/ TryTake(t) \/ TakeHead(t)
  BY Zenon
     DEF QueueNext, allVars, queueVars, CallRunning, Close, Read, Broadcast, Return,
         CallBlocking, Acquire, TimedOut, ClosedPanic, Between, Participate, Lead
<1>2. (at[t] = "mutex" /\ mutex = NoThread) \/ (at[t] = "lockTy" /\ mutex = t)
  BY <1>1, Zenon DEF Put, Clear, TryTake, TakeHead, QueueControl
<1>3. QED
  BY <1>1, <1>2, Zenon

\* While a thread waits for its own lock with q->mutex held nothing is taken.
LEMMA TakeStep ==
  ASSUME Typed, QueueControl, TakeSeesItem, [QueueNext]_allVars
  PROVE  TakeSeesItem'
<1>t. /\ mutex \in Thread \cup {NoThread} /\ at \in [Thread -> Ats] /\ op \in [Thread -> Ops]
      /\ count \in Nat
  BY Zenon DEF Typed
<1> SUFFICES ASSUME NEW t \in Thread, at'[t] = "lockTy", op'[t] \in {"take", "peek"}
             PROVE  count' > 0
  BY Zenon DEF TakeSeesItem
<1>1. CASE at[t] = "lockTy"
  <2>1. mutex = t /\ t # NoThread
    BY <1>1, ThreadAssumption, Zenon DEF QueueControl
  <2>2. ASSUME NEW u \in Thread, TakeHead(u) PROVE FALSE
    <3>1. u = t
      BY <2>1, <2>2, Zenon DEF TakeHead, QueueControl
    <3>2. at'[t] = "idle"
      BY <1>t, <2>2, <3>1, Zenon DEF TakeHead, Done, Enter
    <3>3. QED
      BY <3>2, Zenon
  <2>3. count' = count
    BY <2>1, <2>2, CountStep, Zenon DEF Put, Clear, TryTake
  <2>4. op'[t] = op[t]
    BY <1>1, <1>t, <2>1, <2>2, Zenon
       DEF QueueNext, allVars, queueVars, CallRunning, Put, Close, Clear, TryTake, Read,
           Broadcast, Return, CallBlocking, Acquire, TimedOut, ClosedPanic, Between,
           Participate, Lead, At, Done, Enter, Ready
  <2>5. QED
    BY <1>1, <2>3, <2>4, Zenon DEF TakeSeesItem
<1>2. CASE at[t] # "lockTy"
  <2>1. Acquire(t) \/ TimedOut(t)
    BY <1>2, <1>t DEF QueueNext, allVars, queueVars, CallRunning, Put, Close, Clear, TryTake,
       Read, Broadcast, Return, CallBlocking, Acquire, TimedOut, TakeHead, ClosedPanic,
       Between, Participate, Lead, At, Done, Enter
  <2>2. QED
    BY <1>2, <1>t, <2>1, Zenon DEF Acquire, TimedOut, At
<1>3. QED
  BY <1>1, <1>2, Zenon

\* put and close make the condition true and then broadcast; a waiter starts
\* to wait only under q->mutex with the condition false.
LEMMA WakeupStep ==
  ASSUME Typed, NoLostWakeup, [QueueNext]_allVars
  PROVE  NoLostWakeup'
<1>t. at \in [Thread -> Ats] /\ count \in Nat
  BY Zenon DEF Typed
<1> DEFINE Some(l) == \E t \in Thread : at[t] = l
<1>0. CASE UNCHANGED allVars
  BY <1>0, Zenon DEF allVars, queueVars, NoLostWakeup
<1>1. ASSUME NEW t \in Thread, CallRunning(t) \/ Read(t) \/ Return(t) \/ CallBlocking(t)
                                 \/ TimedOut(t) \/ ClosedPanic(t)
      PROVE  NoLostWakeup'
  <2>1. /\ \E l \in {"mutex", "return", "idle", "acquire", "lockTy"} : at' = [at EXCEPT ![t] = l]
        /\ at[t] # "broadcast" /\ UNCHANGED <<count, open>>
    BY <1>1, Zenon
       DEF CallRunning, Read, Return, CallBlocking, TimedOut, ClosedPanic, At, Done, Enter,
           Ready
  <2>2. QED
    BY <1>t, <2>1, Zenon DEF NoLostWakeup
<1>2. ASSUME NEW t \in Thread, Put(t) \/ Close(t) PROVE NoLostWakeup'
  BY <1>2, <1>t, Zenon DEF Put, Close, At, NoLostWakeup
<1>3. ASSUME NEW t \in Thread, Clear(t) \/ TryTake(t) \/ TakeHead(t) PROVE NoLostWakeup'
  <2>1. /\ at' = [at EXCEPT ![t] = "idle"] /\ at[t] # "broadcast" /\ open' = open
        /\ count' > 0 => count > 0
    BY <1>3, <1>t DEF Clear, TryTake, TakeHead, Done, Enter
  <2>2. QED
    BY <1>t, <2>1, Zenon DEF NoLostWakeup
<1>4. ASSUME NEW t \in Thread, Broadcast(t) PROVE NoLostWakeup'
  BY <1>4, <1>t, Zenon DEF Broadcast, NoLostWakeup
<1>5. ASSUME NEW t \in Thread, Acquire(t) PROVE NoLostWakeup'
  <2>1. /\ \/ \E l \in {"lockTy", "closed"} : at' = [at EXCEPT ![t] = l]
           \/ count = 0 /\ open
        /\ at[t] # "broadcast" /\ UNCHANGED <<count, open>>
    BY <1>5, Zenon DEF Acquire, At
  <2>2. QED
    BY <1>t, <2>1 DEF NoLostWakeup
<1>6. ASSUME NEW t \in Thread, Between(t) \/ Participate(t) \/ Lead(t) PROVE NoLostWakeup'
  BY <1>6, Zenon DEF Between, Participate, Lead, queueVars, NoLostWakeup
<1>7. QED
  BY <1>0, <1>1, <1>2, <1>3, <1>4, <1>5, <1>6, Zenon DEF QueueNext

\* A call of put is counted when it is made, and its element when it has the
\* mutex.
LEMMA PutsStep ==
  ASSUME Typed, PutsCounted, [QueueNext]_allVars
  PROVE  PutsCounted'
<1>t. /\ at \in [Thread -> Ats] /\ op \in [Thread -> Ops] /\ count \in Nat /\ puts \in Nat
  BY QueueAssumption DEF Typed
<1>f. IsFiniteSet(Putting) /\ Cardinality(Putting) \in Nat
  BY ThreadAssumption, FS_Subset, FS_CardinalityType, Zenon DEF Putting
<1>1. CASE UNCHANGED allVars
  BY <1>1, Zenon DEF allVars, queueVars, PutsCounted, Putting
<1>2. ASSUME Putting' = Putting, count' =< count, puts' = puts PROVE PutsCounted'
  <2>1. count' \in Nat
    BY TypedStep, Zenon DEF Typed
  <2>2. QED
    BY <1>2, <1>t, <1>f, <2>1 DEF PutsCounted
<1>3. ASSUME NEW t \in Thread, CallRunning(t) PROVE PutsCounted'
  <2>1. PICK m \in RunningOps \cap Methods :
          /\ Enter(t, "mutex", m)
          /\ IF m = "put" THEN puts < MaxPuts /\ puts' = puts + 1 ELSE UNCHANGED puts
    BY <1>3, Zenon DEF CallRunning
  <2>2. count' = count /\ at[t] = "idle"
    BY <1>3, Zenon DEF CallRunning, Ready
  <2>3. CASE m = "put"
    <3>1. Putting' = Putting \cup {t} /\ t \notin Putting
      BY <1>t, <2>1, <2>2, <2>3, Zenon DEF Putting, Enter
    <3>2. Cardinality(Putting') = Cardinality(Putting) + 1
      BY <1>f, <3>1, FS_AddElement, Zenon
    <3>3. QED
      BY <1>t, <1>f, <2>1, <2>2, <2>3, <3>2 DEF PutsCounted
  <2>4. CASE m # "put"
    <3>1. Putting' = Putting
      BY <1>t, <2>1, <2>2, <2>4, Zenon DEF Putting, Enter
    <3>2. QED
      BY <1>2, <1>t, <2>1, <2>2, <2>4, <3>1
  <2>5. QED
    BY <2>3, <2>4, Zenon
<1>4. ASSUME NEW t \in Thread, Put(t) PROVE PutsCounted'
  <2>1. /\ at[t] = "mutex" /\ op[t] = "put" /\ count' = count + 1 /\ puts' = puts
        /\ at' = [at EXCEPT ![t] = "broadcast"] /\ op' = op
    BY <1>4, Zenon DEF Put, At
  <2>2. Putting' = Putting \ {t} /\ t \in Putting
    BY <1>t, <2>1, Zenon DEF Putting
  <2>3. Cardinality(Putting') = Cardinality(Putting) - 1
    BY <1>f, <2>2, FS_RemoveElement, Zenon
  <2>4. QED
    BY <1>t, <1>f, <2>1, <2>3 DEF PutsCounted
<1>5. ASSUME NEW t \in Thread, Close(t) \/ Clear(t) \/ TryTake(t) \/ Read(t) \/ Return(t)
                                 \/ CallBlocking(t) \/ Acquire(t) \/ TimedOut(t)
                                 \/ TakeHead(t) \/ ClosedPanic(t)
      PROVE  PutsCounted'
  <2>1. /\ \E l \in Ats \ {"mutex"}, m \in Ops :
             at' = [at EXCEPT ![t] = l] /\ op' = [op EXCEPT ![t] = m]
        /\ at[t] # "mutex" \/ op[t] # "put"
    <3>1. CASE Close(t) \/ Read(t) \/ Acquire(t) \/ TimedOut(t)
      <4>1. /\ \E l \in Ats \ {"mutex"} : at' = [at EXCEPT ![t] = l]
            /\ op' = [op EXCEPT ![t] = op'[t]] /\ op'[t] \in Ops
            /\ at[t] # "mutex" \/ op[t] # "put"
        BY <1>t, <3>1, Zenon DEF Close, Read, Acquire, TimedOut, At, Done, Enter, Ats, Ops
      <4>2. QED
        BY <4>1, Zenon
    <3>2. CASE Clear(t) \/ TryTake(t) \/ Return(t) \/ TakeHead(t) \/ ClosedPanic(t)
      BY <3>2, Zenon DEF Clear, TryTake, Return, TakeHead, ClosedPanic, Done, Enter, Ats, Ops
    <3>3. CASE CallBlocking(t)
      BY <3>3, Zenon DEF CallBlocking, Enter, Ready, Ats, Ops
    <3>4. QED
      BY <1>5, <3>1, <3>2, <3>3, Zenon
  <2>2. Putting' = Putting
    BY <1>t, <2>1, Zenon DEF Putting
  <2>3. count' =< count /\ puts' = puts
    BY <1>5, <1>t DEF Close, Clear, TryTake, Read, Return, CallBlocking, Acquire, TimedOut,
       TakeHead, ClosedPanic
  <2>4. QED
    BY <1>2, <2>2, <2>3, Zenon
<1>6. ASSUME NEW t \in Thread, Broadcast(t) PROVE PutsCounted'
  <2>1. Putting' = Putting /\ count' = count /\ puts' = puts
    BY <1>6, <1>t, Zenon DEF Broadcast, Putting
  <2>2. QED
    BY <1>2, <1>t, <2>1
<1>7. ASSUME NEW t \in Thread, Between(t) \/ Participate(t) \/ Lead(t) PROVE PutsCounted'
  BY <1>7, Zenon DEF Between, Participate, Lead, queueVars, PutsCounted, Putting
<1>8. QED
  BY <1>1, <1>3, <1>4, <1>5, <1>6, <1>7, Zenon DEF QueueNext

-----------------------------------------------------------------------------
(* The theorems *)

\* The queue starts empty, open and used by nobody.
LEMMA QueueInvInit ==
  ASSUME QueueInit
  PROVE  Typed /\ QueueInv
<1>1. TypeOK
  BY QueueGroupInit, Zenon
<1>2. Putting = {}
  BY Zenon DEF QueueInit, Putting
<1>3. Typed
  BY <1>1, QueueAssumption DEF QueueInit, Typed, Ats, Ops
<1>4. PutsCounted
  BY <1>2, FS_EmptySet DEF QueueInit, PutsCounted
<1>5. QueueControl /\ TakeSeesItem /\ NoLostWakeup
  BY ThreadAssumption, Zenon
     DEF QueueInit, AllRun, Members, QueueControl, TakeSeesItem, NoLostWakeup
<1>6. QED
  BY <1>3, <1>4, <1>5, Zenon DEF QueueInv

\* The queue's invariant in every state.
LEMMA QueueInvHolds == QueueSpec => [](Typed /\ QueueInv)
<1>1. QueueInit => Typed /\ QueueInv
  BY QueueInvInit, Zenon
<1>2. Typed /\ QueueInv /\ [QueueNext]_allVars => (Typed /\ QueueInv)'
  BY TypedStep, ControlStep, TakeStep, WakeupStep, PutsStep, Zenon DEF QueueInv
<1>3. QED
  BY <1>1, <1>2, PTL DEF QueueSpec

\* The bounds on the counters: every element was put.
LEMMA QueueTypes ==
  ASSUME Typed, QueueInv
  PROVE  QueueTypeOK
<1>1. Cardinality(Putting) \in Nat
  BY ThreadAssumption, FS_Subset, FS_CardinalityType, Zenon DEF Putting
<1>2. count \in 0 .. MaxPuts
  BY <1>1, QueueAssumption DEF Typed, QueueInv, PutsCounted
<1>3. QED
  BY <1>2, Zenon DEF QueueTypeOK

\* SharedQueue keeps its types; it never holds more than was put into it.
THEOREM SharedQueueTypeCorrect == QueueSpec => []QueueTypeOK
BY QueueTypes, QueueInvHolds, PTL

\* take and peek, back from LockTy(), find the element they saw before it.
THEOREM TakeFindsItem == QueueSpec => []TakeSeesItem
  BY QueueInvHolds, PTL DEF QueueInv

\* No waiter of the condition variable misses a put or a close.
THEOREM NoWakeupIsLost == QueueSpec => []NoLostWakeup
  BY QueueInvHolds, PTL DEF QueueInv

\* shared_queue_mark may read the ring without q->mutex: a thread that changes
\* it runs, so the group is not sweeping, and if it is marking the thread holds
\* a DONE from an earlier collection.
THEOREM RingStaysPut == QueueSpec => RingFrozen
<1>1. ASSUME Typed, GCInv, QueueInv, [QueueNext]_allVars,
             phase = "SWEEP" \/ (phase = "MARK" /\ ~ \E u \in Thread : Stale(u)),
             count' # count
      PROVE  FALSE
  <2>1. PICK t \in Thread : /\ at[t] \in {"mutex", "lockTy"}
                            /\ Put(t) \/ Clear(t) \/ TryTake(t) \/ TakeHead(t)
    BY <1>1, CountStep, Zenon DEF QueueInv
  <2>2. SweepExclusion /\ StrayIsStale
    BY <1>1, Consequences, Zenon DEF Typed
  <2>3. CASE at[t] = "mutex"
    <3>1. pc[t] = "run" /\ t \in list
      BY <1>1, <2>3, Zenon DEF QueueInv, QueueControl, GCInv, Membership
    <3>2. QED
      BY <1>1, <2>2, <3>1, Zenon DEF SweepExclusion, StrayIsStale, Executing, Stale
  <2>4. CASE at[t] = "lockTy"
    <3>1. pc[t] = "blocked" /\ tyLock[t] = NoThread
      BY <1>1, <2>1, <2>4, Zenon DEF Put, Clear, TryTake, TakeHead, Unblock, TakeLock
    <3>2. /\ groupLock # NoThread /\ groupLock # t
          /\ phase = "MARK" => LeaderAt(Gathering)
          /\ phase = "SWEEP" => LeaderAt({"gcSweep", "gcSwept"})
          /\ pc[groupLock] # "gcScan"
      BY <1>1, <3>1, Zenon DEF GCInv, Leadership, LeaderAt, Leading, Gathering
    <3>3. t \in list /\ t \notin blockedThreads
      BY <1>1, <3>1, <3>2, Zenon DEF GCInv, Membership, LockDiscipline, OwnsLock, Leading
    <3>4. t \in runningThreads
      BY <1>1, <3>2, <3>3, Zenon DEF GCInv, Scanned
    <3>5. QED
      BY <1>1, <3>1, <3>2, <3>4, Zenon DEF GCInv, Counted, InWait, Idle, Stale
  <2>5. QED
    BY <2>1, <2>3, <2>4, Zenon
<1>2. Typed /\ GCInv /\ QueueInv /\ [QueueNext]_allVars
        => [phase = "SWEEP" \/ (phase = "MARK" /\ ~ \E u \in Thread : Stale(u))
              => UNCHANGED count]_allVars
  BY <1>1, Zenon
<1>3. QED
  BY <1>2, QueueInvHolds, QueueGroup, PTL DEF QueueSpec, RingFrozen

=============================================================================
