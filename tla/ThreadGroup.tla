---------------------------- MODULE ThreadGroup -----------------------------
(***************************************************************************)
(* The threads of one group and its stop-the-world collector (src/vm.c).   *)
(*                                                                         *)
(* Every thread owns a lock that it holds while it runs Ty code and gives  *)
(* up around anything that may block.  DoGC takes the lock of each other   *)
(* thread in turn: a thread that gave it up to block is collected on its   *)
(* behalf and its lock is kept until the end; a thread that gave it up in  *)
(* WaitGC is counted as running and marks and sweeps for itself, in step   *)
(* with GCPhase.                                                           *)
(*                                                                         *)
(* A wait in WaitForGCPhase is a guard on phase: GCPhase only changes      *)
(* under GCPhaseLock and every change is followed by a broadcast, so a     *)
(* waiter wakes whenever its condition holds and can miss a phase only by  *)
(* being slow.  The critical sections of DLock neither block nor call out, *)
(* so each is one step here.  The order in which DoGC visits the other     *)
(* threads is the order of the thread list, which the swap in              *)
(* CleanupThread permutes: the model visits them in any order.             *)
(***************************************************************************)
EXTENDS Integers, FiniteSets

CONSTANTS Thread,    \* the threads that can ever exist
          Main,      \* the one that exists at the start
          NoThread,
          MaxGC,     \* bound: collections started
          MaxStop    \* bound: nesting of GC_STOP

ASSUME ThreadAssumption == /\ IsFiniteSet(Thread)
                           /\ Main \in Thread
                           /\ NoThread \notin Thread
                           /\ MaxGC \in Nat
                           /\ MaxStop \in Nat

VARIABLES
  pc,          \* where each thread is
  ret,         \* where it continues after DoGC or WaitGC
  seen,        \* the phase the first wait of WaitGC returned
  gcOff,       \* GC_OFF_COUNT
  child,       \* the thread that a NewThread in progress creates
  list,        \* group->TyList and the three lists parallel to it
  tyLock,      \* the holder of each thread's lock
  blocked,     \* *ty->blocked (group->ThreadStates)
  groupLock,   \* the holder of group->Lock
  gcLock,      \* the holder of group->GCLock
  wantGC,      \* group->WantGC
  phase,       \* group->GCPhase
  ready,       \* group->GCReadyCount
  todo,        \* the threads DoGC's loop has not visited yet
  runningThreads, \* the threads it found running; nRunning is their number
  blockedThreads, \* the threads it found blocked
  gcs          \* collections started

threadVars  == <<pc, ret, seen, gcOff, child>>
lockVars    == <<list, tyLock, blocked, groupLock, gcLock>>
phaseVars   == <<wantGC, phase, ready>>
collectVars == <<todo, runningThreads, blockedThreads, gcs>>
vars == <<threadVars, lockVars, phaseVars, collectVars>>
groupVars == vars

Go(t, to) == pc' = [pc EXCEPT ![t] = to]

-----------------------------------------------------------------------------
(* Locks *)

\* ReleaseLock; UnlockTy() is ReleaseLock(ty, true).
ReleaseLock(t, b) == /\ blocked' = [blocked EXCEPT ![t] = b]
                     /\ tyLock' = [tyLock EXCEPT ![t] = NoThread]

\* Mutant: does not wait for a collector that holds the lock.
TakeLockAnyway(t) == /\ tyLock' = [tyLock EXCEPT ![t] = t]
                     /\ UNCHANGED blocked

\* TakeLock, LockTy()
TakeLock(t) == /\ tyLock[t] = NoThread
               /\ tyLock' = [tyLock EXCEPT ![t] = t]
               /\ UNCHANGED blocked

-----------------------------------------------------------------------------
(* Running, blocking, creating threads *)

\* A blocking builtin: UnlockTy(), the call, LockTy().
Block(t) == /\ pc[t] = "run"
            /\ ReleaseLock(t, TRUE)
            /\ Go(t, "blocked")
            /\ UNCHANGED <<ret, seen, gcOff, child, list, groupLock, gcLock,
                           phaseVars, collectVars>>

Unblock(t) == /\ pc[t] = "blocked"
              /\ TakeLock(t)
              /\ Go(t, "run")
              /\ UNCHANGED <<ret, seen, gcOff, child, list, groupLock, gcLock,
                             phaseVars, collectVars>>

\* GC_STOP and GC_RESUME
GcStop(t) == /\ pc[t] = "run"
             /\ gcOff[t] < MaxStop
             /\ gcOff' = [gcOff EXCEPT ![t] = @ + 1]
             /\ UNCHANGED <<pc, ret, seen, child, lockVars, phaseVars, collectVars>>

GcResume(t) == /\ pc[t] = "run"
               /\ gcOff[t] > 0
               /\ gcOff' = [gcOff EXCEPT ![t] = @ - 1]
               /\ UNCHANGED <<pc, ret, seen, child, lockVars, phaseVars, collectVars>>

\* NewThread gives up its lock and spins until the new thread says that it
\* exists.  The new thread's InitializeTy leaves it holding its own lock.
NewThread(t) == /\ pc[t] = "run"
                /\ \E u \in Thread :
                     /\ pc[u] = "none"
                     /\ pc' = [pc EXCEPT ![t] = "creating", ![u] = "starting"]
                     /\ child' = [child EXCEPT ![t] = u]
                     /\ tyLock' = [tyLock EXCEPT ![t] = NoThread, ![u] = u]
                     /\ blocked' = [blocked EXCEPT ![t] = TRUE, ![u] = FALSE]
                /\ UNCHANGED <<ret, seen, gcOff, list, groupLock, gcLock,
                               phaseVars, collectVars>>

NewThreadReturn(t) == /\ pc[t] = "creating"
                      /\ pc[child[t]] \notin {"starting", "added"}
                      /\ TakeLock(t)
                      /\ Go(t, "run")
                      /\ child' = [child EXCEPT ![t] = NoThread]
                      /\ UNCHANGED <<ret, seen, gcOff, list, groupLock, gcLock,
                                     phaseVars, collectVars>>

\* Mutant: joins the lists without group->Lock.
AddThreadUnlocked(t) == /\ pc[t] = "starting"
                        /\ list' = list \cup {t}
                        /\ Go(t, "added")
                        /\ UNCHANGED <<ret, seen, gcOff, child, tyLock, blocked,
                                       groupLock, gcLock, phaseVars, collectVars>>

\* AddThread, in the new thread; its critical section is one step.
AddThread(t) == /\ pc[t] = "starting"
                /\ groupLock = NoThread
                /\ list' = list \cup {t}
                /\ Go(t, "added")
                /\ UNCHANGED <<ret, seen, gcOff, child, tyLock, blocked, groupLock,
                               gcLock, phaseVars, collectVars>>

\* *ctx->created = true
Created(t) == /\ pc[t] = "added"
              /\ Go(t, "run")
              /\ UNCHANGED <<ret, seen, gcOff, child, lockVars, phaseVars, collectVars>>

\* thread.group(): spin for group->Lock holding its own lock, and list the
\* threads.  It allocates between GC_STOP and GC_RESUME, so that it does not
\* collect; nothing else looks at GC_OFF_COUNT meanwhile.
ThreadGroupCall(t) == /\ pc[t] = "run"
                      /\ Go(t, "group")
                      /\ UNCHANGED <<ret, seen, gcOff, child, lockVars, phaseVars,
                                     collectVars>>

ThreadGroupReturn(t) == /\ pc[t] = "group"
                        /\ groupLock = NoThread
                        /\ Go(t, "run")
                        /\ UNCHANGED <<ret, seen, gcOff, child, lockVars, phaseVars,
                                       collectVars>>

-----------------------------------------------------------------------------
(* WaitGC: a thread that takes part in a collection it does not lead *)

WaitGC(t, r) == /\ ReleaseLock(t, FALSE)
                /\ Go(t, "wgWait")
                /\ ret' = [ret EXCEPT ![t] = r]
                /\ UNCHANGED <<seen, gcOff, child, list, groupLock, gcLock,
                               phaseVars, collectVars>>

\* CheckFlags before an instruction.  The collector cannot pass this thread
\* while it holds its lock, so the test and the release are one step.
CheckFlags(t) == /\ pc[t] = "run"
                 /\ wantGC
                 /\ gcOff[t] = 0
                 /\ WaitGC(t, "run")

\* WaitForGCPhase(MARK | DONE)
WaitGCPhase(t) == /\ pc[t] = "wgWait"
                  /\ phase \in {"MARK", "DONE"}
                  /\ seen' = [seen EXCEPT ![t] = phase]
                  /\ Go(t, "wgTake")
                  /\ UNCHANGED <<ret, gcOff, child, lockVars, phaseVars, collectVars>>

\* TakeLock; a thread that saw DONE returns to its caller.
WaitGCTake(t) == /\ pc[t] = "wgTake"
                 /\ TakeLock(t)
                 /\ Go(t, IF seen[t] = "DONE" THEN ret[t] ELSE "wgMark")
                 /\ UNCHANGED <<ret, seen, gcOff, child, list, groupLock, gcLock,
                                phaseVars, collectVars>>

\* MarkStorage; GCReadyCount += 1
WaitGCMark(t) == /\ pc[t] = "wgMark"
                 /\ ready' = ready + 1
                 /\ Go(t, "wgSweep")
                 /\ UNCHANGED <<ret, seen, gcOff, child, lockVars, wantGC, phase,
                                collectVars>>

\* Mutant: sweeps without reporting.
WaitGCSweepSilent(t) == /\ pc[t] = "wgSweep"
                        /\ phase = "SWEEP"
                        /\ Go(t, "wgDone")
                        /\ UNCHANGED <<ret, seen, gcOff, child, lockVars, phaseVars,
                                       collectVars>>

\* WaitForGCPhase(SWEEP); GCSweepTy; GCReadyCount += 1
WaitGCSweep(t) == /\ pc[t] = "wgSweep"
                  /\ phase = "SWEEP"
                  /\ ready' = ready + 1
                  /\ Go(t, "wgDone")
                  /\ UNCHANGED <<ret, seen, gcOff, child, lockVars, wantGC, phase,
                                 collectVars>>

\* WaitForGCPhase(DONE | NONE)
WaitGCReturn(t) == /\ pc[t] = "wgDone"
                   /\ phase \in {"DONE", "NONE"}
                   /\ Go(t, ret[t])
                   /\ UNCHANGED <<ret, seen, gcOff, child, lockVars, phaseVars,
                                  collectVars>>

-----------------------------------------------------------------------------
(* DoGC: the thread that leads a collection *)

DoGC(t, r) ==
  \/ /\ gcLock = NoThread
     /\ gcs < MaxGC
     /\ gcs' = gcs + 1
     /\ gcLock' = t
     /\ Go(t, "gcGroup")
     /\ ret' = [ret EXCEPT ![t] = r]
     /\ UNCHANGED <<seen, gcOff, child, list, tyLock, blocked, groupLock, phaseVars,
                    todo, runningThreads, blockedThreads>>
  \/ /\ gcLock # NoThread
     /\ WaitGC(t, r)

\* CheckUsed when memory_used has reached memory_limit.
CheckUsed(t) == pc[t] = "run" /\ gcOff[t] = 0 /\ DoGC(t, "run")

\* ty.gc(), which does not look at GC_OFF_COUNT.
TyGC(t) == pc[t] = "run" /\ DoGC(t, "run")

\* Lock group->Lock; WantGC = true
GcGroupLock(t) == /\ pc[t] = "gcGroup"
                  /\ groupLock = NoThread
                  /\ groupLock' = t
                  /\ wantGC' = TRUE
                  /\ todo' = list \ {t}
                  /\ runningThreads' = {}
                  /\ blockedThreads' = {}
                  /\ Go(t, "gcScan")
                  /\ UNCHANGED <<ret, seen, gcOff, child, list, tyLock, blocked, gcLock,
                                 phase, ready, gcs>>

\* Mutant: gives back the locks of the blocked threads too.
GcScanKeepsNone(t) == /\ pc[t] = "gcScan"
                      /\ \E u \in todo :
                           /\ tyLock[u] = NoThread
                           /\ todo' = todo \ {u}
                           /\ blocked' = [blocked EXCEPT ![u] = TRUE]
                           /\ \/ /\ ~ blocked[u]
                                 /\ runningThreads' = runningThreads \cup {u}
                                 /\ UNCHANGED blockedThreads
                              \/ /\ blocked[u]
                                 /\ blockedThreads' = blockedThreads \cup {u}
                                 /\ UNCHANGED runningThreads
                      /\ UNCHANGED <<threadVars, list, tyLock, groupLock, gcLock,
                                     phaseVars, gcs>>

\* One iteration: take the thread's lock.  TryFlipTo succeeds on a thread that
\* is not blocked: it is counted and its lock given back.
GcScan(t) == /\ pc[t] = "gcScan"
             /\ \E u \in todo :
                  /\ tyLock[u] = NoThread
                  /\ todo' = todo \ {u}
                  /\ \/ /\ ~ blocked[u]
                        /\ blocked' = [blocked EXCEPT ![u] = TRUE]
                        /\ runningThreads' = runningThreads \cup {u}
                        /\ UNCHANGED <<tyLock, blockedThreads>>
                     \/ /\ blocked[u]
                        /\ tyLock' = [tyLock EXCEPT ![u] = t]
                        /\ blockedThreads' = blockedThreads \cup {u}
                        /\ UNCHANGED <<blocked, runningThreads>>
             /\ UNCHANGED <<threadVars, list, groupLock, gcLock, phaseVars, gcs>>

\* Mutant: leaves GCReadyCount as it is.
SetPhaseKeepCount(p) == phase' = p /\ UNCHANGED ready

SetPhase(p) == phase' = p /\ ready' = 0

\* StartGC
StartGC(t) == /\ pc[t] = "gcScan"
              /\ todo = {}
              /\ SetPhase("MARK")
              /\ Go(t, "gcMark")
              /\ UNCHANGED <<ret, seen, gcOff, child, lockVars, wantGC, collectVars>>

\* MarkStorage of the blocked threads and of its own, then the globals.
GcMark(t) == /\ pc[t] = "gcMark"
             /\ Go(t, "gcMarked")
             /\ UNCHANGED <<ret, seen, gcOff, child, lockVars, phaseVars, collectVars>>

\* NextGCPhase spins until every running thread has reported.
NextGCPhase(p) == ready >= Cardinality(runningThreads) /\ SetPhase(p)

GcStartSweep(t) == /\ pc[t] = "gcMarked"
                   /\ NextGCPhase("SWEEP")
                   /\ Go(t, "gcSweep")
                   /\ UNCHANGED <<ret, seen, gcOff, child, lockVars, wantGC, collectVars>>

\* WantGC = false; GCSweepTy of the blocked threads and of its own, then
\* GCSweep of DeadAllocs under DLock.
GcSweep(t) == /\ pc[t] = "gcSweep"
              /\ wantGC' = FALSE
              /\ Go(t, "gcSwept")
              /\ UNCHANGED <<ret, seen, gcOff, child, lockVars, phase, ready, collectVars>>

GcDone(t) == /\ pc[t] = "gcSwept"
             /\ NextGCPhase("DONE")
             /\ Go(t, "gcDone")
             /\ UNCHANGED <<ret, seen, gcOff, child, lockVars, wantGC, collectVars>>

\* EndGC
EndGC(t) == /\ pc[t] = "gcDone"
            /\ phase' = "NONE"
            /\ Go(t, "gcEnd")
            /\ UNCHANGED <<ret, seen, gcOff, child, lockVars, wantGC, ready, collectVars>>

GcUnlock(t) == /\ pc[t] = "gcEnd"
               /\ gcLock' = NoThread
               /\ Go(t, "gcUnlockThreads")
               /\ UNCHANGED <<ret, seen, gcOff, child, list, tyLock, blocked, groupLock,
                              phaseVars, collectVars>>

\* UnlockThreads, then unlock group->Lock
UnlockThreads(t) == /\ pc[t] = "gcUnlockThreads"
                    /\ tyLock' = [u \in Thread |->
                                    IF u \in blockedThreads THEN NoThread ELSE tyLock[u]]
                    /\ groupLock' = NoThread
                    /\ Go(t, ret[t])
                    /\ UNCHANGED <<ret, seen, gcOff, child, list, blocked, gcLock,
                                   phaseVars, collectVars>>

-----------------------------------------------------------------------------
(* CleanupThread, when a thread's function has returned *)

\* DeadUsed + MemoryUsed > MemoryLimit: collect first.
CleanupGC(t) == /\ pc[t] = "run"
                /\ t # Main
                /\ DoGC(t, "dying")

\* Hand ty->allocs over to DeadAllocs; UnlockTy()
CleanupThread(t) == /\ pc[t] \in {"run", "dying"}
                    /\ t # Main
                    /\ ReleaseLock(t, TRUE)
                    /\ Go(t, "leaving")
                    /\ UNCHANGED <<ret, seen, gcOff, child, list, groupLock, gcLock,
                                   phaseVars, collectVars>>

\* Leave the lists under group->Lock; the lock and the state are freed.
LeaveGroup(t) == /\ pc[t] = "leaving"
                 /\ groupLock = NoThread
                 /\ list' = list \ {t}
                 /\ Go(t, "exited")
                 /\ UNCHANGED <<ret, seen, gcOff, child, tyLock, blocked, groupLock,
                                gcLock, phaseVars, collectVars>>

-----------------------------------------------------------------------------
\* The group has the members T, each of them in Ty code; the others do not exist.
Members(T) == /\ pc = [t \in Thread |-> IF t \in T THEN "run" ELSE "none"]
              /\ ret = [t \in Thread |-> "run"]
              /\ seen = [t \in Thread |-> "NONE"]
              /\ gcOff = [t \in Thread |-> 0]
              /\ child = [t \in Thread |-> NoThread]
              /\ list = T
              /\ tyLock = [t \in Thread |-> IF t \in T THEN t ELSE NoThread]
              /\ blocked = [t \in Thread |-> FALSE]
              /\ groupLock = NoThread /\ gcLock = NoThread
              /\ wantGC = FALSE /\ phase = "NONE" /\ ready = 0
              /\ todo = {} /\ runningThreads = {} /\ blockedThreads = {}
              /\ gcs = 0

Init == Members({Main})

\* A program that has created all of its threads.
AllRun == Members(Thread)

\* What a thread does between collections.
Program(t) == \/ Block(t) \/ Unblock(t) \/ GcStop(t) \/ GcResume(t)
              \/ NewThread(t) \/ NewThreadReturn(t) \/ AddThread(t) \/ Created(t)
              \/ ThreadGroupCall(t) \/ ThreadGroupReturn(t)
              \/ CleanupThread(t) \/ LeaveGroup(t)

Wait(t) == \/ CheckFlags(t) \/ WaitGCPhase(t) \/ WaitGCTake(t) \/ WaitGCMark(t)
           \/ WaitGCSweep(t) \/ WaitGCReturn(t)

Collect(t) == \/ CheckUsed(t) \/ TyGC(t) \/ CleanupGC(t) \/ GcGroupLock(t) \/ GcScan(t)
              \/ StartGC(t) \/ GcMark(t) \/ GcStartSweep(t) \/ GcSweep(t) \/ GcDone(t)
              \/ EndGC(t) \/ GcUnlock(t) \/ UnlockThreads(t)

Next == \E t \in Thread : Program(t) \/ Wait(t) \/ Collect(t)

Spec == Init /\ [][Next]_vars

\* A step inside DoGC, WaitGC, NewThread, thread.group() or CleanupThread that
\* can be taken is taken: the code spins or waits on a condition variable for
\* it and does nothing else.  A thread reaches the end of every GC_STOP region;
\* it may block or start another in between, hence strong fairness.  Nothing
\* is assumed of blocking calls, which may never return, nor of the program,
\* which may never allocate, spawn or end.
ProtocolFairness ==
  \A t \in Thread :
    /\ WF_vars(NewThreadReturn(t) \/ AddThread(t) \/ Created(t) \/ LeaveGroup(t)
                 \/ ThreadGroupReturn(t))
    /\ WF_vars(pc[t] = "dying" /\ CleanupThread(t))
    /\ SF_vars(GcResume(t))
    /\ WF_vars(WaitGCPhase(t) \/ WaitGCTake(t) \/ WaitGCMark(t) \/ WaitGCSweep(t)
                 \/ WaitGCReturn(t))
    /\ WF_vars(GcGroupLock(t) \/ GcScan(t) \/ StartGC(t) \/ GcMark(t)
                 \/ GcStartSweep(t) \/ GcSweep(t) \/ GcDone(t) \/ EndGC(t)
                 \/ GcUnlock(t) \/ UnlockThreads(t))

\* A thread whose code is interpreted reaches CheckFlags before every instruction.
Fairness == ProtocolFairness /\ \A t \in Thread : SF_vars(CheckFlags(t))

FairSpec == Spec /\ Fairness

-----------------------------------------------------------------------------
PCs == {"none", "starting", "added", "run", "group", "blocked", "creating",
        "wgWait", "wgTake", "wgMark", "wgSweep", "wgDone",
        "gcGroup", "gcScan", "gcMark", "gcMarked", "gcSweep", "gcSwept", "gcDone",
        "gcEnd", "gcUnlockThreads", "dying", "leaving", "exited"}
Phases == {"NONE", "MARK", "SWEEP", "DONE"}

\* The state of the group.  GC_OFF_COUNT never goes below zero: every GC_RESUME
\* has its GC_STOP.
TypeOK == /\ pc \in [Thread -> PCs]
          /\ ret \in [Thread -> {"run", "dying"}]
          /\ seen \in [Thread -> Phases]
          /\ gcOff \in [Thread -> 0 .. MaxStop]
          /\ child \in [Thread -> Thread \cup {NoThread}]
          /\ list \subseteq Thread
          /\ tyLock \in [Thread -> Thread \cup {NoThread}]
          /\ blocked \in [Thread -> BOOLEAN]
          /\ groupLock \in Thread \cup {NoThread}
          /\ gcLock \in Thread \cup {NoThread}
          /\ wantGC \in BOOLEAN
          /\ phase \in Phases
          /\ ready \in Nat
          /\ todo \subseteq Thread
          /\ runningThreads \subseteq Thread
          /\ blockedThreads \subseteq Thread
          /\ gcs \in 0 .. MaxGC

\* A thread that executes the program: it may read and write any object.
Executing(u) == pc[u] \in {"added", "run", "group", "dying"}

\* While anything is being swept (GCSweepTy, GCSweep) no thread of the group
\* executes the program: each is blocked, in WaitGC, or leads the collection.
SweepExclusion == phase = "SWEEP" => \A u \in list : ~ Executing(u)

\* From StartGC to the end of the sweep the collector has accounted for every
\* other thread of the group, and the group does not change: the indices in
\* runningThreads and blockedThreads stay those of the same threads.
AllAccounted == phase \in {"MARK", "SWEEP"} =>
                  list \ {gcLock} = runningThreads \cup blockedThreads

\* The one way a thread executes while the group is being marked: it returned
\* from WaitGC with a DONE that belongs to an earlier collection.
StrayIsStale == phase = "MARK" =>
                  \A u \in list : Executing(u) => u \in runningThreads /\ seen[u] = "DONE"

-----------------------------------------------------------------------------
(* The inductive invariant behind these three *)

Leading == {"gcScan", "gcMark", "gcMarked", "gcSweep", "gcSwept", "gcDone", "gcEnd",
            "gcUnlockThreads"}
GCLocked == ({"gcGroup"} \cup Leading) \ {"gcUnlockThreads"}
Gathering == {"gcScan", "gcMark", "gcMarked"}
OwnsLock == {"starting", "added", "run", "group", "wgMark", "wgSweep", "wgDone",
             "gcGroup", "dying"} \cup Leading
Idle == {"blocked", "creating", "leaving"}
InWait == {"wgWait", "wgTake"}

LeaderAt(P) == groupLock # NoThread /\ pc[groupLock] \in P

\* The lists hold the threads between AddThread and LeaveGroup.
Membership == \A u \in Thread : u \in list <=> pc[u] \notin {"none", "starting", "exited"}

\* group->Lock and group->GCLock are held over a fixed range of DoGC, and the
\* phase follows the collector.
Leadership ==
  /\ \A u \in Thread : /\ groupLock = u <=> pc[u] \in Leading
                       /\ gcLock = u <=> pc[u] \in GCLocked
  /\ phase = "MARK" <=> LeaderAt({"gcMark", "gcMarked"})
  /\ phase = "SWEEP" <=> LeaderAt({"gcSweep", "gcSwept"})
  /\ phase = "DONE" <=> LeaderAt({"gcDone"})

\* A thread's lock is its own while it runs and free otherwise, except that
\* the collector keeps the locks of the threads it found blocked.
LockDiscipline ==
  \A u \in Thread :
    tyLock[u] = IF pc[u] \in OwnsLock THEN u
                ELSE IF u \in blockedThreads THEN groupLock ELSE NoThread

\* The scan sorts the members of the group; blocked ones stay where they are.
Scanned ==
  groupLock # NoThread =>
    /\ list \ {groupLock} = todo \cup runningThreads \cup blockedThreads
    /\ todo \cap runningThreads = {}
    /\ pc[groupLock] # "gcScan" => todo = {}
    /\ \A u \in blockedThreads : pc[u] \in Idle

\* What TryFlipTo reads: set by a thread that blocks, and by a collector that
\* has counted a thread in WaitGC.
FlagInv ==
  \A u \in Thread :
    /\ pc[u] \in Idle => blocked[u]
    /\ pc[u] \in InWait /\ blocked[u] =>
         LeaderAt(Gathering) /\ u \in runningThreads

\* Where the threads in WaitGC are, and that they were counted.
Participants ==
  \A u \in Thread :
    /\ pc[u] = "wgTake" => \/ seen[u] = "DONE"
                           \/ seen[u] = "MARK" /\ phase = "MARK" /\ u \in runningThreads
    /\ pc[u] = "wgMark" => phase = "MARK" /\ u \in runningThreads
    /\ pc[u] = "wgSweep" => phase \in {"MARK", "SWEEP"} /\ u \in runningThreads

\* Where the threads that were counted are.
Counted ==
  \A u \in runningThreads :
    /\ LeaderAt(Gathering) =>
         \/ pc[u] \in InWait \cup {"wgMark", "wgSweep"}
         \/ pc[u] \in Idle \cup {"run", "group", "dying"} /\ seen[u] = "DONE"
    /\ LeaderAt({"gcSweep", "gcSwept"}) => pc[u] \in {"wgSweep", "wgDone"}

\* GCReadyCount is the number of counted threads that have finished the phase.
Reported(p) == {u \in runningThreads : pc[u] = p}
ReadyCount == /\ phase = "MARK" => ready = Cardinality(Reported("wgSweep"))
              /\ phase = "SWEEP" => ready = Cardinality(Reported("wgDone"))

\* The protocol's inductive invariant: who holds which lock, whom the scan
\* counted and where those threads are, and what GCReadyCount counts.
GCInv == /\ Membership /\ Leadership /\ LockDiscipline /\ Scanned /\ FlagInv
         /\ Participants /\ Counted /\ ReadyCount

-----------------------------------------------------------------------------
(* Termination *)

\* A thread counted as running that still holds the DONE of an earlier
\* collection.
Stale(u) == phase = "MARK" /\ u \in runningThreads /\ seen[u] = "DONE"

\* A thread that waits in thread.group() for the group->Lock of a scan that
\* waits for the thread's own lock: the two wait for each other forever.
Entangled(u) == pc[u] = "group" /\ u \in todo /\ LeaderAt({"gcScan"})

\* A thread that enters WaitGC gets back to its program.
WaitGCReturns ==
  \A t \in Thread : (pc[t] = "wgWait") ~> (pc[t] \in {"run", "dying"})
=============================================================================
