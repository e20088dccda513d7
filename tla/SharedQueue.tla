---------------------------- MODULE SharedQueue -----------------------------
(***************************************************************************)
(* SharedQueue (src/queue.c), a queue under a mutex with a condition       *)
(* variable, used by the threads of one group while the group collects.    *)
(*                                                                         *)
(* Its ring is the one of Queue, which implements a sequence; here only    *)
(* its length counts.  A method that runs under q->mutex from lock to      *)
(* unlock without waiting for anything else is one step; take, peek and a  *)
(* timed tryTake hold the mutex while they wait for their thread's own     *)
(* lock.  The threads exist already; creation and exit are ThreadGroup's.  *)
(***************************************************************************)
EXTENDS ThreadGroup

CONSTANTS Methods,   \* the methods the program calls
          MaxPuts    \* bound: calls of put

RunningOps == {"put", "close", "clear", "tryTake", "toArray", "len"}
BlockingOps == {"take", "peek", "tryTakeTimed"}

ASSUME QueueAssumption == /\ Methods \subseteq RunningOps \cup BlockingOps
                          /\ MaxPuts \in Nat

VARIABLES
  count,      \* _queue_count of the ring
  open,       \* q->open
  mutex,      \* the holder of q->mutex between two steps
  at,         \* where each thread is inside a method
  op,         \* which method
  puts        \* calls of put so far

queueVars == <<count, open, mutex, at, op, puts>>
allVars == <<groupVars, queueVars>>

Enter(t, l, m) == at' = [at EXCEPT ![t] = l] /\ op' = [op EXCEPT ![t] = m]
At(t, l) == at' = [at EXCEPT ![t] = l] /\ UNCHANGED op
Done(t) == Enter(t, "idle", "none")
Ready(t) == at[t] = "idle"

-----------------------------------------------------------------------------
(* put, close, clear, toArray and the other methods that keep the thread's  *)
(* own lock while they wait for q->mutex                                    *)

\* A running thread enters the method and waits for q->mutex.
CallRunning(t) == /\ pc[t] = "run"
                  /\ Ready(t)
                  /\ \E m \in RunningOps \cap Methods :
                       /\ Enter(t, "mutex", m)
                       /\ IF m = "put" THEN puts < MaxPuts /\ puts' = puts + 1
                          ELSE UNCHANGED puts
                  /\ UNCHANGED <<groupVars, count, open, mutex>>

\* Mutant: no broadcast.
PutSilently(t) == /\ at[t] = "mutex" /\ op[t] = "put"
                  /\ mutex = NoThread
                  /\ count' = count + 1
                  /\ At(t, "return")
                  /\ UNCHANGED <<groupVars, open, mutex, puts>>

\* put: push at the back, unlock; the broadcast follows.
Put(t) == /\ at[t] = "mutex" /\ op[t] = "put"
          /\ mutex = NoThread
          /\ count' = count + 1
          /\ At(t, "broadcast")
          /\ UNCHANGED <<groupVars, open, mutex, puts>>

\* close: open = false, unlock; the broadcast follows.
Close(t) == /\ at[t] = "mutex" /\ op[t] = "close"
            /\ mutex = NoThread
            /\ open' = FALSE
            /\ At(t, "broadcast")
            /\ UNCHANGED <<groupVars, count, mutex, puts>>

\* clear
Clear(t) == /\ at[t] = "mutex" /\ op[t] = "clear"
            /\ mutex = NoThread
            /\ count' = 0
            /\ Done(t)
            /\ UNCHANGED <<groupVars, open, mutex, puts>>

\* tryTake without a timeout
TryTake(t) == /\ at[t] = "mutex" /\ op[t] = "tryTake"
              /\ mutex = NoThread
              /\ count' = IF count = 0 THEN 0 ELSE count - 1
              /\ Done(t)
              /\ UNCHANGED <<groupVars, open, mutex, puts>>

\* toArray copies under the mutex, then checks the memory used; len, empty?,
\* open? and tryPeek read and return.
Read(t) == /\ at[t] = "mutex" /\ op[t] \in {"toArray", "len"}
           /\ mutex = NoThread
           /\ IF op[t] = "toArray" THEN At(t, "return") ELSE Done(t)
           /\ UNCHANGED <<groupVars, count, open, mutex, puts>>

\* TyCondVarBroadcast wakes every waiter.
Broadcast(t) == /\ at[t] = "broadcast"
                /\ at' = [u \in Thread |-> IF u = t THEN "return"
                                           ELSE IF at[u] = "waiting" THEN "acquire"
                                           ELSE at[u]]
                /\ UNCHANGED <<groupVars, count, open, mutex, op, puts>>

\* The end of put and toArray, CheckUsed, may collect; that of close does not.
Return(t) == /\ at[t] = "return"
             /\ (op[t] # "close" /\ CheckUsed(t)) \/ UNCHANGED groupVars
             /\ Done(t)
             /\ UNCHANGED <<count, open, mutex, puts>>

-----------------------------------------------------------------------------
(* take, peek and tryTake(timeout), which give up the thread's own lock *)

\* UnlockTy()
CallBlocking(t) == /\ Ready(t)
                   /\ Block(t)
                   /\ \E m \in BlockingOps \cap Methods :
                        Enter(t, "acquire", m)
                   /\ UNCHANGED <<count, open, mutex, puts>>

\* Mutant: gives the mutex back before it waits for the thread's own lock.
AcquireUnlocked(t) == /\ at[t] = "acquire"
                      /\ mutex = NoThread
                      /\ \/ /\ count > 0 \/ (~ open /\ op[t] = "tryTakeTimed")
                            /\ UNCHANGED mutex
                            /\ At(t, "lockTy")
                         \/ /\ count = 0 /\ open
                            /\ At(t, "waiting")
                            /\ UNCHANGED mutex
                         \/ /\ count = 0 /\ ~ open /\ op[t] # "tryTakeTimed"
                            /\ At(t, "closed")
                            /\ UNCHANGED mutex
                      /\ UNCHANGED <<groupVars, count, open, puts>>

\* Mutant: a closed queue gives up without looking at what it holds.
AcquireClosed(t) == /\ at[t] = "acquire"
                    /\ mutex = NoThread
                    /\ \/ /\ open /\ count > 0
                          /\ mutex' = t
                          /\ At(t, "lockTy")
                       \/ /\ open /\ count = 0
                          /\ At(t, "waiting")
                          /\ UNCHANGED mutex
                       \/ /\ ~ open
                          /\ At(t, "closed")
                          /\ UNCHANGED mutex
                    /\ UNCHANGED <<groupVars, count, open, puts>>

\* TyMutexLock, or the end of a wait, and the test of the loop: go on with the
\* mutex held, wait, or give up on a closed queue.
Acquire(t) == /\ at[t] = "acquire"
              /\ mutex = NoThread
              /\ \/ /\ count > 0 \/ (~ open /\ op[t] = "tryTakeTimed")
                    /\ mutex' = t
                    /\ At(t, "lockTy")
                 \/ /\ count = 0 /\ open
                    /\ At(t, "waiting")
                    /\ UNCHANGED mutex
                 \/ /\ count = 0 /\ ~ open /\ op[t] # "tryTakeTimed"
                    /\ At(t, "closed")
                    /\ UNCHANGED mutex
              /\ UNCHANGED <<groupVars, count, open, puts>>

\* The deadline of a timed wait passes.
TimedOut(t) == /\ at[t] = "waiting" /\ op[t] = "tryTakeTimed"
               /\ mutex = NoThread
               /\ mutex' = t
               /\ At(t, "lockTy")
               /\ UNCHANGED <<groupVars, count, open, puts>>

\* Mutant: advances the head without waiting for the thread's own lock.
TakeHeadUnlocked(t) == /\ at[t] = "lockTy"
                       /\ count' = IF op[t] = "peek" \/ count = 0 THEN count ELSE count - 1
                       /\ mutex' = NoThread
                       /\ Done(t)
                       /\ UNCHANGED <<groupVars, open, puts>>

\* LockTy(), read the head, advance it unless this is peek, unlock.
TakeHead(t) == /\ at[t] = "lockTy"
               /\ Unblock(t)
               /\ count' = IF op[t] = "peek" \/ count = 0 THEN count ELSE count - 1
               /\ mutex' = NoThread
               /\ Done(t)
               /\ UNCHANGED <<open, puts>>

\* LockTy() and the panic "queue is closed and empty".
ClosedPanic(t) == /\ at[t] = "closed"
                  /\ Unblock(t)
                  /\ Done(t)
                  /\ UNCHANGED <<count, open, mutex, puts>>

-----------------------------------------------------------------------------
(* What the threads do otherwise: run, collect, take part in a collection *)

Between(t) == Ready(t) /\ (CheckFlags(t) \/ TyGC(t)) /\ UNCHANGED queueVars

Participate(t) == /\ \/ WaitGCPhase(t) \/ WaitGCTake(t) \/ WaitGCMark(t)
                     \/ WaitGCSweep(t) \/ WaitGCReturn(t)
                  /\ UNCHANGED queueVars

Lead(t) == /\ \/ GcGroupLock(t) \/ GcScan(t) \/ StartGC(t) \/ GcMark(t)
              \/ GcStartSweep(t) \/ GcSweep(t) \/ GcDone(t) \/ EndGC(t)
              \/ GcUnlock(t) \/ UnlockThreads(t)
           /\ UNCHANGED queueVars

QueueInit == /\ AllRun
             /\ count = 0 /\ open = TRUE /\ mutex = NoThread
             /\ at = [t \in Thread |-> "idle"]
             /\ op = [t \in Thread |-> "none"]
             /\ puts = 0

QueueNext == \E t \in Thread :
  \/ CallRunning(t) \/ Put(t) \/ Close(t) \/ Clear(t) \/ TryTake(t) \/ Read(t)
  \/ Broadcast(t) \/ Return(t)
  \/ CallBlocking(t) \/ Acquire(t) \/ TimedOut(t) \/ TakeHead(t) \/ ClosedPanic(t)
  \/ Between(t) \/ Participate(t) \/ Lead(t)

QueueSpec == QueueInit /\ [][QueueNext]_allVars

\* Inside a method a thread does nothing but the method; an nsync mutex does
\* not starve a waiter (MU_LONG_WAIT), hence strong fairness for getting it.
\* A thread between methods reaches CheckFlags.
QueueFairness ==
  \A t \in Thread :
    /\ SF_allVars(Put(t) \/ Close(t) \/ Clear(t) \/ TryTake(t) \/ Read(t))
    /\ SF_allVars(Acquire(t))
    /\ WF_allVars(Broadcast(t) \/ Return(t))
    /\ WF_allVars(TakeHead(t) \/ ClosedPanic(t))
    /\ SF_allVars(Ready(t) /\ CheckFlags(t) /\ UNCHANGED queueVars)
    /\ WF_allVars(Participate(t))
    /\ WF_allVars(Lead(t))

QueueFairSpec == QueueSpec /\ QueueFairness

-----------------------------------------------------------------------------
\* The types of the group and of the queue, the count's bound apart.
Ats == {"idle", "mutex", "broadcast", "return", "acquire", "waiting", "lockTy", "closed"}
Ops == RunningOps \cup BlockingOps \cup {"none"}
Typed == /\ TypeOK /\ count \in Nat /\ open \in BOOLEAN /\ mutex \in Thread \cup {NoThread}
         /\ at \in [Thread -> Ats] /\ op \in [Thread -> Ops] /\ puts \in 0 .. MaxPuts

\* The state of the group and of the queue: its length is never negative and
\* never more than was put.
QueueTypeOK == Typed /\ count \in 0 .. MaxPuts

\* take and peek read a slot that holds an element: what they saw in the loop
\* is still true after LockTy().
TakeSeesItem ==
  \A t \in Thread : at[t] = "lockTy" /\ op[t] \in {"take", "peek"} => count > 0

\* A waiter whose condition holds has a broadcast coming: none is lost between
\* the unlock and the broadcast, nor between the test and the wait.
NoLostWakeup ==
  (\E t \in Thread : at[t] = "waiting") /\ (count > 0 \/ ~ open)
    => \E u \in Thread : at[u] = "broadcast"

\* shared_queue_mark reads the ring without q->mutex.  The ring does not
\* change while the group marks or sweeps, stale threads apart.
RingFrozen ==
  [][phase = "SWEEP" \/ (phase = "MARK" /\ ~ \E u \in Thread : Stale(u))
       => UNCHANGED count]_allVars

\* take and peek return once they have found an element.
TakeReturns ==
  \A t \in Thread : (at[t] = "lockTy") ~> (at[t] = "idle")
=============================================================================
