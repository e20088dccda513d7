-------------------------------- MODULE Pool --------------------------------
(***************************************************************************)
(* ThreadPool and Future (lib/tp.ty): workers that take jobs from a        *)
(* SharedQueue, clients that submit, cancel, wait and close, and the joins *)
(* by which close() ends.                                                  *)
(*                                                                         *)
(* The methods of the queue, the joins and the exit of a thread are those  *)
(* of SharedQueue, ThreadHandle and ThreadGroup, step by step; here the    *)
(* elements of the queue are known.  A `with _mtx` block of Future changes *)
(* its state and then notifies, and nothing reads the state without the    *)
(* mutex, so each block is one step.                                       *)
(***************************************************************************)
EXTENDS SharedQueue, ThreadHandle, Sequences

CONSTANTS Job,         \* the futures the clients create
          NoJob,
          Fragile,     \* the workers whose setup may throw
          Submitter    \* the clients that submit jobs

ASSUME PoolAssumption == NoJob \notin Job

VARIABLES
  items,     \* the elements of the queue, in order
  future,    \* _state of each future and whether _done was notified
  work,      \* where each worker is in runThread, and its future
  client,    \* where each client is, the future it is about, the worker it joins
  waited,    \* the futures each client has waited for
  late       \* the futures put into the queue after it was closed

poolVars == <<items, future, work, client, waited, late>>

WorkAt(w, l, f) == work' = [work EXCEPT ![w] = [at |-> l, job |-> f]]
ClientAt(c, l, f) == client' = [client EXCEPT ![c].at = l, ![c].job = f]
JoinNext(c, n) == client' = [client EXCEPT ![c].at = "join", ![c].next = n]
Set(f, s, d) == future' = [future EXCEPT ![f] = [state |-> s, done |-> d]]
Settled(f) == future[f].state \in {"CANCELED", "ABORTED", "COMPLETED"}

-----------------------------------------------------------------------------
(* ThreadPool.runThread *)

\* The setup function, if there is one; if it throws the worker dies.
Setup(w) == /\ work[w].at = "setup"
            /\ WorkAt(w, "take", NoJob) \/ (w \in Fragile /\ WorkAt(w, "failed", NoJob))
            /\ UNCHANGED <<allVars, handleVars, items, future, client, waited, late>>

\* __queue.take()
TakeCall(w) == /\ work[w].at = "take"
               /\ CallBlocking(w) /\ op'[w] = "take"
               /\ UNCHANGED <<handleVars, poolVars>>

TakeWait(w) == Acquire(w) /\ UNCHANGED <<handleVars, poolVars>>

Take(w) == /\ TakeHead(w)
           /\ WorkAt(w, "start", Head(items))
           /\ items' = Tail(items)
           /\ UNCHANGED <<handleVars, future, client, waited, late>>

\* A closed and empty queue throws a RuntimeError, which the handler for
\* CanceledError does not match: the worker dies with it.
TakeClosed(w) == /\ ClosedPanic(w)
                 /\ WorkAt(w, "end", NoJob)
                 /\ UNCHANGED <<handleVars, items, future, client, waited, late>>

\* Mutant: starts a future that was canceled.
StartAnyway(w) == LET f == work[w].job IN
  /\ work[w].at = "start"
  /\ Set(f, "RUNNING", future[f].done)
  /\ WorkAt(w, "run", f)
  /\ UNCHANGED <<allVars, handleVars, items, client, waited, late>>

\* Mutant: continue if future.start()
StartInverted(w) == LET f == work[w].job IN
  /\ work[w].at = "start"
  /\ \/ /\ future[f].state = "CREATED"
        /\ Set(f, "RUNNING", FALSE)
        /\ WorkAt(w, "take", NoJob)
     \/ /\ future[f].state # "CREATED"
        /\ WorkAt(w, "run", f)
        /\ UNCHANGED future
  /\ UNCHANGED <<allVars, handleVars, items, client, waited, late>>

\* Future.start()
Start(w) == LET f == work[w].job IN
  /\ work[w].at = "start"
  /\ \/ /\ future[f].state = "CREATED"
        /\ Set(f, "RUNNING", FALSE)
        /\ WorkAt(w, "run", f)
     \/ /\ future[f].state # "CREATED"
        /\ WorkAt(w, "take", NoJob)
        /\ UNCHANGED future
  /\ UNCHANGED <<allVars, handleVars, items, client, waited, late>>

\* Mutant: does not notify when the job throws.
SettleSilently(w) == LET f == work[w].job IN
  /\ work[w].at = "run"
  /\ Set(f, "COMPLETED", TRUE) \/ Set(f, "ABORTED", FALSE)
  /\ WorkAt(w, "take", NoJob)
  /\ UNCHANGED <<allVars, handleVars, items, client, waited, late>>

\* The job returns, Future.complete(), or throws, Future.abort().
Settle(w) == LET f == work[w].job IN
  /\ work[w].at = "run"
  /\ Set(f, "COMPLETED", TRUE) \/ Set(f, "ABORTED", TRUE)
  /\ WorkAt(w, "take", NoJob)
  /\ UNCHANGED <<allVars, handleVars, items, client, waited, late>>

\* The worker's thread ends.
WorkerExit(w) == /\ work[w].at \in {"end", "failed"}
                 /\ Exit(w)
                 /\ UNCHANGED <<queueVars, poolVars>>

-----------------------------------------------------------------------------
(* ThreadPool.submit, Future.cancel, Future.wait *)

\* submit(): a new future, and put.
Submit(c, f) == /\ client[c].at = "idle" /\ c \in Submitter
                /\ future[f].state = "none"
                /\ Set(f, "CREATED", FALSE)
                /\ CallRunning(c) /\ op'[c] = "put"
                /\ ClientAt(c, "submit", f)
                /\ UNCHANGED <<handleVars, items, work, waited, late>>

SubmitPut(c) == /\ Put(c)
                /\ items' = Append(items, client[c].job)
                /\ late' = IF open THEN late ELSE late \cup {client[c].job}
                /\ UNCHANGED <<handleVars, future, work, client, waited>>

\* The broadcast that ends put and close.
QueueBroadcast(c) == Broadcast(c) /\ UNCHANGED <<handleVars, poolVars>>

SubmitReturn(c) == /\ client[c].at = "submit"
                   /\ Return(c)
                   /\ ClientAt(c, "idle", NoJob)
                   /\ UNCHANGED <<handleVars, items, future, work, waited, late>>

\* Future.cancel()
Cancel(c, f) == /\ client[c].at = "idle"
                /\ future[f].state = "CREATED"
                /\ Set(f, "CANCELED", TRUE)
                /\ UNCHANGED <<allVars, handleVars, items, work, client, waited, late>>

\* Future.wait(): _done.wait() gives up the thread's lock.
WaitCall(c, f) == /\ client[c].at = "idle"
                  /\ future[f].state # "none"
                  /\ f \notin waited[c]
                  /\ Block(c)
                  /\ ClientAt(c, "wait", f)
                  /\ UNCHANGED <<queueVars, handleVars, items, future, work, waited, late>>

WaitReturn(c) == LET f == client[c].job IN
  /\ client[c].at = "wait"
  /\ future[f].done
  /\ Unblock(c)
  /\ ClientAt(c, "idle", NoJob)
  /\ waited' = [waited EXCEPT ![c] = @ \cup {f}]
  /\ UNCHANGED <<queueVars, handleVars, items, future, work, late>>

-----------------------------------------------------------------------------
(* ThreadPool.close *)

CloseCall(c) == /\ client[c].at = "idle"
                /\ CallRunning(c) /\ op'[c] = "close"
                /\ ClientAt(c, "close", NoJob)
                /\ UNCHANGED <<handleVars, items, future, work, waited, late>>

CloseQueue(c) == Close(c) /\ UNCHANGED <<handleVars, poolVars>>

CloseReturn(c) == /\ client[c].at = "close"
                  /\ Return(c)
                  /\ JoinNext(c, 1)
                  /\ UNCHANGED <<handleVars, items, future, work, waited, late>>

\* __threads, in some order.
Threads == CHOOSE f \in [1 .. Cardinality(Worker) -> Worker] :
             \A m, n \in DOMAIN f : f[m] = f[n] => m = n

\* __threads.map(&join): the next worker.
CloseJoin(c) == LET n == client[c].next IN
  /\ client[c].at = "join"
  /\ n <= Len(Threads)
  /\ JoinCall(c, Threads[n])
  /\ UNCHANGED <<queueVars, poolVars>>

CloseOsJoin(c) == OsJoin(c) /\ UNCHANGED <<queueVars, poolVars>>

CloseJoined(c) == /\ JoinReturn(c)
                  /\ JoinNext(c, client[c].next + 1)
                  /\ UNCHANGED <<queueVars, items, future, work, waited, late>>

\* join() throws for a worker that another close() has joined.
CloseThrows(c) == LET n == client[c].next IN
  /\ client[c].at = "join" /\ joiner[c].at = "none"
  /\ n <= Len(Threads)
  /\ handle[Threads[n]].joined
  /\ ClientAt(c, "threw", NoJob)
  /\ UNCHANGED <<allVars, handleVars, items, future, work, waited, late>>

CloseEnds(c) == /\ client[c].at = "join"
                /\ client[c].next = Len(Threads) + 1
                /\ ClientAt(c, "closed", NoJob)
                /\ UNCHANGED <<allVars, handleVars, items, future, work, waited, late>>

-----------------------------------------------------------------------------
PoolInit == /\ items = <<>>
            /\ future = [f \in Job |-> [state |-> "none", done |-> FALSE]]
            /\ work = [w \in Worker |-> [at |-> "setup", job |-> NoJob]]
            /\ client = [c \in Client |-> [at |-> "idle", job |-> NoJob, next |-> 1]]
            /\ waited = [c \in Client |-> {}]
            /\ late = {}

WorkerStep(w) == \/ Setup(w) \/ TakeCall(w) \/ TakeWait(w) \/ Take(w) \/ TakeClosed(w)
                 \/ Start(w) \/ Settle(w) \/ WorkerExit(w)

\* A call that a client has begun goes on.
ClientStep(c) == \/ SubmitPut(c) \/ QueueBroadcast(c) \/ SubmitReturn(c) \/ WaitReturn(c)
                 \/ CloseQueue(c) \/ CloseReturn(c) \/ CloseJoin(c) \/ CloseOsJoin(c)
                 \/ CloseJoined(c) \/ CloseThrows(c) \/ CloseEnds(c)

ClientCall(c) == \/ CloseCall(c)
                 \/ \E f \in Job : Submit(c, f) \/ Cancel(c, f) \/ WaitCall(c, f)

PoolNext == \/ \E w \in Worker : WorkerStep(w)
            \/ \E c \in Client : ClientStep(c) \/ ClientCall(c)

\* All threads run when the pool starts.
AllInit == QueueInit /\ HandleInit /\ PoolInit
PoolSpec == AllInit /\ [][PoolNext]_<<allVars, handleVars, poolVars>>

-----------------------------------------------------------------------------
States == {"none", "CREATED", "RUNNING", "CANCELED", "ABORTED", "COMPLETED"}

\* The state of the pool; the ring's count is that of its elements.
PoolTypeOK ==
  /\ QueueTypeOK /\ HandleTypeOK
  /\ items \in Seq(Job) /\ Len(items) = count
  /\ future \in [Job -> [state : States, done : BOOLEAN]]
  /\ work \in [Worker -> [at : {"setup", "take", "start", "run", "end", "failed"},
                          job : Job \cup {NoJob}]]
  /\ client \in [Client -> [at : {"idle", "submit", "wait", "close", "join", "threw", "closed"},
                            job : Job \cup {NoJob},
                            next : 1 .. Cardinality(Worker) + 1]]
  /\ waited \in [Client -> SUBSET Job]
  /\ late \subseteq Job

Held(f) == {w \in Worker : work[w].job = f}

\* An unsettled future is where exactly one party will find it: still being
\* put, once in the queue, or with one worker; it runs at most once.
EachJobOnce ==
  /\ PoolTypeOK
  /\ \A f \in Job :
       /\ Cardinality({i \in DOMAIN items : items[i] = f}) + Cardinality(Held(f)) <= 1
       /\ future[f].state \in {"CREATED", "RUNNING"} =>
            \/ \E c \in Client : client[c].at = "submit" /\ client[c].job = f
            \/ Held(f) # {} \/ \E i \in DOMAIN items : items[i] = f

\* A settled future stays as it is: a cancel that returned true wins over a
\* worker that takes the future later, and one that came too late changes
\* nothing.
SettledForGood ==
  [][\A f \in Job : Settled(f) => future'[f] = future[f]]_<<allVars, handleVars, poolVars>>

\* close() abandons no job: a worker gives up only on an empty queue, so what
\* is queued after that was put after the close.
DrainedBeforeEnd ==
  (\E w \in Worker : work[w].at = "end") => \A i \in DOMAIN items : items[i] \in late

\* close() returns only when every worker has ended and no job runs, unless
\* two calls of it overlapped in a join.
ClosedMeansEnded ==
  (\E c \in Client : client[c].at = "closed") =>
    \A w \in Worker : life[w] = "ended" \/ w \in misused

\* A call of submit(), wait() or close() returns or throws: no wakeup is lost
\* between the queue, the futures and the joins.  Only wait() may sleep for
\* ever, on a future put after the close or when no worker got past setup.
CallsReturn ==
  \A c \in Client :
    client[c].at \in {"submit", "wait", "close", "join"}
      ~> \/ client[c].at \in {"idle", "closed", "threw"}
         \/ client[c].at = "wait" /\ client[c].job \in late
         \/ \A w \in Worker : work[w].at = "failed"
=============================================================================
