--------------------------- MODULE PoolStepProofs ---------------------------
(***************************************************************************)
(* The invariant of the pool, and that each step of a worker or of a       *)
(* client keeps it: where the futures are, how far each of them is, who    *)
(* has given up on the queue and who has been joined.                      *)
(*                                                                         *)
(* Of the queue the steps use that take finds an element, of the handles   *)
(* only their types; PoolProofs shows that both hold in the pool.          *)
(***************************************************************************)
EXTENDS Pool, TLAPS

-----------------------------------------------------------------------------
(* The invariant *)

Work == [at : {"setup", "take", "start", "run", "end", "failed"}, job : Job \cup {NoJob}]
Clients == [at : {"idle", "submit", "wait", "close", "join", "threw", "closed"},
            job : Job \cup {NoJob}, next : 1 .. Cardinality(Worker) + 1]
Futures == [state : States, done : BOOLEAN]

\* The types of the pool's own state; the queue's count is that of its elements.
PoolTyped == /\ items \in Seq(Job) /\ Len(items) = count
             /\ future \in [Job -> Futures]
             /\ work \in [Worker -> Work]
             /\ client \in [Client -> Clients]
             /\ waited \in [Client -> SUBSET Job]
             /\ late \subseteq Job

\* Who is where: a worker is in a method only in take, a client only in put or
\* close, and in a join only of the worker it has got to.
WorkerRole(w) ==
  /\ at[w] # "idle" => /\ at[w] \in {"acquire", "waiting", "lockTy", "closed"}
                       /\ work[w].at = "take" /\ op[w] = "take"
  /\ work[w].job \in Job <=> work[w].at \in {"start", "run"}
ClientRole(c) ==
  /\ at[c] # "idle" => /\ at[c] \in {"mutex", "broadcast", "return"}
                       /\ \/ client[c].at = "submit" /\ op[c] = "put"
                          \/ client[c].at = "close" /\ op[c] = "close"
  /\ client[c].at \in {"submit", "wait"} => client[c].job \in Job
  /\ joiner[c].at # "none" =>
       /\ client[c].at = "join" /\ client[c].next \in 1 .. Len(Threads)
       /\ joiner[c].at \in {"join", "lock"} /\ joiner[c].of = Threads[client[c].next]
Roles == (\A w \in Worker : WorkerRole(w)) /\ (\A c \in Client : ClientRole(c))

\* Client c is on its way to put its future into the queue.
Pending(c) == client[c].at = "submit" /\ at[c] = "mutex"

\* Where the futures are: each at one place, an unsettled one at some place, and
\* a running one with the worker that runs it.
Places ==
  /\ \A i, j \in 1 .. Len(items) : items[i] = items[j] => i = j
  /\ \A i \in 1 .. Len(items), w \in Worker : items[i] # work[w].job
  /\ \A v, w \in Worker : work[v].job \in Job /\ work[v].job = work[w].job => v = w
  /\ \A c \in Client : Pending(c) =>
       /\ \A i \in 1 .. Len(items) : items[i] # client[c].job
       /\ \A w \in Worker : work[w].job # client[c].job
       /\ \A d \in Client : Pending(d) /\ client[d].job = client[c].job => c = d

\* How far its future is: a job that is anywhere has been created, one is RUNNING
\* exactly when a worker runs it, and one that is CREATED is still somewhere.
Progress ==
  /\ \A i \in 1 .. Len(items) : future[items[i]].state # "none"
  /\ \A w \in Worker : work[w].job \in Job => future[work[w].job].state # "none"
  /\ \A c \in Client : Pending(c) => future[client[c].job].state # "none"
  /\ \A w \in Worker : work[w].at = "run" => future[work[w].job].state = "RUNNING"
  /\ \A f \in Job : future[f].state = "RUNNING"
                      => \E w \in Worker : work[w].at = "run" /\ work[w].job = f
  /\ \A f \in Job : future[f].state = "CREATED" =>
       \/ \E c \in Client : Pending(c) /\ client[c].job = f
       \/ \E i \in 1 .. Len(items) : items[i] = f
       \/ \E w \in Worker : work[w].job = f

\* A worker that has given up on the queue found it closed and empty.
Drained ==
  (\E w \in Worker : at[w] = "closed" \/ work[w].at = "end")
    => ~ open /\ \A i \in 1 .. Len(items) : items[i] \in late

\* A join that has returned found its worker at the end.
Ended(w) == life[w] = "ended" \/ w \in misused
Joined ==
  \A c \in Client :
    /\ joiner[c].at = "lock" => Ended(joiner[c].of)
    /\ client[c].at \in {"join", "closed"}
         => \A n \in 1 .. Len(Threads) : n < client[c].next => Ended(Threads[n])
    /\ client[c].at = "closed" => client[c].next = Len(Threads) + 1

\* The inductive invariant of the pool.
PoolInv == PoolTyped /\ Roles /\ Places /\ Progress /\ Drained /\ Joined

-----------------------------------------------------------------------------
(* What a step changes *)

\* __threads lists every worker; PoolProofs proves it for any set of workers.
ThreadsListed ==
  /\ Cardinality(Worker) \in Nat /\ Len(Threads) = Cardinality(Worker)
  /\ Threads \in [1 .. Len(Threads) -> Worker]
  /\ \A w \in Worker : \E n \in 1 .. Len(Threads) : Threads[n] = w

\* A client moves, or goes on to the next join.
LEMMA ClientMoves ==
  ASSUME client \in [Client -> Clients], NEW c \in Client,
         NEW l \in {"idle", "submit", "wait", "close", "join", "threw", "closed"},
         NEW f \in Job \cup {NoJob}, ClientAt(c, l, f)
  PROVE  /\ client' \in [Client -> Clients]
         /\ client'[c].at = l /\ client'[c].job = f /\ client'[c].next = client[c].next
         /\ \A d \in Client : d # c => client'[d] = client[d]
<1>1. client' = [client EXCEPT ![c].at = l, ![c].job = f]
  BY Zenon DEF ClientAt
<1>2. client[c] \in Clients
  OBVIOUS
<1>3. client' = [client EXCEPT ![c] = [client[c] EXCEPT !.at = l, !.job = f]]
  BY <1>1, <1>2, Zenon DEF Clients
<1>4. PICK r : r = [client[c] EXCEPT !.at = l, !.job = f]
  OBVIOUS
<1>5. r \in Clients /\ r.at = l /\ r.job = f /\ r.next = client[c].next
  BY <1>2, <1>4, Zenon DEF Clients
<1>6. client' = [client EXCEPT ![c] = r]
  BY <1>3, <1>4, Zenon
<1>7. QED
  BY <1>5, <1>6, Zenon

\* Going on to the join of the n-th worker changes the record of one client only.
LEMMA NextMoves ==
  ASSUME client \in [Client -> Clients], NEW c \in Client,
         NEW n \in 1 .. Cardinality(Worker) + 1, JoinNext(c, n)
  PROVE  /\ client' \in [Client -> Clients]
         /\ client'[c].at = "join" /\ client'[c].job = client[c].job /\ client'[c].next = n
         /\ \A d \in Client : d # c => client'[d] = client[d]
<1>1. client' = [client EXCEPT ![c].at = "join", ![c].next = n]
  BY Zenon DEF JoinNext
<1>2. client[c] \in Clients
  OBVIOUS
<1>3. client' = [client EXCEPT ![c] = [client[c] EXCEPT !.at = "join", !.next = n]]
  BY <1>1, <1>2, Zenon DEF Clients
<1>4. PICK r : r = [client[c] EXCEPT !.at = "join", !.next = n]
  OBVIOUS
<1>5. r \in Clients /\ r.at = "join" /\ r.job = client[c].job /\ r.next = n
  BY <1>2, <1>4, Zenon DEF Clients
<1>6. client' = [client EXCEPT ![c] = r]
  BY <1>3, <1>4, Zenon
<1>7. QED
  BY <1>5, <1>6, Zenon

\* A worker moves.
LEMMA WorkMoves ==
  ASSUME work \in [Worker -> Work], NEW w \in Worker,
         NEW l \in {"setup", "take", "start", "run", "end", "failed"},
         NEW f \in Job \cup {NoJob}, WorkAt(w, l, f)
  PROVE  /\ work' \in [Worker -> Work]
         /\ work'[w].at = l /\ work'[w].job = f
         /\ \A v \in Worker : v # w => work'[v] = work[v]
<1>1. work' = [work EXCEPT ![w] = [at |-> l, job |-> f]]
  BY Zenon DEF WorkAt
<1>2. work' \in [Worker -> Work] /\ work'[w] = [at |-> l, job |-> f]
      /\ \A v \in Worker : v # w => work'[v] = work[v]
  BY <1>1, Zenon DEF Work
<1>3. QED
  BY <1>2

\* A future changes its state.
LEMMA FutureMoves ==
  ASSUME future \in [Job -> Futures], NEW f \in Job, NEW s \in States, NEW d \in BOOLEAN,
         Set(f, s, d)
  PROVE  /\ future' \in [Job -> Futures]
         /\ future'[f].state = s /\ future'[f].done = d
         /\ \A g \in Job : g # f => future'[g] = future[g]
<1>1. future' = [future EXCEPT ![f] = [state |-> s, done |-> d]]
  BY Zenon DEF Set
<1>2. future' \in [Job -> Futures] /\ future'[f] = [state |-> s, done |-> d]
      /\ \A g \in Job : g # f => future'[g] = future[g]
  BY <1>1, Zenon DEF Futures
<1>3. QED
  BY <1>2

\* A method of the queue moves its own thread, and a broadcast wakes the others.
LEMMA MethodMoves ==
  ASSUME Typed, NEW t \in Thread,
         \/ CallRunning(t) \/ Put(t) \/ Close(t) \/ Broadcast(t) \/ Return(t)
         \/ CallBlocking(t) \/ Acquire(t) \/ TakeHead(t) \/ ClosedPanic(t)
  PROVE  \A u \in Thread : u # t =>
           op'[u] = op[u] /\ (at'[u] = at[u] \/ (at[u] = "waiting" /\ at'[u] = "acquire"))
<1>t. at \in [Thread -> Ats] /\ op \in [Thread -> Ops]
  BY Zenon DEF Typed
<1>1. CASE Broadcast(t)
  BY <1>1, <1>t, Zenon DEF Broadcast
<1>2. ASSUME NEW l, NEW m, Enter(t, l, m) \/ At(t, l)
      PROVE  \A u \in Thread : u # t => op'[u] = op[u] /\ at'[u] = at[u]
  BY <1>2, <1>t, Zenon DEF Enter, At
<1>3. CASE CallRunning(t) \/ CallBlocking(t)
  BY <1>2, <1>3, Zenon DEF CallRunning, CallBlocking
<1>4. CASE Put(t) \/ Close(t) \/ Acquire(t)
  BY <1>2, <1>4, Zenon DEF Put, Close, Acquire
<1>5. CASE Return(t) \/ TakeHead(t) \/ ClosedPanic(t)
  BY <1>2, <1>5, Zenon DEF Return, TakeHead, ClosedPanic, Done
<1>6. QED
  BY <1>1, <1>3, <1>4, <1>5, Zenon

\* All that the pool does, with the clients' calls.
poolAll == <<allVars, handleVars, poolVars>>

\* Client c is in a join of thread t.
InCall(c, t) == joiner[c].at # "none" /\ joiner[c].of = t

\* The type of a join.
Joiner == [at : {"none", "mutex", "waiting", "join", "lock"}, of : Worker \cup {NoThread}]

\* What a step of client c alone does to the calls in progress.
LEMMA JoinerMoves ==
  ASSUME joiner \in [Client -> Joiner], NEW c \in Client,
         NEW l \in {"none", "mutex", "waiting", "join", "lock"},
         NEW t \in Worker \cup {NoThread}, JoinerAt(c, l, t)
  PROVE  /\ joiner' \in [Client -> Joiner]
         /\ joiner'[c].at = l /\ joiner'[c].of = t
         /\ \A d \in Client : d # c => joiner'[d] = joiner[d]
         /\ \A d \in Client, u \in Worker : d # c => (InCall(d, u)' <=> InCall(d, u))
         /\ \A u \in Worker : InCall(c, u)' <=> l # "none" /\ u = t
<1>1. joiner' = [joiner EXCEPT ![c] = [at |-> l, of |-> t]]
  BY Zenon DEF JoinerAt
<1>2. /\ joiner' \in [Client -> Joiner]
      /\ joiner'[c] = [at |-> l, of |-> t]
      /\ \A d \in Client : d # c => joiner'[d] = joiner[d]
  BY <1>1, Zenon DEF Joiner
<1>3. joiner'[c].at = l /\ joiner'[c].of = t
  BY <1>2
<1>4. QED
  BY <1>2, <1>3, Zenon DEF InCall

-----------------------------------------------------------------------------
(* Types *)

\* What a worker takes is the head of the queue, which is there.
LEMMA TakeFacts ==
  ASSUME Typed, TakeSeesItem, PoolTyped, Roles, NEW w \in Worker, Take(w)
  PROVE  /\ items # <<>> /\ Head(items) \in Job /\ Head(items) = items[1]
         /\ Tail(items) \in Seq(Job) /\ Len(Tail(items)) = Len(items) - 1
         /\ \A i \in 1 .. Len(Tail(items)) : Tail(items)[i] = items[i + 1]
         /\ count' = count - 1
<1>1. at[w] = "lockTy" /\ op[w] = "take"
  BY Zenon DEF Take, TakeHead, Roles, WorkerRole
<1>2. count > 0
  BY <1>1, HandleAssumption, Zenon DEF TakeSeesItem
<1>3. count' = count - 1
  BY <1>1, <1>2 DEF Take, TakeHead
<1>4. items \in Seq(Job) /\ Len(items) = count /\ count \in Nat
  BY Zenon DEF PoolTyped, Typed
<1>5. items # <<>>
  BY <1>2, <1>4
<1>6. QED
  BY <1>3, <1>4, <1>5

\* Each step keeps the types.
LEMMA PoolTypedStep ==
  ASSUME ThreadsListed, Typed, TakeSeesItem, PoolTyped, Roles, [PoolNext]_poolAll
  PROVE  PoolTyped'
<1>t. /\ items \in Seq(Job) /\ Len(items) = count /\ count \in Nat
      /\ future \in [Job -> Futures] /\ work \in [Worker -> Work]
      /\ client \in [Client -> Clients]
      /\ waited \in [Client -> SUBSET Job] /\ late \subseteq Job
  BY Zenon DEF PoolTyped, Typed
<1>1. CASE UNCHANGED poolAll
  BY <1>1, Zenon DEF poolAll, poolVars, allVars, queueVars, PoolTyped
<1>2. ASSUME NEW w \in Worker, WorkerStep(w) PROVE PoolTyped'
  <2>1. CASE TakeCall(w) \/ TakeWait(w) \/ WorkerExit(w)
    BY <2>1, Zenon
       DEF TakeCall, TakeWait, WorkerExit, CallBlocking, Acquire, poolVars, queueVars,
           PoolTyped
  <2>2. CASE Setup(w)
    <3>1. UNCHANGED <<items, future, client, waited, late, count>>
      BY <2>2, Zenon DEF Setup, allVars, queueVars
    <3>2. work' \in [Worker -> Work]
      BY <1>t, <2>2, WorkMoves, Zenon DEF Setup
    <3>3. QED
      BY <1>t, <3>1, <3>2, Zenon DEF PoolTyped
  <2>3. CASE Take(w)
    <3>1. UNCHANGED <<future, client, waited, late>> /\ items' = Tail(items)
      BY <2>3, Zenon DEF Take
    <3>2. work' \in [Worker -> Work]
      BY <1>t, <2>3, WorkMoves, TakeFacts, Zenon DEF Take
    <3>3. items' \in Seq(Job) /\ Len(items') = count'
      BY <1>t, <2>3, <3>1, TakeFacts, Zenon
    <3>4. QED
      BY <1>t, <3>1, <3>2, <3>3, Zenon DEF PoolTyped
  <2>4. CASE TakeClosed(w)
    <3>1. UNCHANGED <<items, future, client, waited, late, count>>
      BY <2>4, Zenon DEF TakeClosed, ClosedPanic
    <3>2. work' \in [Worker -> Work]
      BY <1>t, <2>4, WorkMoves, Zenon DEF TakeClosed
    <3>3. QED
      BY <1>t, <3>1, <3>2, Zenon DEF PoolTyped
  <2>5. CASE Start(w) \/ Settle(w)
    <3>1. UNCHANGED <<items, client, waited, late, count>>
      BY <2>5, Zenon DEF Start, Settle, allVars, queueVars
    <3>2. work[w].job \in Job /\ work[w].at \in {"start", "run"}
      BY <2>5, Zenon DEF Start, Settle, Roles, WorkerRole
    <3>3. work' \in [Worker -> Work]
      BY <1>t, <2>5, <3>2, WorkMoves, Zenon DEF Start, Settle
    <3>4. future' \in [Job -> Futures]
      BY <1>t, <2>5, <3>2, FutureMoves, Zenon DEF Start, Settle, States
    <3>5. QED
      BY <1>t, <3>1, <3>3, <3>4, Zenon DEF PoolTyped
  <2>6. QED
    BY <1>2, <2>1, <2>2, <2>3, <2>4, <2>5, Zenon DEF WorkerStep
<1>3. ASSUME NEW c \in Client, ClientStep(c) \/ ClientCall(c) PROVE PoolTyped'
  <2>1. CASE QueueBroadcast(c) \/ CloseQueue(c) \/ CloseJoin(c) \/ CloseOsJoin(c)
    BY <2>1, Zenon
       DEF QueueBroadcast, CloseQueue, CloseJoin, CloseOsJoin, Broadcast, Close, poolVars,
           queueVars, PoolTyped
  <2>2. CASE SubmitPut(c)
    <3>1. UNCHANGED <<future, work, client, waited>>
      BY <2>2, Zenon DEF SubmitPut
    <3>2. client[c].job \in Job
      BY <2>2, Zenon DEF SubmitPut, Put, Roles, ClientRole
    <3>3. items' \in Seq(Job) /\ Len(items') = count' /\ late' \subseteq Job
      BY <1>t, <2>2, <3>2 DEF SubmitPut, Put
    <3>4. QED
      BY <1>t, <3>1, <3>3, Zenon DEF PoolTyped
  <2>3. CASE SubmitReturn(c) \/ CloseThrows(c) \/ CloseEnds(c) \/ CloseCall(c)
    <3>1. UNCHANGED <<items, future, work, waited, late, count>>
      BY <2>3, Zenon
         DEF SubmitReturn, CloseThrows, CloseEnds, CloseCall, Return, CallRunning, allVars,
             queueVars
    <3>2. client' \in [Client -> Clients]
      BY <1>t, <2>3, ClientMoves, Zenon DEF SubmitReturn, CloseThrows, CloseEnds, CloseCall
    <3>3. QED
      BY <1>t, <3>1, <3>2, Zenon DEF PoolTyped
  <2>4. CASE WaitReturn(c)
    <3>1. UNCHANGED <<items, future, work, late, count>>
      BY <2>4, Zenon DEF WaitReturn, queueVars
    <3>2. client' \in [Client -> Clients]
      BY <1>t, <2>4, ClientMoves, Zenon DEF WaitReturn
    <3>3. client[c].job \in Job
      BY <2>4, Zenon DEF WaitReturn, Roles, ClientRole
    <3>4. waited' \in [Client -> SUBSET Job]
      BY <1>t, <2>4, <3>3, Zenon DEF WaitReturn
    <3>5. QED
      BY <1>t, <3>1, <3>2, <3>4, Zenon DEF PoolTyped
  <2>5. CASE CloseReturn(c)
    <3>1. UNCHANGED <<items, future, work, waited, late, count>>
      BY <2>5, Zenon DEF CloseReturn, Return
    <3>2. client' \in [Client -> Clients]
      BY <1>t, <2>5, NextMoves DEF CloseReturn, ThreadsListed
    <3>3. QED
      BY <1>t, <3>1, <3>2, Zenon DEF PoolTyped
  <2>6. CASE CloseJoined(c)
    <3>1. UNCHANGED <<items, future, work, waited, late, count>>
      BY <2>6, Zenon DEF CloseJoined, queueVars
    <3>2. client[c].next \in 1 .. Len(Threads)
      BY <2>6, Zenon DEF CloseJoined, JoinReturn, Roles, ClientRole
    <3>3. client[c].next + 1 \in 1 .. Cardinality(Worker) + 1
      BY <3>2 DEF ThreadsListed
    <3>4. client' \in [Client -> Clients]
      BY <1>t, <2>6, <3>3, NextMoves, Zenon DEF CloseJoined
    <3>5. QED
      BY <1>t, <3>1, <3>4, Zenon DEF PoolTyped
  <2>7. ASSUME NEW f \in Job, Submit(c, f) \/ Cancel(c, f) \/ WaitCall(c, f) PROVE PoolTyped'
    <3>1. UNCHANGED <<items, work, waited, late, count>>
      BY <2>7, Zenon DEF Submit, Cancel, WaitCall, CallRunning, allVars, queueVars
    <3>2. client' \in [Client -> Clients]
      BY <1>t, <2>7, ClientMoves, Zenon DEF Submit, Cancel, WaitCall
    <3>3. future' \in [Job -> Futures]
      BY <1>t, <2>7, FutureMoves, Zenon DEF Submit, Cancel, WaitCall, States
    <3>4. QED
      BY <1>t, <3>1, <3>2, <3>3, Zenon DEF PoolTyped
  <2>8. QED
    BY <1>3, <2>1, <2>2, <2>3, <2>4, <2>5, <2>6, <2>7, Zenon DEF ClientStep, ClientCall
<1>4. QED
  BY <1>1, <1>2, <1>3, Zenon DEF PoolNext

-----------------------------------------------------------------------------
(* Who is where *)

\* Thread u is where it was, or has been woken.
Still(u) == op'[u] = op[u] /\ (at'[u] = at[u] \/ (at[u] = "waiting" /\ at'[u] = "acquire"))

\* A worker's step leaves the other threads, and all joins, as they are.
LEMMA WorkerMoves ==
  ASSUME Typed, HandleTypeOK, PoolTyped, Roles, NEW w \in Worker, WorkerStep(w)
  PROVE  /\ \A u \in Thread : u # w => Still(u)
         /\ \A v \in Worker : v # w => work'[v] = work[v]
         /\ UNCHANGED <<client, joiner>>
<1>1. \A u \in Thread : u # w => Still(u)
  <2>1. CASE TakeCall(w) \/ TakeWait(w) \/ Take(w) \/ TakeClosed(w)
    BY <2>1, HandleAssumption, MethodMoves, Zenon
       DEF TakeCall, TakeWait, Take, TakeClosed, Still
  <2>2. CASE Setup(w) \/ Start(w) \/ Settle(w) \/ WorkerExit(w)
    BY <2>2, Zenon DEF Setup, Start, Settle, WorkerExit, allVars, queueVars, Still
  <2>3. QED
    BY <2>1, <2>2, Zenon DEF WorkerStep
<1>2. UNCHANGED joiner
  <2>1. CASE WorkerExit(w)
    <3>1. ~ \E c \in Client : joiner[c].at = "waiting"
      BY Zenon DEF Roles, ClientRole
    <3>2. QED
      BY <2>1, <3>1, Zenon
         DEF WorkerExit, Exit, NotAlive, SignalExit, ThreadEnds, Joining, handleVars
  <2>2. QED
    BY <2>1, Zenon
       DEF WorkerStep, Setup, TakeCall, TakeWait, Take, TakeClosed, Start, Settle, handleVars
<1>3. UNCHANGED client
  BY Zenon DEF WorkerStep, Setup, TakeCall, TakeWait, Take, TakeClosed, Start, Settle, WorkerExit,
         poolVars
<1>4. UNCHANGED work \/ \E l, f : WorkAt(w, l, f)
  BY Zenon DEF WorkerStep, Setup, TakeCall, TakeWait, Take, TakeClosed, Start, Settle, WorkerExit,
         poolVars
<1>5. \A v \in Worker : v # w => work'[v] = work[v]
  BY <1>4, Zenon DEF WorkAt, PoolTyped
<1>6. QED
  BY <1>1, <1>2, <1>3, <1>5, Zenon

\* A client's step leaves the other threads and their joins as they are.
LEMMA ClientMovesAlone ==
  ASSUME Typed, HandleTypeOK, PoolTyped, Roles, NEW c \in Client, ClientStep(c) \/ ClientCall(c)
  PROVE  /\ \A u \in Thread : u # c => Still(u)
         /\ \A d \in Client : d # c => client'[d] = client[d] /\ joiner'[d] = joiner[d]
         /\ UNCHANGED <<work, life>> /\ misused \subseteq misused'
<1>c. c \in Thread /\ DOMAIN client = Client /\ DOMAIN joiner = Client
  BY HandleAssumption, Zenon DEF PoolTyped, HandleTypeOK
<1>1. CASE \/ SubmitPut(c) \/ QueueBroadcast(c) \/ SubmitReturn(c) \/ CloseQueue(c)
           \/ CloseReturn(c) \/ CloseCall(c) \/ \E f \in Job : Submit(c, f)
  <2>1. \A u \in Thread : u # c => Still(u)
    BY <1>1, <1>c, MethodMoves, Zenon
       DEF SubmitPut, QueueBroadcast, SubmitReturn, CloseQueue, CloseReturn, CloseCall, Submit,
           Still
  <2>2. UNCHANGED <<work, handleVars>>
    BY <1>1, Zenon DEF SubmitPut, QueueBroadcast, SubmitReturn, CloseQueue, CloseReturn, CloseCall,
                Submit, poolVars
  <2>3. UNCHANGED client \/ (\E l, f : ClientAt(c, l, f)) \/ JoinNext(c, 1)
    BY <1>1, Zenon DEF SubmitPut, QueueBroadcast, SubmitReturn, CloseQueue, CloseReturn, CloseCall,
                Submit, poolVars
  <2>4. QED
    BY <1>c, <2>1, <2>2, <2>3, Zenon DEF ClientAt, JoinNext, handleVars
<1>2. CASE \/ CloseThrows(c) \/ CloseEnds(c) \/ WaitReturn(c)
           \/ \E f \in Job : Cancel(c, f) \/ WaitCall(c, f)
  <2>1. \A u \in Thread : u # c => Still(u)
    BY <1>2, Zenon DEF CloseThrows, CloseEnds, Cancel, WaitCall, WaitReturn, allVars, queueVars, Still
  <2>2. UNCHANGED <<work, handleVars>>
    BY <1>2, Zenon DEF CloseThrows, CloseEnds, Cancel, WaitCall, WaitReturn
  <2>3. UNCHANGED client \/ \E l, f : ClientAt(c, l, f)
    BY <1>2, Zenon DEF CloseThrows, CloseEnds, Cancel, WaitCall, WaitReturn
  <2>4. QED
    BY <1>c, <2>1, <2>2, <2>3, Zenon DEF ClientAt, handleVars
<1>3. CASE CloseJoin(c) \/ CloseOsJoin(c) \/ CloseJoined(c)
  <2>1. \A u \in Thread : u # c => Still(u)
    BY <1>3, Zenon DEF CloseJoin, CloseOsJoin, CloseJoined, queueVars, Still
  <2>2. UNCHANGED <<work, life>> /\ misused \subseteq misused'
    BY <1>3, Zenon
       DEF CloseJoin, CloseOsJoin, CloseJoined, JoinCall, OsJoin, JoinReturn, OsCall, poolVars
  <2>3. UNCHANGED client \/ \E n : JoinNext(c, n)
    BY <1>3, Zenon DEF CloseJoin, CloseOsJoin, CloseJoined, poolVars
  <2>4. \E l, t : JoinerAt(c, l, t)
    BY <1>3, Zenon DEF CloseJoin, CloseOsJoin, CloseJoined, JoinCall, OsJoin, JoinReturn
  <2>5. QED
    BY <1>c, <2>1, <2>2, <2>3, <2>4, Zenon DEF JoinNext, JoinerAt
<1>4. QED
  BY <1>1, <1>2, <1>3, Zenon DEF ClientStep, ClientCall

\* A thread that has not moved keeps its role.
LEMMA StillRoles ==
  ASSUME Roles
  PROVE  /\ \A v \in Worker : Still(v) /\ work'[v] = work[v] => WorkerRole(v)'
         /\ \A d \in Client : Still(d) /\ client'[d] = client[d] /\ joiner'[d] = joiner[d]
                                => ClientRole(d)'
<1>1. ASSUME NEW v \in Worker, Still(v), work'[v] = work[v] PROVE WorkerRole(v)'
  BY <1>1, Zenon DEF Roles, WorkerRole, Still
<1>2. ASSUME NEW d \in Client, Still(d), client'[d] = client[d], joiner'[d] = joiner[d]
      PROVE  ClientRole(d)'
  BY <1>2, Zenon DEF Roles, ClientRole, Still, Threads
<1>3. QED
  BY <1>1, <1>2, Zenon

\* Each step keeps the roles.
LEMMA RolesStep ==
  ASSUME ThreadsListed, Typed, TakeSeesItem, HandleTypeOK, PoolTyped, Roles, [PoolNext]_poolAll
  PROVE  Roles'
<1>t. /\ work \in [Worker -> Work] /\ client \in [Client -> Clients]
      /\ joiner \in [Client -> Joiner]
      /\ at \in [Thread -> Ats] /\ op \in [Thread -> Ops]
  BY Zenon DEF PoolTyped, HandleTypeOK, Joiner, Typed
<1>1. CASE UNCHANGED poolAll
  BY <1>1 DEF poolAll, poolVars, allVars, queueVars, handleVars, Roles, WorkerRole, ClientRole,
              Threads
<1>2. ASSUME NEW w \in Worker, WorkerStep(w) PROVE Roles'
  <2>0. /\ \A u \in Thread : u # w => Still(u)
        /\ \A v \in Worker : v # w => work'[v] = work[v]
        /\ UNCHANGED <<client, joiner>>
    BY <1>2, WorkerMoves, Zenon
  <2>r. WorkerRole(w) /\ w \in Thread /\ NoJob \notin Job
    BY HandleAssumption, PoolAssumption, Zenon DEF Roles
  <2>1. CASE TakeCall(w)
    <3>1. at'[w] = "acquire" /\ op'[w] = "take" /\ UNCHANGED work /\ work[w].at = "take"
      BY <1>t, <2>r, <2>1, Zenon DEF TakeCall, CallBlocking, Enter, poolVars
    <3>2. WorkerRole(w)'
      BY <2>r, <3>1, Zenon DEF WorkerRole
    <3>3. QED
      BY <2>0, <3>2, StillRoles, HandleAssumption, Zenon DEF Roles
  <2>2. CASE TakeWait(w)
    <3>1. /\ at[w] = "acquire" /\ at'[w] \in {"lockTy", "waiting", "closed"} /\ op'[w] = op[w]
          /\ UNCHANGED work
      BY <1>t, <2>r, <2>2, Zenon DEF TakeWait, Acquire, At, poolVars
    <3>2. WorkerRole(w)'
      BY <2>r, <3>1, Zenon DEF WorkerRole
    <3>3. QED
      BY <2>0, <3>2, StillRoles, HandleAssumption, Zenon DEF Roles
  <2>3. CASE Take(w) \/ TakeClosed(w)
    <3>1. at'[w] = "idle"
      BY <1>t, <2>r, <2>3, Zenon DEF Take, TakeHead, TakeClosed, ClosedPanic, Done, Enter
    <3>2. \/ work'[w].at = "start" /\ work'[w].job \in Job
          \/ work'[w].at = "end" /\ work'[w].job = NoJob
      BY <1>t, <2>3, TakeFacts, WorkMoves DEF Take, TakeClosed
    <3>3. WorkerRole(w)'
      BY <2>r, <3>1, <3>2, Zenon DEF WorkerRole
    <3>4. QED
      BY <2>0, <3>3, StillRoles, HandleAssumption, Zenon DEF Roles
  <2>4. CASE Setup(w) \/ Start(w) \/ Settle(w)
    <3>1. at' = at /\ at[w] = "idle"
      BY <2>4, <2>r, Zenon DEF Setup, Start, Settle, WorkerRole, allVars, queueVars
    <3>2. \/ work'[w].at \in {"take", "failed"} /\ work'[w].job = NoJob
          \/ work'[w].at = "run" /\ work'[w].job \in Job
      BY <1>t, <2>4, <2>r, WorkMoves, Zenon DEF Setup, Start, Settle, WorkerRole
    <3>3. WorkerRole(w)'
      BY <2>r, <3>1, <3>2, Zenon DEF WorkerRole
    <3>4. QED
      BY <2>0, <3>3, StillRoles, HandleAssumption, Zenon DEF Roles
  <2>5. CASE WorkerExit(w)
    <3>1. UNCHANGED <<at, op, work>>
      BY <2>5, Zenon DEF WorkerExit, queueVars, poolVars
    <3>2. WorkerRole(w)'
      BY <2>r, <3>1, Zenon DEF WorkerRole
    <3>3. QED
      BY <2>0, <3>2, StillRoles, HandleAssumption, Zenon DEF Roles
  <2>6. QED
    BY <1>2, <2>1, <2>2, <2>3, <2>4, <2>5, Zenon DEF WorkerStep
<1>3. ASSUME NEW c \in Client, ClientStep(c) \/ ClientCall(c) PROVE Roles'
  <2>0. /\ \A u \in Thread : u # c => Still(u)
        /\ \A d \in Client : d # c => client'[d] = client[d] /\ joiner'[d] = joiner[d]
        /\ UNCHANGED work
    BY <1>3, ClientMovesAlone, Zenon
  <2>r. ClientRole(c) /\ c \in Thread
    BY HandleAssumption, Zenon DEF Roles
  <2> SUFFICES ClientRole(c)'
    BY <2>0, StillRoles, HandleAssumption, Zenon DEF Roles
  <2>1. CASE SubmitPut(c) \/ QueueBroadcast(c) \/ CloseQueue(c)
    <3>1. /\ at[c] # "idle" /\ at'[c] \in {"broadcast", "return"} /\ op'[c] = op[c]
          /\ UNCHANGED <<client, joiner>>
      BY <1>t, <2>1, <2>r, Zenon
         DEF SubmitPut, QueueBroadcast, CloseQueue, Put, Broadcast, Close, At, poolVars,
             handleVars
    <3>2. QED
      BY <2>r, <3>1, Zenon DEF ClientRole, Threads
  <2>2. CASE SubmitReturn(c) \/ CloseReturn(c)
    <3>1. at'[c] = "idle" /\ UNCHANGED joiner /\ client[c].at \in {"submit", "close"}
      BY <1>t, <2>2, <2>r, Zenon
         DEF SubmitReturn, CloseReturn, Return, Done, Enter, handleVars
    <3>2. client'[c].at \in {"idle", "join"}
      BY <1>t, <2>2, ClientMoves, NextMoves DEF SubmitReturn, CloseReturn, ThreadsListed
    <3>3. joiner[c].at = "none"
      BY <2>r, <3>1, Zenon DEF ClientRole
    <3>4. QED
      BY <3>1, <3>2, <3>3, Zenon DEF ClientRole
  <2>3. CASE CloseCall(c) \/ \E f \in Job : Submit(c, f)
    <3>1. at'[c] = "mutex" /\ UNCHANGED joiner /\ client[c].at = "idle"
      BY <1>t, <2>3, <2>r, Zenon DEF CloseCall, Submit, CallRunning, Enter, handleVars
    <3>2. \/ client'[c].at = "submit" /\ client'[c].job \in Job /\ op'[c] = "put"
          \/ client'[c].at = "close" /\ op'[c] = "close"
      BY <1>t, <2>3, ClientMoves, Zenon DEF CloseCall, Submit
    <3>3. joiner[c].at = "none"
      BY <2>r, <3>1, Zenon DEF ClientRole
    <3>4. QED
      BY <3>1, <3>2, <3>3, Zenon DEF ClientRole
  <2>4. CASE \/ WaitReturn(c) \/ CloseThrows(c) \/ CloseEnds(c)
             \/ \E f \in Job : Cancel(c, f) \/ WaitCall(c, f)
    <3>1. /\ UNCHANGED <<at, joiner>> /\ client[c].at \in {"idle", "wait", "join"}
      BY <2>4, Zenon DEF WaitReturn, CloseThrows, CloseEnds, Cancel, WaitCall, allVars, queueVars,
                  handleVars
    <3>2. at[c] = "idle"
      BY <2>r, <3>1, Zenon DEF ClientRole
    <3>3. \/ client'[c].at \in {"idle", "threw", "closed"}
          \/ client'[c].at = "wait" /\ client'[c].job \in Job
      BY <1>t, <2>4, ClientMoves, Zenon DEF WaitReturn, CloseThrows, CloseEnds, Cancel, WaitCall
    <3>4. joiner[c].at = "none"
      <4>1. CASE client[c].at = "join"
        BY <2>4, <2>r, <4>1
           DEF ClientRole, WaitReturn, CloseThrows, CloseEnds, Cancel, WaitCall, ThreadsListed
      <4>2. QED
        BY <2>r, <3>1, <4>1, Zenon DEF ClientRole
    <3>5. QED
      BY <3>1, <3>2, <3>3, <3>4, Zenon DEF ClientRole
  <2>5. CASE CloseJoin(c)
    <3>1. UNCHANGED <<at, client>> /\ client[c].at = "join" /\ client[c].next \in 1 .. Len(Threads)
      BY <1>t, <2>5 DEF CloseJoin, queueVars, poolVars, Clients, ThreadsListed
    <3>2. Threads[client[c].next] \in Worker
      BY <3>1, Zenon DEF ThreadsListed
    <3>3. joiner'[c].at = "join" /\ joiner'[c].of = Threads[client[c].next]
      BY <1>t, <2>5, <3>2, JoinerMoves DEF CloseJoin, JoinCall
    <3>4. at[c] = "idle"
      BY <2>r, <3>1, Zenon DEF ClientRole
    <3>5. QED
      BY <3>1, <3>3, <3>4, Zenon DEF ClientRole, Threads
  <2>6. CASE CloseOsJoin(c)
    <3>1. UNCHANGED <<at, client>> /\ joiner[c].at = "join"
      BY <2>6, Zenon DEF CloseOsJoin, OsJoin, queueVars, poolVars
    <3>2. joiner[c].of \in Worker \cup {NoThread}
      BY <1>t, Zenon DEF Joiner
    <3>3. joiner'[c].at = "lock" /\ joiner'[c].of = joiner[c].of
      BY <1>t, <2>6, <3>2, JoinerMoves, Zenon DEF CloseOsJoin, OsJoin
    <3>4. at[c] = "idle"
      BY <2>r, <3>1, Zenon DEF ClientRole
    <3>5. QED
      BY <2>r, <3>1, <3>3, <3>4, Zenon DEF ClientRole, Threads
  <2>7. CASE CloseJoined(c)
    <3>1. UNCHANGED at /\ joiner[c].at = "lock"
      BY <2>7, Zenon DEF CloseJoined, JoinReturn, queueVars
    <3>2. joiner'[c].at = "none"
      BY <1>t, <2>7, JoinerMoves, Zenon DEF CloseJoined, JoinReturn
    <3>3. at[c] = "idle" /\ client[c].next + 1 \in 1 .. Cardinality(Worker) + 1
      BY <2>r, <3>1 DEF ClientRole, ThreadsListed
    <3>4. client'[c].at = "join"
      BY <1>t, <2>7, <3>3, NextMoves, Zenon DEF CloseJoined
    <3>5. QED
      BY <3>1, <3>2, <3>3, <3>4, Zenon DEF ClientRole
  <2>8. QED
    BY <1>3, <2>1, <2>2, <2>3, <2>4, <2>5, <2>6, <2>7, Zenon DEF ClientStep, ClientCall
<1>4. QED
  BY <1>1, <1>2, <1>3, Zenon DEF PoolNext

-----------------------------------------------------------------------------
(* Where the futures are *)

\* Whether an other client waits to put its future is not for a step to change.
LEMMA StillPending ==
  ASSUME NEW d \in Client, Still(d), client'[d] = client[d]
  PROVE  Pending(d)' <=> Pending(d)
BY Zenon DEF Still, Pending

\* A step that moves no future, except for one that a worker has done with.
LEMMA PlacesShrink ==
  ASSUME PoolTyped, Roles, Places, items' = items,
         \A w \in Worker : work'[w].job \in {work[w].job, NoJob},
         \A c \in Client : Pending(c)' => Pending(c) /\ client'[c].job = client[c].job
  PROVE  Places'
<1>1. NoJob \notin Job /\ \A i \in 1 .. Len(items) : items[i] \in Job
  BY PoolAssumption DEF PoolTyped
<1>2. \A c \in Client : Pending(c) => client[c].job \in Job
  BY Zenon DEF Pending, Roles, ClientRole
<1>3. \A i, j \in 1 .. Len(items') : items'[i] = items'[j] => i = j
  BY Zenon DEF Places
<1>4. \A i \in 1 .. Len(items'), w \in Worker : items'[i] # work'[w].job
  BY <1>1 DEF Places
<1>5. \A v, w \in Worker : work'[v].job \in Job /\ work'[v].job = work'[w].job => v = w
  BY <1>1 DEF Places
<1>6. ASSUME NEW c \in Client, Pending(c)'
      PROVE  /\ \A i \in 1 .. Len(items') : items'[i] # client'[c].job
             /\ \A w \in Worker : work'[w].job # client'[c].job
             /\ \A d \in Client : Pending(d)' /\ client'[d].job = client'[c].job => c = d
  BY <1>1, <1>2, <1>6 DEF Places
<1>7. QED
  BY <1>3, <1>4, <1>5, <1>6, Zenon DEF Places

\* Each step keeps the futures apart.
LEMMA PlacesStep ==
  ASSUME Typed, TakeSeesItem, HandleTypeOK, PoolTyped, Roles, Places, Progress, [PoolNext]_poolAll
  PROVE  Places'
<1>t. /\ work \in [Worker -> Work] /\ client \in [Client -> Clients] /\ items \in Seq(Job)
      /\ at \in [Thread -> Ats] /\ future \in [Job -> Futures] /\ NoJob \notin Job
      /\ \A i \in 1 .. Len(items) : items[i] \in Job
      /\ \A c \in Client : Pending(c) => client[c].job \in Job
  BY PoolAssumption DEF PoolTyped, Typed, Roles, ClientRole, Pending
<1>1. CASE UNCHANGED poolAll
  BY <1>1, Zenon DEF poolAll, poolVars, allVars, queueVars, Places, Pending
<1>2. ASSUME NEW w \in Worker, WorkerStep(w) PROVE Places'
  <2>0. /\ \A v \in Worker : v # w => work'[v] = work[v]
        /\ UNCHANGED client
        /\ \A c \in Client : Pending(c)' <=> Pending(c)
    BY <1>2, WorkerMoves, StillPending, HandleAssumption, Zenon
  <2>1. CASE Take(w)
    <3>1. /\ items' = Tail(items) /\ Len(items) > 0
          /\ Len(items') = Len(items) - 1
          /\ \A i \in 1 .. Len(items') : items'[i] = items[i + 1]
          /\ work'[w].job = items[1] /\ items[1] \in Job
      BY <1>t, <2>1, TakeFacts, WorkMoves DEF Take
    <3>2. \A i \in 1 .. Len(items') : i + 1 \in 1 .. Len(items) /\ i + 1 # 1
      BY <1>t, <3>1
    <3>3. 1 \in 1 .. Len(items)
      BY <1>t, <3>1
    <3>4. \A i, j \in 1 .. Len(items') : items'[i] = items'[j] => i = j
      <4>1. ASSUME NEW i \in 1 .. Len(items'), NEW j \in 1 .. Len(items'), items'[i] = items'[j]
            PROVE  i = j
        <5>1. i + 1 = j + 1
          BY <3>1, <3>2, <4>1 DEF Places
        <5>2. QED
          BY <5>1
      <4>2. QED
        BY <4>1, Zenon
    <3>5. \A i \in 1 .. Len(items'), v \in Worker : items'[i] # work'[v].job
      BY <2>0, <3>1, <3>2, <3>3 DEF Places
    <3>6. \A u, v \in Worker : work'[u].job \in Job /\ work'[u].job = work'[v].job => u = v
      BY <2>0, <3>1, <3>3 DEF Places
    <3>7. ASSUME NEW c \in Client, Pending(c)'
          PROVE  /\ \A i \in 1 .. Len(items') : items'[i] # client'[c].job
                 /\ \A v \in Worker : work'[v].job # client'[c].job
                 /\ \A d \in Client : Pending(d)' /\ client'[d].job = client'[c].job => c = d
      <4>1. Pending(c)
        BY <2>0, <3>7, Zenon
      <4>2. \A i \in 1 .. Len(items') : items'[i] # client'[c].job
        BY <2>0, <3>1, <3>2, <4>1 DEF Places
      <4>3. \A v \in Worker : work'[v].job # client'[c].job
        BY <2>0, <3>1, <3>3, <4>1 DEF Places
      <4>4. QED
        BY <2>0, <4>1, <4>2, <4>3, Zenon DEF Places
    <3>8. QED
      BY <3>4, <3>5, <3>6, <3>7, Zenon DEF Places
  <2>2. CASE TakeCall(w) \/ TakeWait(w) \/ WorkerExit(w)
    <3>1. items' = items /\ work' = work
      BY <2>2, Zenon DEF TakeCall, TakeWait, WorkerExit, poolVars
    <3>2. QED
      BY <2>0, <3>1, PlacesShrink, Zenon
  <2>3. CASE Setup(w) \/ TakeClosed(w) \/ Start(w) \/ Settle(w)
    <3>1. items' = items
      BY <2>3, Zenon DEF Setup, TakeClosed, Start, Settle
    <3>2. work[w].job \in Job \cup {NoJob}
      BY <1>t, Zenon DEF Work
    <3>3. work'[w].job \in {work[w].job, NoJob}
      BY <1>t, <2>3, <3>2, WorkMoves, Zenon DEF Setup, TakeClosed, Start, Settle
    <3>4. QED
      BY <2>0, <3>1, <3>3, PlacesShrink, Zenon
  <2>4. QED
    BY <1>2, <2>1, <2>2, <2>3, Zenon DEF WorkerStep
<1>3. ASSUME NEW c \in Client, ClientStep(c) \/ ClientCall(c) PROVE Places'
  <2>0. /\ \A d \in Client : d # c => client'[d] = client[d] /\ (Pending(d)' <=> Pending(d))
        /\ UNCHANGED work
    BY <1>3, ClientMovesAlone, StillPending, HandleAssumption, Zenon
  <2>c. c \in Thread
    BY HandleAssumption, Zenon
  <2>1. ASSUME NEW f \in Job, Submit(c, f) PROVE Places'
    <3>1. /\ items' = items /\ future[f].state = "none" /\ client'[c].job = f
          /\ ~ Pending(c)
      BY <1>t, <2>1, ClientMoves, Zenon DEF Submit, Pending
    <3>2. /\ \A i \in 1 .. Len(items) : items[i] # f
          /\ \A w \in Worker : work[w].job # f
          /\ \A d \in Client : Pending(d) => client[d].job # f
      BY <1>t, <3>1 DEF Progress
    <3>3. ASSUME NEW e \in Client, Pending(e)'
          PROVE  /\ \A i \in 1 .. Len(items) : items[i] # client'[e].job
                 /\ \A w \in Worker : work[w].job # client'[e].job
                 /\ \A d \in Client : Pending(d)' /\ client'[d].job = client'[e].job => e = d
      BY <2>0, <3>1, <3>2, <3>3 DEF Places
    <3>4. QED
      BY <2>0, <3>1, <3>3 DEF Places
  <2>2. CASE SubmitPut(c)
    <3>1. /\ Pending(c) /\ ~ Pending(c)' /\ UNCHANGED client
          /\ items' = Append(items, client[c].job)
      BY <1>t, <2>2, <2>c, Zenon DEF SubmitPut, Put, At, Pending, Roles, ClientRole
    <3>2. /\ Len(items') = Len(items) + 1 /\ Len(items) \in Nat
          /\ \A i \in 1 .. Len(items) : items'[i] = items[i]
          /\ items'[Len(items) + 1] = client[c].job
      BY <1>t, <3>1
    <3>3. \A i \in 1 .. Len(items') : i \in 1 .. Len(items) \/ i = Len(items) + 1
      BY <3>2
    <3>4. \A i, j \in 1 .. Len(items') : items'[i] = items'[j] => i = j
      BY <3>1, <3>2, <3>3 DEF Places
    <3>5. \A i \in 1 .. Len(items'), w \in Worker : items'[i] # work'[w].job
      BY <2>0, <3>1, <3>2, <3>3 DEF Places
    <3>6. ASSUME NEW e \in Client, Pending(e)'
          PROVE  /\ \A i \in 1 .. Len(items') : items'[i] # client'[e].job
                 /\ \A w \in Worker : work'[w].job # client'[e].job
                 /\ \A d \in Client : Pending(d)' /\ client'[d].job = client'[e].job => e = d
      <4>1. Pending(e) /\ e # c
        BY <2>0, <3>1, <3>6, Zenon
      <4>2. \A i \in 1 .. Len(items') : items'[i] # client'[e].job
        BY <3>1, <3>2, <3>3, <4>1 DEF Places
      <4>3. QED
        BY <2>0, <3>1, <4>1, <4>2, Zenon DEF Places
    <3>7. QED
      BY <2>0, <3>4, <3>5, <3>6, Zenon DEF Places
  <2>3. CASE \/ QueueBroadcast(c) \/ CloseQueue(c) \/ CloseJoin(c) \/ CloseOsJoin(c)
             \/ \E f \in Job : Cancel(c, f)
    <3>1. items' = items /\ UNCHANGED client
      BY <2>3, Zenon DEF QueueBroadcast, CloseQueue, CloseJoin, CloseOsJoin, Cancel, poolVars
    <3>2. Pending(c)' => Pending(c)
      BY <1>t, <2>3, <2>c, Zenon DEF QueueBroadcast, CloseQueue, CloseJoin, CloseOsJoin, Cancel, poolVars,
                Broadcast, Close, At, allVars, queueVars, Pending
    <3>3. QED
      BY <2>0, <3>1, <3>2, PlacesShrink, Zenon
  <2>4. CASE \/ SubmitReturn(c) \/ WaitReturn(c) \/ CloseReturn(c) \/ CloseJoined(c)
             \/ CloseThrows(c) \/ CloseEnds(c) \/ CloseCall(c)
             \/ \E f \in Job : WaitCall(c, f)
    <3>1. items' = items
      BY <2>4, Zenon
         DEF SubmitReturn, WaitReturn, CloseReturn, CloseJoined, CloseThrows, CloseEnds,
             CloseCall, WaitCall
    <3>2. client'[c].at # "submit"
      <4>1. CASE CloseReturn(c) \/ CloseJoined(c)
        BY <1>t, <4>1, Zenon DEF CloseReturn, CloseJoined, JoinNext, Clients
      <4>2. QED
        BY <1>t, <2>4, <4>1, ClientMoves, Zenon
           DEF SubmitReturn, WaitReturn, CloseThrows, CloseEnds, CloseCall, WaitCall
    <3>3. QED
      BY <2>0, <3>1, <3>2, PlacesShrink, Zenon DEF Pending
  <2>5. QED
    BY <1>3, <2>1, <2>2, <2>3, <2>4, Zenon DEF ClientStep, ClientCall
<1>4. QED
  BY <1>1, <1>2, <1>3, Zenon DEF PoolNext

\* A step that changes no future and moves none.
LEMMA ProgressSame ==
  ASSUME Progress, UNCHANGED <<items, future>>,
         \A w \in Worker : /\ work'[w].job = work[w].job
                           /\ work'[w].at = "run" <=> work[w].at = "run",
         \A c \in Client : /\ Pending(c)' <=> Pending(c)
                           /\ Pending(c) => client'[c].job = client[c].job
  PROVE  Progress'
<1>1. \A i \in 1 .. Len(items') : future'[items'[i]].state # "none"
  BY Zenon DEF Progress
<1>2. \A w \in Worker : /\ work'[w].job \in Job => future'[work'[w].job].state # "none"
                        /\ work'[w].at = "run" => future'[work'[w].job].state = "RUNNING"
  BY DEF Progress
<1>3. \A c \in Client : Pending(c)' => future'[client'[c].job].state # "none"
  BY DEF Progress
<1>4. \A f \in Job : future'[f].state = "RUNNING"
                       => \E w \in Worker : work'[w].at = "run" /\ work'[w].job = f
  BY DEF Progress
<1>5. \A f \in Job : future'[f].state = "CREATED" =>
        \/ \E c \in Client : Pending(c)' /\ client'[c].job = f
        \/ \E i \in 1 .. Len(items') : items'[i] = f
        \/ \E w \in Worker : work'[w].job = f
  BY DEF Progress
<1>6. QED
  BY <1>1, <1>2, <1>3, <1>4, <1>5, Zenon DEF Progress

\* A worker takes, starts and settles futures.
LEMMA WorkerProgress ==
  ASSUME Typed, TakeSeesItem, HandleTypeOK, PoolTyped, Roles, Places, Progress,
         NEW w \in Worker, WorkerStep(w)
  PROVE  Progress'
<1>t. /\ work \in [Worker -> Work] /\ client \in [Client -> Clients] /\ items \in Seq(Job)
      /\ future \in [Job -> Futures] /\ NoJob \notin Job
      /\ \A i \in 1 .. Len(items) : items[i] \in Job
      /\ \A c \in Client : Pending(c) => client[c].job \in Job
  BY PoolAssumption DEF PoolTyped, Roles, ClientRole, Pending
<1>0. /\ \A v \in Worker : v # w => work'[v] = work[v]
      /\ UNCHANGED client
      /\ \A c \in Client : Pending(c)' <=> Pending(c)
  BY WorkerMoves, StillPending, HandleAssumption, Zenon
<1>r. /\ \A v \in Worker : work[v].job \in Job <=> work[v].at \in {"start", "run"}
      /\ \A v \in Worker : work[v].job \in Job \cup {NoJob}
  BY <1>t, Zenon DEF Roles, WorkerRole, Work
<1>1. CASE TakeCall(w) \/ TakeWait(w) \/ WorkerExit(w)
  <2>1. UNCHANGED <<items, future, work>>
    BY <1>1, Zenon DEF TakeCall, TakeWait, WorkerExit, poolVars
  <2>2. QED
    BY <1>0, <2>1, ProgressSame, Zenon
<1>2. CASE Setup(w) \/ TakeClosed(w)
  <2>1. UNCHANGED <<items, future>>
    BY <1>2, Zenon DEF Setup, TakeClosed
  <2>2. work[w].at \in {"setup", "take"}
    BY <1>2, Zenon DEF Setup, TakeClosed, ClosedPanic, Roles, WorkerRole
  <2>3. work'[w].job = NoJob /\ work'[w].at # "run"
    BY <1>t, <1>2, WorkMoves, Zenon DEF Setup, TakeClosed
  <2>4. work[w].job = NoJob
    BY <1>r, <2>2, Zenon
  <2>5. QED
    BY <1>0, <2>1, <2>2, <2>3, <2>4, ProgressSame, Zenon
<1>3. CASE Take(w)
  <2>1. /\ items' = Tail(items) /\ Len(items) > 0 /\ Len(items) \in Nat
        /\ Len(items') = Len(items) - 1
        /\ \A i \in 1 .. Len(items') : items'[i] = items[i + 1]
        /\ work'[w].job = items[1] /\ items[1] \in Job /\ work'[w].at = "start"
        /\ UNCHANGED future
    BY <1>t, <1>3, TakeFacts, WorkMoves DEF Take
  <2>2. work[w].at = "take" /\ work[w].job = NoJob
    BY <1>3, <1>r, Zenon DEF Take, TakeHead, Roles, WorkerRole
  <2>3. \A i \in 1 .. Len(items) : i = 1 \/ (i - 1 \in 1 .. Len(items') /\ items'[i - 1] = items[i])
    BY <2>1
  <2>4. 1 \in 1 .. Len(items) /\ \A i \in 1 .. Len(items') : i + 1 \in 1 .. Len(items)
    BY <2>1
  <2>5. \A i \in 1 .. Len(items') : future'[items'[i]].state # "none"
    BY <2>1, <2>4 DEF Progress
  <2>6. \A v \in Worker : /\ work'[v].job \in Job => future'[work'[v].job].state # "none"
                          /\ work'[v].at = "run" => future'[work'[v].job].state = "RUNNING"
    BY <1>0, <2>1, <2>4 DEF Progress
  <2>7. \A c \in Client : Pending(c)' => future'[client'[c].job].state # "none"
    BY <1>0, <2>1, Zenon DEF Progress
  <2>8. \A f \in Job : future'[f].state = "RUNNING"
                         => \E v \in Worker : work'[v].at = "run" /\ work'[v].job = f
    BY <1>0, <2>1, <2>2 DEF Progress
  <2>9. ASSUME NEW f \in Job, future'[f].state = "CREATED"
        PROVE  \/ \E c \in Client : Pending(c)' /\ client'[c].job = f
               \/ \E i \in 1 .. Len(items') : items'[i] = f
               \/ \E v \in Worker : work'[v].job = f
    <3>1. CASE \E c \in Client : Pending(c) /\ client[c].job = f
      BY <1>0, <3>1, Zenon
    <3>2. CASE \E i \in 1 .. Len(items) : items[i] = f
      BY <2>1, <2>3, <3>2, Zenon
    <3>3. CASE \E v \in Worker : work[v].job = f
      BY <1>t, <1>0, <2>2, <3>3, Zenon
    <3>4. QED
      BY <2>1, <2>9, <3>1, <3>2, <3>3, Zenon DEF Progress
  <2>10. QED
    BY <2>5, <2>6, <2>7, <2>8, <2>9, Zenon DEF Progress
<1>4. CASE Start(w) \/ Settle(w)
  <2>1. PICK f \in Job : f = work[w].job
    BY <1>r, <1>4, Zenon DEF Start, Settle
  <2>2. /\ UNCHANGED items
        /\ \/ /\ work[w].at = "start" /\ future[f].state = "CREATED"
              /\ Set(f, "RUNNING", FALSE) /\ WorkAt(w, "run", f)
           \/ /\ work[w].at = "start" /\ future[f].state # "CREATED"
              /\ UNCHANGED future /\ WorkAt(w, "take", NoJob)
           \/ /\ work[w].at = "run" /\ WorkAt(w, "take", NoJob)
              /\ \E s \in {"COMPLETED", "ABORTED"} : Set(f, s, TRUE)
    BY <1>4, <2>1, Zenon DEF Start, Settle
  <2>3. /\ \A v \in Worker : v # w => work[v].job # f
        /\ \A i \in 1 .. Len(items) : items[i] # f
        /\ \A c \in Client : Pending(c) => client[c].job # f
    BY <2>1, Zenon DEF Places
  <2>4. future[f].state = "RUNNING" => work[w].at = "run"
    BY <2>1, <2>3, Zenon DEF Progress
  <2>5. /\ \A g \in Job : g # f => future'[g] = future[g]
        /\ future'[f].state # "none"
        /\ \/ /\ work'[w].at = "run" /\ work'[w].job = f /\ future'[f].state = "RUNNING"
           \/ /\ work'[w].at = "take" /\ work'[w].job = NoJob
              /\ future'[f].state \notin {"CREATED", "RUNNING"}
    <3>1. CASE work[w].at = "start" /\ future[f].state = "CREATED"
      BY <1>t, <2>2, <3>1, WorkMoves, FutureMoves, Zenon DEF States
    <3>2. CASE work[w].at = "start" /\ future[f].state # "CREATED"
      <4>1. UNCHANGED future /\ WorkAt(w, "take", NoJob)
        BY <2>2, <3>2, Zenon
      <4>2. future[f].state # "none"
        BY <2>1, Zenon DEF Progress
      <4>3. QED
        BY <1>t, <2>4, <3>2, <4>1, <4>2, WorkMoves, Zenon
    <3>3. CASE work[w].at = "run"
      <4>1. WorkAt(w, "take", NoJob) /\ \E s \in {"COMPLETED", "ABORTED"} : Set(f, s, TRUE)
        BY <2>2, <3>3, Zenon
      <4>2. QED
        BY <1>t, <4>1, WorkMoves, FutureMoves, Zenon DEF States
    <3>4. QED
      BY <2>2, <3>1, <3>2, <3>3, Zenon
  <2>6. \A i \in 1 .. Len(items') : future'[items'[i]].state # "none"
    BY <1>t, <2>2, <2>3, <2>5 DEF Progress
  <2>7. \A v \in Worker : /\ work'[v].job \in Job => future'[work'[v].job].state # "none"
                          /\ work'[v].at = "run" => future'[work'[v].job].state = "RUNNING"
    <3>1. ASSUME NEW v \in Worker, v # w, work[v].job \in Job
          PROVE  future'[work[v].job] = future[work[v].job]
      BY <2>3, <2>5, <3>1, Zenon
    <3>2. \A v \in Worker : work[v].at = "run" => work[v].job \in Job
      BY <1>r, Zenon
    <3>3. QED
      BY <1>t, <1>0, <2>5, <3>1, <3>2 DEF Progress
  <2>8. \A c \in Client : Pending(c)' => future'[client'[c].job].state # "none"
    BY <1>t, <1>0, <2>3, <2>5 DEF Progress
  <2>9. \A g \in Job : future'[g].state = "RUNNING"
                         => \E v \in Worker : work'[v].at = "run" /\ work'[v].job = g
    <3>1. ASSUME NEW g \in Job, g # f, future'[g].state = "RUNNING"
          PROVE  \E v \in Worker : work'[v].at = "run" /\ work'[v].job = g
      <4>1. PICK v \in Worker : work[v].at = "run" /\ work[v].job = g
        BY <2>5, <3>1, Zenon DEF Progress
      <4>2. QED
        BY <1>0, <2>1, <3>1, <4>1, Zenon
    <3>2. QED
      BY <2>5, <3>1, Zenon
  <2>10. ASSUME NEW g \in Job, future'[g].state = "CREATED"
         PROVE  \/ \E c \in Client : Pending(c)' /\ client'[c].job = g
                \/ \E i \in 1 .. Len(items') : items'[i] = g
                \/ \E v \in Worker : work'[v].job = g
    <3>1. g # f /\ future[g].state = "CREATED"
      BY <2>5, <2>10, Zenon
    <3>2. CASE \E v \in Worker : work[v].job = g
      BY <1>0, <2>1, <3>1, <3>2, Zenon
    <3>3. QED
      BY <1>0, <2>2, <3>1, <3>2, Zenon DEF Progress
  <2>11. QED
    BY <2>6, <2>7, <2>8, <2>9, <2>10, Zenon DEF Progress
<1>5. QED
  BY <1>1, <1>2, <1>3, <1>4, Zenon DEF WorkerStep

\* A client creates, puts and cancels futures.
LEMMA ClientProgress ==
  ASSUME Typed, TakeSeesItem, HandleTypeOK, PoolTyped, Roles, Places, Progress,
         NEW c \in Client, ClientStep(c) \/ ClientCall(c)
  PROVE  Progress'
<1>t. /\ work \in [Worker -> Work] /\ client \in [Client -> Clients] /\ items \in Seq(Job)
      /\ future \in [Job -> Futures] /\ at \in [Thread -> Ats] /\ NoJob \notin Job
      /\ \A i \in 1 .. Len(items) : items[i] \in Job
      /\ \A d \in Client : Pending(d) => client[d].job \in Job
      /\ \A w \in Worker : work[w].at = "run" => work[w].job \in Job
  BY PoolAssumption DEF PoolTyped, Typed, Roles, ClientRole, WorkerRole, Pending
<1>0. /\ \A d \in Client : d # c => client'[d] = client[d] /\ (Pending(d)' <=> Pending(d))
      /\ UNCHANGED work
  BY ClientMovesAlone, StillPending, HandleAssumption, Zenon
<1>c. c \in Thread
  BY HandleAssumption, Zenon
<1>1. ASSUME NEW f \in Job, Submit(c, f) PROVE Progress'
  <2>1. /\ items' = items /\ future[f].state = "none" /\ client'[c].job = f
        /\ client'[c].at = "submit" /\ ~ Pending(c) /\ at'[c] = "mutex"
        /\ future'[f].state = "CREATED" /\ \A g \in Job : g # f => future'[g] = future[g]
    <3>1. items' = items /\ future[f].state = "none" /\ client[c].at = "idle"
      BY <1>1, Zenon DEF Submit
    <3>2. client'[c].job = f /\ client'[c].at = "submit"
      BY <1>t, <1>1, ClientMoves, Zenon DEF Submit
    <3>3. at'[c] = "mutex"
      BY <1>t, <1>c, <1>1, Zenon DEF Submit, CallRunning, Enter
    <3>4. future'[f].state = "CREATED" /\ \A g \in Job : g # f => future'[g] = future[g]
      BY <1>t, <1>1, FutureMoves, Zenon DEF Submit, States
    <3>5. QED
      BY <3>1, <3>2, <3>3, <3>4, Zenon DEF Pending
  <2>2. Pending(c)'
    BY <2>1, Zenon DEF Pending
  <2>3. /\ \A i \in 1 .. Len(items') : future'[items'[i]].state # "none"
        /\ \A w \in Worker : work'[w].job \in Job => future'[work'[w].job].state # "none"
        /\ \A d \in Client : Pending(d)' => future'[client'[d].job].state # "none"
    BY <1>t, <1>0, <2>1 DEF Progress
  <2>4. \A w \in Worker : work'[w].at = "run" => future'[work'[w].job].state = "RUNNING"
    BY <1>t, <1>0, <2>1 DEF Progress
  <2>5. \A g \in Job : future'[g].state = "RUNNING"
                         => \E w \in Worker : work'[w].at = "run" /\ work'[w].job = g
    BY <1>0, <2>1 DEF Progress
  <2>6. ASSUME NEW g \in Job, future'[g].state = "CREATED"
        PROVE  \/ \E d \in Client : Pending(d)' /\ client'[d].job = g
               \/ \E i \in 1 .. Len(items') : items'[i] = g
               \/ \E w \in Worker : work'[w].job = g
    <3>1. CASE g = f
      BY <2>1, <2>2, <3>1, Zenon
    <3>2. CASE g # f
      BY <1>0, <2>1, <2>6, <3>2 DEF Progress
    <3>3. QED
      BY <3>1, <3>2, Zenon
  <2>7. QED
    BY <2>3, <2>4, <2>5, <2>6, Zenon DEF Progress
<1>2. CASE SubmitPut(c)
  <2>1. /\ Pending(c) /\ ~ Pending(c)' /\ UNCHANGED <<client, future>>
        /\ items' = Append(items, client[c].job)
    BY <1>t, <1>2, <1>c, Zenon DEF SubmitPut, Put, At, Pending, Roles, ClientRole
  <2>2. /\ Len(items') = Len(items) + 1 /\ Len(items) \in Nat
        /\ \A i \in 1 .. Len(items) : items'[i] = items[i]
        /\ items'[Len(items) + 1] = client[c].job
    BY <1>t, <2>1
  <2>3. \A i \in 1 .. Len(items') : i \in 1 .. Len(items) \/ i = Len(items) + 1
    BY <2>2
  <2>4. /\ \A i \in 1 .. Len(items') : future'[items'[i]].state # "none"
        /\ \A w \in Worker : work'[w].job \in Job => future'[work'[w].job].state # "none"
        /\ \A d \in Client : Pending(d)' => future'[client'[d].job].state # "none"
    BY <1>0, <2>1, <2>2, <2>3 DEF Progress
  <2>5. /\ \A w \in Worker : work'[w].at = "run" => future'[work'[w].job].state = "RUNNING"
        /\ \A g \in Job : future'[g].state = "RUNNING"
                            => \E w \in Worker : work'[w].at = "run" /\ work'[w].job = g
    BY <1>0, <2>1, Zenon DEF Progress
  <2>6. ASSUME NEW g \in Job, future'[g].state = "CREATED"
        PROVE  \/ \E d \in Client : Pending(d)' /\ client'[d].job = g
               \/ \E i \in 1 .. Len(items') : items'[i] = g
               \/ \E w \in Worker : work'[w].job = g
    <3>1. Len(items) + 1 \in 1 .. Len(items') /\ 1 .. Len(items) \subseteq 1 .. Len(items')
      BY <2>2
    <3>2. CASE \E d \in Client : Pending(d) /\ client[d].job = g
      BY <1>0, <2>1, <2>2, <3>1, <3>2, Zenon
    <3>3. CASE \E i \in 1 .. Len(items) : items[i] = g
      BY <2>2, <3>1, <3>3, Zenon
    <3>4. QED
      BY <1>0, <2>1, <2>6, <3>2, <3>3, Zenon DEF Progress
  <2>7. QED
    BY <2>4, <2>5, <2>6, Zenon DEF Progress
<1>3. ASSUME NEW f \in Job, Cancel(c, f) PROVE Progress'
  <2>1. /\ UNCHANGED <<items, client, at>> /\ future[f].state = "CREATED"
        /\ future'[f].state = "CANCELED" /\ \A g \in Job : g # f => future'[g] = future[g]
    BY <1>t, <1>3, FutureMoves, Zenon DEF Cancel, States, allVars, queueVars
  <2>2. \A d \in Client : Pending(d)' <=> Pending(d)
    BY <2>1, Zenon DEF Pending
  <2>3. /\ \A i \in 1 .. Len(items') : future'[items'[i]].state # "none"
        /\ \A w \in Worker : work'[w].job \in Job => future'[work'[w].job].state # "none"
        /\ \A d \in Client : Pending(d)' => future'[client'[d].job].state # "none"
    BY <1>t, <1>0, <2>1, <2>2 DEF Progress
  <2>4. /\ \A w \in Worker : work'[w].at = "run" => future'[work'[w].job].state = "RUNNING"
        /\ \A g \in Job : future'[g].state = "RUNNING"
                            => \E w \in Worker : work'[w].at = "run" /\ work'[w].job = g
    BY <1>t, <1>0, <2>1 DEF Progress
  <2>5. ASSUME NEW g \in Job, future'[g].state = "CREATED"
        PROVE  \/ \E d \in Client : Pending(d)' /\ client'[d].job = g
               \/ \E i \in 1 .. Len(items') : items'[i] = g
               \/ \E w \in Worker : work'[w].job = g
    BY <1>0, <2>1, <2>2, <2>5 DEF Progress
  <2>6. QED
    BY <2>3, <2>4, <2>5, Zenon DEF Progress
<1>4. CASE \/ QueueBroadcast(c) \/ CloseQueue(c) \/ CloseJoin(c) \/ CloseOsJoin(c)
  <2>1. UNCHANGED <<items, future, client>>
    BY <1>4, Zenon DEF QueueBroadcast, CloseQueue, CloseJoin, CloseOsJoin, poolVars
  <2>2. Pending(c)' <=> Pending(c)
    <3>1. CASE QueueBroadcast(c)
      BY <1>t, <1>c, <2>1, <3>1, Zenon DEF QueueBroadcast, Broadcast, Pending
    <3>2. CASE CloseQueue(c)
      BY <1>t, <1>c, <2>1, <3>2, Zenon DEF CloseQueue, Close, At, Pending, Roles, ClientRole
    <3>3. CASE CloseJoin(c) \/ CloseOsJoin(c)
      BY <2>1, <3>3, Zenon DEF CloseJoin, CloseOsJoin, queueVars, Pending
    <3>4. QED
      BY <1>4, <3>1, <3>2, <3>3, Zenon
  <2>3. QED
    BY <1>0, <2>1, <2>2, ProgressSame, Zenon
<1>5. CASE \/ SubmitReturn(c) \/ WaitReturn(c) \/ CloseReturn(c) \/ CloseJoined(c)
           \/ CloseThrows(c) \/ CloseEnds(c) \/ CloseCall(c)
           \/ \E f \in Job : WaitCall(c, f)
  <2>1. UNCHANGED <<items, future>>
    BY <1>5, Zenon
       DEF SubmitReturn, WaitReturn, CloseReturn, CloseJoined, CloseThrows, CloseEnds,
           CloseCall, WaitCall
  <2>2. client'[c].at # "submit"
    <3>1. CASE CloseReturn(c) \/ CloseJoined(c)
      BY <1>t, <3>1 DEF CloseReturn, CloseJoined, JoinNext, Clients
    <3>2. QED
      BY <1>t, <1>5, <3>1, ClientMoves, Zenon DEF SubmitReturn, WaitReturn, CloseThrows, CloseEnds,
                                           CloseCall, WaitCall
  <2>3. ~ Pending(c)
    BY <1>5, Zenon
       DEF SubmitReturn, WaitReturn, CloseReturn, CloseJoined, CloseThrows, CloseEnds,
           CloseCall, WaitCall, Return, JoinReturn, Pending, Roles, ClientRole
  <2>4. QED
    BY <1>0, <2>1, <2>2, <2>3, ProgressSame, Zenon DEF Pending
<1>6. QED
  BY <1>1, <1>2, <1>3, <1>4, <1>5, Zenon DEF ClientStep, ClientCall

-----------------------------------------------------------------------------
(* The end *)

\* A worker gives up only on an empty queue that is closed, and a closed queue
\* gets only late futures.
LEMMA DrainedStep ==
  ASSUME Typed, TakeSeesItem, HandleTypeOK, PoolTyped, Roles, Drained, [PoolNext]_poolAll
  PROVE  Drained'
<1>t. /\ work \in [Worker -> Work] /\ client \in [Client -> Clients] /\ items \in Seq(Job)
      /\ at \in [Thread -> Ats] /\ Len(items) = count /\ open \in BOOLEAN
  BY Zenon DEF PoolTyped, Typed
<1>1. CASE UNCHANGED poolAll
  BY <1>1, Zenon DEF poolAll, poolVars, allVars, queueVars, Drained
<1>2. ASSUME NEW w \in Worker, WorkerStep(w) PROVE Drained'
  <2>0. /\ \A v \in Worker : v # w => /\ work'[v] = work[v]
                                      /\ at'[v] = "closed" <=> at[v] = "closed"
    BY <1>2, WorkerMoves, HandleAssumption, Zenon DEF Still
  <2>1. UNCHANGED <<open, late>>
    BY <1>2, Zenon DEF WorkerStep, Setup, TakeCall, TakeWait, Take, TakeClosed, Start, Settle, WorkerExit,
                CallBlocking, Acquire, TakeHead, ClosedPanic, poolVars, allVars, queueVars
  <2>2. CASE Take(w)
    <3>1. /\ \A i \in 1 .. Len(items') : i + 1 \in 1 .. Len(items) /\ items'[i] = items[i + 1]
      BY <1>t, <2>2, TakeFacts DEF Take
    <3>2. work'[w].at # "end"
      BY <1>t, <2>2, TakeFacts, WorkMoves, Zenon DEF Take
    <3>3. at'[w] # "closed"
      BY <1>t, <2>2, HandleAssumption, Zenon DEF Take, TakeHead, Done, Enter
    <3>4. QED
      BY <2>0, <2>1, <3>1, <3>2, <3>3, Zenon DEF Drained
  <2>3. CASE TakeWait(w)
    <3>1. UNCHANGED <<items, work>>
      BY <2>3, Zenon DEF TakeWait, poolVars
    <3>2. at'[w] = "closed" => ~ open /\ Len(items) = 0
      BY <1>t, <2>3, HandleAssumption, Zenon DEF TakeWait, Acquire, At
    <3>3. CASE at'[w] = "closed"
      BY <1>t, <2>1, <3>1, <3>2, <3>3 DEF Drained
    <3>4. CASE at'[w] # "closed"
      BY <2>0, <2>1, <3>1, <3>4, Zenon DEF Drained
    <3>5. QED
      BY <3>3, <3>4, Zenon
  <2>4. CASE TakeClosed(w)
    <3>1. UNCHANGED items /\ at[w] = "closed"
      BY <2>4, Zenon DEF TakeClosed, ClosedPanic
    <3>2. QED
      BY <2>1, <3>1, Zenon DEF Drained
  <2>5. CASE Setup(w) \/ Start(w) \/ Settle(w)
    <3>1. UNCHANGED <<items, at>>
      BY <2>5, Zenon DEF Setup, Start, Settle, allVars, queueVars
    <3>2. work[w].job \in Job \cup {NoJob}
      BY <1>t, Zenon DEF Work
    <3>3. work'[w].at # "end"
      BY <1>t, <2>5, <3>2, WorkMoves, Zenon DEF Setup, Start, Settle
    <3>4. QED
      BY <2>0, <2>1, <3>1, <3>3, Zenon DEF Drained
  <2>6. CASE TakeCall(w) \/ WorkerExit(w)
    <3>1. UNCHANGED <<items, work>>
      BY <2>6, Zenon DEF TakeCall, WorkerExit, poolVars
    <3>2. at'[w] = "closed" => at[w] = "closed"
      BY <1>t, <2>6, HandleAssumption, Zenon
         DEF TakeCall, CallBlocking, Enter, WorkerExit, queueVars
    <3>3. QED
      BY <2>0, <2>1, <3>1, <3>2, Zenon DEF Drained
  <2>7. QED
    BY <1>2, <2>2, <2>3, <2>4, <2>5, <2>6, Zenon DEF WorkerStep
<1>3. ASSUME NEW c \in Client, ClientStep(c) \/ ClientCall(c) PROVE Drained'
  <2>0. UNCHANGED work /\ \A w \in Worker : at'[w] = "closed" <=> at[w] = "closed"
    BY <1>3, ClientMovesAlone, HandleAssumption, Zenon DEF Still
  <2>1. CASE SubmitPut(c)
    <3>1. /\ UNCHANGED open /\ items' = Append(items, client[c].job)
          /\ late' = IF open THEN late ELSE late \cup {client[c].job}
          /\ client[c].job \in Job
      BY <2>1, Zenon DEF SubmitPut, Put, Roles, ClientRole
    <3>2. \A i \in 1 .. Len(items') : \/ i \in 1 .. Len(items) /\ items'[i] = items[i]
                                      \/ items'[i] = client[c].job
      BY <1>t, <3>1
    <3>3. QED
      BY <2>0, <3>1, <3>2, Zenon DEF Drained
  <2>2. CASE CloseQueue(c)
    <3>1. UNCHANGED <<items, late>> /\ open' = FALSE
      BY <2>2, Zenon DEF CloseQueue, Close, poolVars
    <3>2. QED
      BY <2>0, <3>1, Zenon DEF Drained
  <2>3. CASE ~ SubmitPut(c) /\ ~ CloseQueue(c)
    <3>1. UNCHANGED <<items, late, open>>
      BY <1>3, <2>3, Zenon
         DEF ClientStep, ClientCall, QueueBroadcast, SubmitReturn, WaitReturn, CloseReturn,
             CloseJoin, CloseOsJoin, CloseJoined, CloseThrows, CloseEnds, CloseCall, Submit,
             Cancel, WaitCall, Broadcast, Return, CallRunning, poolVars, allVars, queueVars
    <3>2. QED
      BY <2>0, <3>1, Zenon DEF Drained
  <2>4. QED
    BY <2>1, <2>2, <2>3, Zenon
<1>4. QED
  BY <1>1, <1>2, <1>3, Zenon DEF PoolNext

\* A join returns at the end of its worker, which is for good.
LEMMA JoinedStep ==
  ASSUME ThreadsListed, Typed, TakeSeesItem, HandleTypeOK, PoolTyped, Roles, Joined, [PoolNext]_poolAll
  PROVE  Joined'
<1>t. /\ client \in [Client -> Clients] /\ joiner \in [Client -> Joiner]
      /\ life \in [Worker -> {"runs", "dead", "signalled", "ended"}]
  BY Zenon DEF PoolTyped, HandleTypeOK, Joiner
<1>j. \A c \in Client : joiner[c].at # "none" => joiner[c].of \in Worker
  BY Zenon DEF Roles, ClientRole, ThreadsListed
<1>1. CASE UNCHANGED poolAll
  BY <1>1, Zenon DEF poolAll, poolVars, handleVars, Joined, Ended, Threads
<1>2. ASSUME NEW w \in Worker, WorkerStep(w) PROVE Joined'
  <2>1. UNCHANGED <<client, joiner>>
    BY <1>2, WorkerMoves, Zenon
  <2>2. \A v \in Worker : Ended(v) => Ended(v)'
    <3>1. CASE WorkerExit(w)
      BY <1>t, <3>1, Zenon
         DEF WorkerExit, Exit, NotAlive, SignalExit, ThreadEnds, handleVars, Ended
    <3>2. QED
      BY <1>2, <3>1, Zenon DEF WorkerStep, Setup, TakeCall, TakeWait, Take, TakeClosed, Start, Settle,
                        handleVars, Ended
  <2>3. QED
    BY <1>t, <1>j, <2>1, <2>2, Zenon DEF Joined, Threads, ThreadsListed
<1>3. ASSUME NEW c \in Client, ClientStep(c) \/ ClientCall(c) PROVE Joined'
  <2> DEFINE J(d) == /\ joiner[d].at = "lock" => Ended(joiner[d].of)
                     /\ client[d].at \in {"join", "closed"}
                          => \A n \in 1 .. Len(Threads) : n < client[d].next => Ended(Threads[n])
                     /\ client[d].at = "closed" => client[d].next = Len(Threads) + 1
  <2>0. /\ \A d \in Client : d # c => client'[d] = client[d] /\ joiner'[d] = joiner[d]
        /\ \A v \in Worker : Ended(v) => Ended(v)'
    BY <1>3, ClientMovesAlone, Zenon DEF Ended
  <2>a. Threads' = Threads /\ J(c) /\ Threads \in [1 .. Len(Threads) -> Worker]
    BY Zenon DEF Threads, Joined, ThreadsListed
  <2>1. \A d \in Client : d # c => J(d)'
    BY <1>t, <1>j, <2>0, <2>a, Zenon DEF Joined
  <2> SUFFICES J(c)'
    BY <2>1, Zenon DEF Joined
  <2>2. CASE \/ SubmitPut(c) \/ QueueBroadcast(c) \/ CloseQueue(c) \/ \E f \in Job : Cancel(c, f)
    <3>1. UNCHANGED <<client, joiner>>
      BY <2>2, Zenon DEF SubmitPut, QueueBroadcast, CloseQueue, Cancel, poolVars, handleVars
    <3>2. QED
      BY <1>t, <1>j, <2>0, <2>a, <3>1, Zenon
  <2>3. CASE \/ SubmitReturn(c) \/ WaitReturn(c) \/ CloseThrows(c) \/ CloseCall(c)
             \/ \E f \in Job : Submit(c, f) \/ WaitCall(c, f)
    <3>1. UNCHANGED joiner
      BY <2>3, Zenon DEF SubmitReturn, WaitReturn, CloseThrows, CloseCall, Submit, WaitCall, handleVars
    <3>2. client'[c].at \notin {"join", "closed"}
      BY <1>t, <2>3, ClientMoves, Zenon DEF SubmitReturn, WaitReturn, CloseThrows, CloseCall, Submit,
                                     WaitCall
    <3>3. QED
      BY <1>t, <1>j, <2>0, <2>a, <3>1, <3>2, Zenon
  <2>4. CASE CloseReturn(c)
    <3>1. UNCHANGED joiner
      BY <2>4, Zenon DEF CloseReturn, handleVars
    <3>2. client'[c].at = "join" /\ client'[c].next = 1
      BY <1>t, <2>4, NextMoves DEF CloseReturn, ThreadsListed
    <3>3. QED
      BY <1>t, <1>j, <2>0, <2>a, <3>1, <3>2
  <2>5. CASE CloseJoin(c)
    <3>1. UNCHANGED client
      BY <2>5, Zenon DEF CloseJoin, poolVars
    <3>2. client[c].next \in 1 .. Len(Threads)
      <4>1. client[c].next \in 1 .. Cardinality(Worker) + 1 /\ client[c].next <= Len(Threads)
        BY <1>t, <2>5, Zenon DEF CloseJoin, Clients
      <4>2. QED
        BY <4>1 DEF ThreadsListed
    <3>3. joiner'[c].at = "join"
      BY <1>t, <2>5, <2>a, <3>2, JoinerMoves DEF CloseJoin, JoinCall
    <3>4. QED
      BY <1>t, <1>j, <2>0, <2>a, <3>1, <3>3, Zenon
  <2>6. CASE CloseOsJoin(c)
    <3>1. /\ UNCHANGED client /\ joiner[c].at = "join"
          /\ life[joiner[c].of] = "ended" \/ joiner[c].of \in misused
      BY <2>6, Zenon DEF CloseOsJoin, OsJoin, poolVars
    <3>2. PICK t \in Worker : t = joiner[c].of
      BY <1>j, <3>1, Zenon
    <3>3. joiner'[c].of = t /\ Ended(t)'
      <4>1. JoinerAt(c, "lock", t)
        BY <2>6, <3>2, Zenon DEF CloseOsJoin, OsJoin
      <4>2. Ended(t)
        BY <3>1, <3>2, Zenon DEF Ended
      <4>3. QED
        BY <1>t, <2>0, <4>1, <4>2, JoinerMoves, Zenon
    <3>4. QED
      BY <2>0, <2>a, <3>1, <3>2, <3>3, Zenon
  <2>7. CASE CloseJoined(c)
    <3>1. /\ joiner[c].at = "lock" /\ client[c].at = "join" /\ client[c].next \in 1 .. Len(Threads)
          /\ joiner[c].of = Threads[client[c].next]
      BY <2>7, Zenon DEF CloseJoined, JoinReturn, Roles, ClientRole
    <3>2. client'[c].at = "join" /\ client'[c].next = client[c].next + 1
      <4>1. client[c].next + 1 \in 1 .. Cardinality(Worker) + 1
        BY <3>1 DEF ThreadsListed
      <4>2. JoinNext(c, client[c].next + 1)
        BY <2>7, Zenon DEF CloseJoined
      <4>3. QED
        BY <1>t, <4>1, <4>2, NextMoves, Zenon
    <3>3. joiner'[c].at = "none"
      BY <1>t, <2>7, JoinerMoves, Zenon DEF CloseJoined, JoinReturn
    <3>4. ASSUME NEW n \in 1 .. Len(Threads), n < client[c].next + 1 PROVE Ended(Threads[n])'
      <4>1. CASE n < client[c].next
        BY <2>0, <2>a, <3>1, <4>1, Zenon
      <4>2. CASE n = client[c].next
        BY <2>0, <2>a, <3>1, <4>2, Zenon
      <4>3. QED
        BY <3>1, <3>4, <4>1, <4>2
    <3>5. QED
      BY <2>a, <3>2, <3>3, <3>4, Zenon
  <2>8. CASE CloseEnds(c)
    <3>1. UNCHANGED joiner /\ client[c].at = "join" /\ client[c].next = Len(Threads) + 1
      BY <2>8, Zenon DEF CloseEnds, handleVars
    <3>2. client'[c].at = "closed" /\ client'[c].next = client[c].next
      BY <1>t, <2>8, ClientMoves, Zenon DEF CloseEnds
    <3>3. QED
      BY <1>t, <1>j, <2>0, <2>a, <3>1, <3>2, Zenon
  <2>9. QED
    BY <1>3, <2>2, <2>3, <2>4, <2>5, <2>6, <2>7, <2>8, Zenon DEF ClientStep, ClientCall
<1>4. QED
  BY <1>1, <1>2, <1>3, Zenon DEF PoolNext
=============================================================================
