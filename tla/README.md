# Verification of the Ty runtime

Ty is an interpreted language with real threads: every Ty thread is an OS
thread that runs the bytecode interpreter (`src/vm.c`) on its own stack and its
own allocation list. This directory holds TLA+ models of the parts of the
runtime where threads, the garbage collector and shared objects meet, of the
unwinding of exceptions, of signals and of the containers, the TLC
configurations that check them on small instances, and TLAPS proofs, for any
number of threads, objects, keys, signals and jobs, of the invariants of all of
these parts but the unwinding.

`PROJECT.json` lists, in machine-readable form, the components, the runs, the
lines of C each definition stands for, the mutants that show that each property
can fail, the hazards of the code, the findings and the theorems.

## 1. The system and its parts

| Part | State | Operations | Where |
| --- | --- | --- | --- |
| Thread group | the lists of threads, their locks and blocked flags; `Lock`, `GCLock`, `WantGC`, `GCPhase`, `GCReadyCount` | create and exit a thread, block and unblock, collect, take part in a collection | `src/vm.c`, `include/ty.h` |
| Heap | allocation list of each thread, `DeadAllocs`, a mark and a pin count for each object | allocate, mark, sweep, pin | `src/gc.c`, `include/gc.h`, `src/value.c` |
| Queue | a ring buffer | push, pop, peek, clear at both ends, toArray | `src/queue.c`, `include/queue.h` |
| SharedQueue | a ring buffer, a mutex, a condition variable, `open` | put, take, tryTake (timed), peek, clear, close, toArray | `src/queue.c` |
| Channel | a queue of values with the objects they own, `open` | send, recv (timed), close | `src/functions.c` |
| Locks and waitables | nsync objects | lock, wait, signal, wait-any | `src/functions.c`, `nsync/` |
| Thread handles, pool, futures | `alive`, `joined`; future states | join, detach; submit, cancel, complete | `src/functions.c`, `lib/tp.ty` |
| Exceptions | try, throw, drop and defer stacks | try, throw, rethrow, finally, drop | `src/vm.c` |
| Generators | coroutine states and stacks | call, yield, abort, collect | `src/vm.c`, `libco/` |
| Signals, JIT interrupts | pending flags | deliver, handle | `src/vm.c`, `src/jit.c` |
| Dict, member tables | open addressing, insertion-order list | get, put, delete, rehash | `src/dict.c`, `src/itable.c` |
| Front end and JIT | syntax trees, scopes, types, code | compile | `src/parse.c`, `src/compiler.c`, `src/types.c`, `src/jit.c` |

How they interact: every builtin that may block gives up its thread's own lock
(`UnlockTy`) and takes it back afterwards (`LockTy`). That lock is what the
collector takes to stop a thread, so every mutex of the runtime is ordered
against it; SharedQueue and Channel are the places where both are held.
A thread group collects for itself only; objects move between groups through
channels, which take them off one allocation list and put them on another.

The hard behaviours are the interleavings of a collection with threads that
block, wake, start or exit; a phase that is read before a wait and used after
it; wakeups that may be lost; locks taken in different orders; and lists that
are changed while they are walked, by callbacks and finalizers among others.
The `hazards` in `PROJECT.json` name each
one at its line.

What should be true: a collection frees nothing that its group can reach, runs
its sweep alone, and ends; blocking operations return when their condition
holds; a queue is a sequence; what is sent through a channel belongs to the
receiver; a dict is an ordered map; a finally block and a `__drop__` run once on
every way out; a signal is not lost; a job of a pool is settled once, and
closing the pool ends it.

## 2. The modules

### Queue: `QueueOps`, `Queue`, `Deque`, `QueueResults`, `ComponentProofs`

`QueueOps` holds the ring of `include/queue.h` as a record (`items`, `head`,
`tail`, `cap`) and one operator for each C function. `Queue` is one queue
object with an action for each method; `push` and `pushFront` move one argument
a step, as their loops do. `Deque` is what the queue promises: a sequence with
operations at both ends. `Abstract` in `Queue` maps the ring to that sequence.

### Thread group: `ThreadGroup`, `Interrupts`, `ThreadGroupProofs`

One variable for each field of the C structures: `tyLock` and `blocked` are the
lock and the state of each thread, `groupLock`, `gcLock`, `wantGC`, `phase` and
`ready` the fields of `ThreadGroup`, `todo`, `runningThreads` and
`blockedThreads` the loop of `DoGC`. `pc` is where a thread is:

* `run` (holds its lock, executes Ty code), `blocked` (inside a blocking
  builtin), `creating` (in `NewThread`), `starting`, `added` (a new thread),
  `dying`, `leaving`, `exited` (`CleanupThread`);
* `wgWait` to `wgDone`: the steps of `WaitGC`;
* `gcGroup` to `gcUnlockThreads`: the steps of `DoGC`.

A spin lock is a variable with its holder; waiting is a guard. A wait on
`GCPhaseCond` is a guard on `phase`, because each change is followed by a
broadcast. `CheckFlags` is the check before an instruction; it and the release
of the lock are one step, since the collector cannot pass a thread that holds
its own lock. The scan visits threads in any order. `thread.group()` is two
steps, because it waits for `group->Lock` with its own lock held. Failed thread
creation and `fork` are not modelled.

`Interrupts` composes the group with the flag of `Signals` that compiled code
polls. A compiled loop does not come to `CheckFlags`; it looks at
JitInterruptFlag, which `DoGC` raises with `WantGC` (`GroupStep`) and any signal
raises (`AnySignal`), and `vm_jit_handle_interrupt` takes part in a collection
that is asked for (`JitInterrupt`) and then clears the flag
(`JitInterruptEnds`). A collector that raises the flag between the two is not
seen until something else raises it again; `ClearsRequest` is that window.

### Heap: `Heap`, `ThreadGroupProofs`

Extends `ThreadGroup`: each step of the group is combined with what it does to
objects. Objects have one reference each; a thread has a set of objects on its
stack, and there is one global variable. `MarkOwn` and `MarkAll` do what
`MarkStorage` and the loop over `Globals` do, including that `value_mark`
returns at once from an object that is marked; `SweepOwn` and `SweepAll` are the
sweeps of the allocation lists, `Cleanup` what the end of a thread does with its
list. GC_STOP sections and `thread.group()` are left
out: they only ever disable a step, so they add nothing that can happen to
objects. `strayed` is a history variable: a thread has executed while its group
was being marked. From then on neither what is freed nor which marks are left is
promised, so `NoDanglingUnlessStray` and `MarksCleared` except it.

### Finalizers: `Finalizers`, `ComponentProofs`

One thread's sweep, taken apart into the rounds of the loop of `GCSweepTy` and
`GCSweep`: `allocs` are the two lists, `sweeper` holds `i` and `n`. A finalizer
may store its object or the object's member, allocate, return and throw. Objects
are numbered in the order of allocation, which is the order of the lists.
`escaped` is history: what a finalizer stored although the sweep frees it. The
model shows what a finalizer may rely on: a member allocated after the object
(as in `init`) is still there; anything older, or swept earlier, may be gone; an
object it allocates is freed by the same sweep, unless the finalizer runs from
`DeadAllocs`; what it stores dangles. After a throw nothing is swept again,
because `DoGC` or `WaitGC` was left with its locks and counts as they were.

### SharedQueue: `SharedQueue`, `ThreadGroupProofs`

Extends `ThreadGroup` with one queue. Only the length of the ring is kept, as
`Queue` has shown what the ring does. `at` and `op` say where a thread is in
which method. Methods that keep their own lock while they wait for `q->mutex`
(`put`, `close`, `clear`, `tryTake`, `toArray`, ...) and methods that give it up
(`take`, `peek`, timed `tryTake`) are kept apart; the latter take the mutex
first and their own lock second, as the code does. The group's threads exist
from the start.

### Channel: `Channel`, `ChannelProofs`

Threads that are alone in their groups, and one channel between them.
Allocation lists are sequences because `GCForget` is a loop that swaps
elements: `ForgetAt` is one round of it and `GCForget` all of them. `GCSweep` is
the sweep of a list. A collection of a group of one is one step. `hard` is the
set of pinned objects, `holder` and `parts` are history. The order in which
`GCForget` and `GCTakeOwnership` leave a list matters to finalizers too, which
`Finalizers` does not combine with channels.

### Dict: `Dict`, `OrderedMap`, `DictSlotProofs`, `DictTableProofs`, `DictProofs`

The table is a function on its slots, each with key, value, hash and the two
links; `Null` is the null pointer. `FindSpot`, `Put`, `RobinHood`, `Delete` and
`Rehash` are operators with the names of the C functions; a C loop is a recursive
function from the number of rounds to the state after them. `h & (size - 1)` is a
remainder, as sizes are powers of two. A method without a
callback is one action. A method with one (a default, `getOrPutWith`, `keep!`,
and `update`, `intersect` and `subtract` with a function) is an action before
and an action after each call, with `frame` for its C locals, and the callback
may change the same dict. `map` is the ordered map (`OrderedMap`) that the same
calls make; `lost` records the first method that went on with a slot that had
ceased to be its own. `put_value_with`, `keep!`, `intersect` and `subtract` can do so when
their callback changed the dict, `getOrPutWith` only after a removal;
`CallbacksThatLose` says that this is all. `put_value_with` and `intersect` assign
the result of a call to a slot of the table, and C leaves open whether the address
is taken before or after the call: after a growth the store may go to the old
table, so `ReturnMerge` and `ReturnIntersect` have both outcomes. For `get` and
`ensure` `CallbacksThatLose` is what `ReturnGet` and `ReturnEnsure` say: they look
for the slot again.

Comparing and hashing keys is taken to be pure. `v_eq` and `value_hash` may call
methods that a class defines, and one that changes the dict during a probe is
not modelled.

### Exceptions and generators: `Unwind`

The program is any program: at every point it may open or close a try, a loop, a
call or a resource scope, throw, return, break, continue, resume the generator,
or yield, return or end in it. Where it is, is `nest`, the constructs around it, and `todo`, the
instructions left when several are left at once (`emit_return` and the
statements break and continue lay out one FINALLY for each try and one DROP for
each scope). What the machine has are `tries` (TRY_STACK), `drop` (DROP_STACK),
`frames` and the shared `throws` (THROW_STACK). The properties relate the two.
A resource scope ends with DROP (`ScopeEnds`); a case of a match expression that
does not match ends it with DISCARD_DROP_GROUP (`CaseFails`). A generator keeps its
`co_state` when it ends: resumed again it executes YIELD_NONE again (`YieldNone`).
`marks` records the rare things after which a property no longer holds:

* a handler left by return, break, continue or a throw leaves its entry on
  THROW_STACK, and a generator that yields in a handler breaks its order;
* break or continue in a finally block leaves its try on TRY_STACK; return in a
  try nested in a finally block runs the outer block again;
* a throw from a function called by a handler runs the finally block in the frame
  of that function, because `DoThrow` restores `FRAMES` in TRY_TRY only;
* a generator that throws with resource scopes open never drops them;
* a generator that returns (STATEMENT_GENERATOR_RETURN) yields its value and then
  jumps to its end, past every FINALLY and DROP: the blocks and the `__drop__`s of
  what it was inside of never run, and its stacks keep their entries
  (`Abandoned`);
* a head of a loop (`while let`, or the `while` and `if` of a for-each) that does
  not match leaves its drop group on DROP_STACK (`HeadFails`);
* a case of a match statement that binds a resource ends with a DROP that no
  PUSH_DROP_GROUP belongs to, so that the scope around it is dropped (`CaseEnds`);
* a `__drop__` that throws is called twice, or ends in abort().

### Thread handles and the pool: `ThreadHandle`, `Pool`, `PoolStepProofs`, `PoolProofs`

`ThreadHandle` extends `ThreadGroup` with `join`, `detach`, the end of
`vm_run_thread` and the finalizer of a handle. What pthreads leaves undefined is
recorded in `misused`, and `thread.detach()` may then fail; `overlapped` records
that the program itself made two
calls at once on a handle or used one it had detached. `Pool` composes
`SharedQueue`, `ThreadHandle` and `lib/tp.ty`: each step of a worker or a client is
a step of the queue's method, of a join or of a future. As modelled from the
source: `take` on a closed and empty queue throws a RuntimeError, which the
`catch _: CanceledError` of `runThread` does not match, so workers end with an
uncaught error; a second `close()`, or `__drop__` after it, throws in `join`; a
job put after the close is never taken when the workers are gone, and its
`wait()` sleeps.

### Signals: `Signals`, `ComponentProofs`

`vm_do_signal` runs on any thread between any two of its steps and raises three
flags one after the other. Interpreted threads poll AnySignalPending, compiled
ones JitInterruptFlag. A scan of SignalStates is one step for each entry, for the
read of the handler, and for the handler, which is Ty code and may poll, so
`scans` is a stack. `os.signal()` is three steps; for a signal that no handler can
be set for it ends with a failed `sigaction` (`SigActionFails`). `threw` and
`crossed` are history.

## 3. What is checked

| Run | Instance | Shows |
| --- | --- | --- |
| `containers` | queue: 2 values, first array of 2 slots, up to 4 elements; dict: 4 keys, 2 values, tables of 4 and 8 slots, all callbacks | `TypeOK`, `DequeSpec`: the ring implements `Deque`; `ProbesEnd`, `KeysAreFound`, `ListIsTable`, `IsOrderedMap`, `CallbacksThatLose` |
| `collector` | group: 3 threads, 2 collections; heap: 2 threads, 2 objects, 2 collections; finalizers: 3 objects | `SweepExclusion`, `AllAccounted`, `StrayIsStale`, the inductive invariant `GCInv`; `NoDanglingUnlessStray`, `MarksCleared`; `SurvivorsListed`, `FinalizersKeepLive`, `MemberOutlivesFinalizer` |
| `runtime` | group: an interpreted and a compiled thread, 3 collections, GC_STOP depth 1, any signals, fair; signals: an interpreted and a compiled thread, 2 signals, 3 deliveries, nesting 2, 2 calls of os.signal() | `CollectionFinishes`; `NoSignalLost`, `FlagCoversPending`, `RegisteredIsCallable` |
| `shared_queue` | 3 threads, all methods, 2 puts, 1 collection | `TakeSeesItem`, `NoLostWakeup`, `RingFrozen` |
| `pool` | 2 workers: 1 client with 2 jobs, or 2 clients with 1 job when one worker has failed; or 1 handle with 2 clients; fair | `EachJobOnce`, `SettledForGood`, `DrainedBeforeEnd`, `ClosedMeansEnded`, `CallsReturn`; `HandleOutlivesThread`, `ReclaimedOnce`, `ExitWakesJoiner` |
| `channel` | 3 threads, 2 objects, 2 sends | `OwnedOnce`, `SendWakesReceiver` |
| `unwind` | 3 constructs open at once, 2 tries and 1 resource scope or 1 try and 2 scopes, 2 exceptions | `TriesMirrorNesting`, `FinallyRunsOnce`, `RethrowsOwn`, `ThrowsAreHandled`, `DroppedOnce`, `FramesMirrorCalls`, `AbortsOnlyOnDoubleThrow` |

The type invariant of a module is a conjunct of one of its invariants:
`DictTypeOK` of `ListIsTable`, `HeapTypeOK` of `MarksCleared`, `SignalTypeOK` of
`NoSignalLost`, `PoolTypeOK` (with those of the queue, the handles and the group)
of `EachJobOnce`, `ChannelTypeOK` of `OwnedOnce`, that of `Unwind` of
`TriesMirrorNesting`.

Where a run has several instances, a variable of the MC module chooses one in the
initial state and the others stay as they are.

Five runs show where the code does not do what the repository says of it; each
has a `findings` entry with the line it contradicts.

* `heap_stray` (`NoDangling`). `WaitGC` reads the phase, then takes its lock.
  Between the two a whole collection may end and the scan of the next may count
  the thread as running, although the DONE it carries will send it back to its
  program. There it changes objects while they are being marked; one that is
  reachable is freed. (If it blocks or exits instead, nobody reports for it and
  the collector spins: the exception that `CollectionFinishes` makes.)
* `thread_group_missed` (`WaitGCReturns`). A thread that fails to get `GCLock`
  between `EndGC` and the unlock waits for MARK or DONE when both are over.
* `shared_queue_take` (`TakeReturns`). `take` waits for its own lock with
  `q->mutex` held, a thread in `put` waits for `q->mutex` with its own lock held,
  and the collector holds the first lock and waits for the second.
* `channel_transfer` (`ReceivedAlive`). `GCForget` skips the element that it
  swaps into the place of one it removes, so part of a sent value can stay on
  the sender's list.
* `unwind_finally` (`FinallyThrowEscapes`). The body of a try ends, its finally
  block throws, and the handlers of the same try catch it: the try is still in
  TRY_TRY. The finally block then runs a second time.

`StrayIsStale` says that the stale DONE is the *only* way a thread can execute
during marking, and `NoDanglingUnlessStray` and `CollectionFinishes` that
without it the collector is right.

**Bounds.** Two collections are needed for a DONE to be stale and for a mark to
survive; two threads exhibit every interaction of a collector with one other
thread, and the third adds a bystander (spawned, blocked or exiting) and the
third party of the deadlock. Two objects are enough for an edge, and for the
swap in `GCForget`; with three a finalizer's object, its member and a newborn
exist together. A ring that starts at 2 slots and holds up to 4 elements grows
twice, wrapped at every slot; the source's 8 changes nothing but the size of the
state space (and the proofs hold for every size). Three threads at a channel are
a sender and two receivers, or two senders: with two threads one signal too few
would not show. In the dict two of the four keys share an ideal slot at the end of the
small table, so that probes wrap, tombstones are passed and robin hood swaps
happen, and the fourth key makes it grow. Two tries nest in each other, follow
each other or sit in different coroutines, and two exceptions are one handled
while another is thrown. (With two tries and two scopes in one program and
any number of rare things the run has 29 million states, takes 20 minutes and
passes too.) The pool's clients and jobs are bounded separately, so
that two jobs compete for two workers and two clients for one future. The bounds
are `MaxGC`, `MaxStop`, `MaxPuts`, `MaxSends`, `MaxLen`, `MaxArgs`, `MaxSize`,
`MaxPairs`, `MaxAllocs`, `MaxNest`, `MaxTries`, `MaxGroups`, `MaxRaised`,
`MaxSignals`, `MaxCalls`.

In the dict the program puts one value and callbacks return another, and an
argument dict has one entry: update is a sequence of puts.

**Constraints.** Four runs do not follow a behaviour beyond a point. `StillWhole`:
a dict method has used a slot that is not its own (the table may be inconsistent
from there on). `Followed` in `MCUnwind`: break or continue has left a stale try,
a match statement has dropped the scope around it, a finally block has been
entered more than three times, or the program has done three of the things in
`Marks`, after each of which the properties promise less. `Followed` in
`MCCollector`: a finalizer has thrown; and with objects, a thread has executed
during marking, the last collection is over, or an object refers to itself.
`NoLoop` in `MCChannel`: an object refers to itself; and the third thread takes
part only as long as the objects are plain, without references, pins and
collections, and it drops none (`ThirdPlain`). The states at that point
are still checked.

**Deadlock** is checked in `unwind`, where a program always ends in a state that
says so. It is not checked elsewhere: with the bounds used up a program may
simply stop. What must not get stuck is stated as liveness.

**Fairness.** Steps inside `DoGC`, `WaitGC`, `NewThread` and `CleanupThread` are
weakly fair: the code spins or waits for exactly that step. An interpreted thread
reaches `CheckFlags` before every instruction, a compiled one the interrupt check
at every backward jump, and both the end of each GC_STOP section, but they may
block in between, so these are strongly fair. A compiled thread may come through
`CheckFlags` as well, when it calls a function, but nothing says that it does. nsync's mutex
does not starve a waiter, hence strong fairness for acquiring `q->mutex`.
`CollectionFinishes` excepts a thread that carries a stale DONE, one that
waits in `thread.group()` for the lock that the collector holds while the
collector waits for the lock of that thread, and a compiled thread that clears
JitInterruptFlag right after the collector raised it. Each of the three is a way
in which the code can hang; without the exception TLC shows it.
Nothing is assumed of blocking calls or of the program. In `SharedQueue`
fairness is on the guarded steps of the composition only, so that it cannot
exclude a deadlock. In the pool one weak fairness condition says that as long as
a worker or a call in progress can take a step, one of them does; jobs are
assumed to end, and nobody has to call anything. It is enough because every
call there is finite once it is not blocked. Collections are switched off in
that run (`MaxGC = 0`): what they do to a queue is `shared_queue_take`.

**Symmetry** over objects, and over threads where no thread is special, is used
in safety runs only.

## 4. What is proved

All proofs are for arbitrary constants that satisfy the named assumptions: any
set of values and any initial capacity of at least 2 (`QueueAssumption`,
`QueueBounds`); any finite set of threads and any bounds (`ThreadAssumption`);
any set of objects, with the values that stand for no object and for the lists
of an object kept apart from objects and threads (`ObjectAssumption`); any set of
jobs (`PoolAssumption`); any workers and clients that are different threads
(`HandleAssumption`); any number of signals and any threads, some of them in
compiled code (`SignalAssumption`); any number of allocations
(`AllocsAssumption`); any finite set of threads and any objects around a channel (`ChannelAssumption`);
any keys, hashes, values and argument dicts, any first size of a table of at least
4 and any largest size (`DictAssumption`).

Almost none of the properties is inductive. The invariants that the proofs use
(`HeapInv`, `QueueInv`, `SignalInv`, `HandleInv`, `PoolInv`, `FinInv`, `ChanInv`,
and of `DictInv` what it says of waiting methods) were checked by TLC on the instances of the runs before they were proved; `GCInv` is
checked by the run `collector`.

A loop is a recursive function on an interval of numbers. The prover has no
induction over operators, but sets of numbers have least elements (`Least`), from
which follow: a loop has a state after each round (`LoopExists`, `LoopRuns`),
and what each round keeps holds at its end (`LoopInvariant`). What the loops of
`gc.c` and `dict.c` compute is proved with these.

`ComponentProofs`, of Queue:
* `QueueTypeCorrect`: `Spec => []TypeOK`. `IsRing` is inductive as it stands: its
  last conjunct, that the slots between head and tail hold values, is what growth
  and removal need.
* `QueueImplementsDeque`: `Spec => DequeSpec`. Each operation of the ring is a
  lemma about `Elements` (`PushBackRing`, `PopFrontRing`, `GrowRing`, ...); the
  remainders are first removed (`CountValue`, `SlotValue`, `NeighbourValue`).
  `InitialCap >= 2` is needed: with 1 the first push would make a full ring that
  looks empty.

`ThreadGroupProofs`, of the group:
* `ThreadGroupTypeCorrect`, and `GCInvHolds`: `Spec => []GCInv`. `GCInv` adds to
  the properties who holds which lock (`Leadership`, `LockDiscipline`), what the
  scan has established (`Scanned`, `FlagInv`), where the counted threads can be
  (`Participants`, `Counted`), and that `GCReadyCount` is the number of those that
  have reported (`ReadyCount`). The step to SWEEP is the heart: `ready >= nRunning`
  together with `ReadyCount` means that every counted thread waits for the sweep
  (`AllReported`, by the cardinality of a subset), so none of them still carries a
  stale DONE.
* `SweepIsExclusive`, `EveryThreadAccounted`, `StraysAreStale` follow.

`ThreadGroupProofs`, of the heap (from `HeapSpec`):
* `NothingLiveIsFreed`: `[]NoDanglingUnlessStray`, and `NoMarkSurvives`:
  `[]MarksCleared`. Every step of the heap is a step of the group
  (`HeapStepIsGroupStep`), so `GCInv` is available. `HeapInv` adds that nothing
  refers to an object that was never allocated (`Refs`), which list an object
  can be on (`Owners`), what a thread that is being created or is leaving has on
  its stack (`Stacks`), and, as long as nobody strayed, `Sound`: between
  collections nothing is marked and what is reachable is not freed; while
  marking, the marked objects are closed under references and hold what the
  threads that have reported can reach; while sweeping, everything reachable is
  marked or on a list that has been swept. The argument has three parts:
  during marking only threads that are counted but have not reported, or are
  in a step of the collector, are left to mark, and nobody changes a reference
  (`StraysAreStale`); at the step to SWEEP all have reported, so all that is
  reachable is marked (`AllReported` again); a sweep frees unmarked objects of
  its own lists only.

`ComponentProofs`, of finalizers (from `FinalizersSpec`):
* `SurvivorsAreListed`: `[]SurvivorsListed`, `FinalizersFreeNothingLive`:
  `[]FinalizersKeepLive`, `MembersOutliveFinalizers`: `[]MemberOutlivesFinalizer`.
  In the middle of a sweep a list has two parts that count, what was kept and what
  is still to be visited, with stale entries between them (`Pos`). `FinInv` says
  that the two parts are in order, hold what is not freed and nothing else, and
  that nothing kept is marked; that what the program holds is safe from this sweep
  (`Safe`: marked, or kept, or new in a list that was swept) and that safe objects
  refer to safe ones; and that an object whose member is gone is still to be
  visited. What a finalizer stored (`escaped`) is excepted throughout. After a
  finalizer threw the lists promise nothing, and it is enough that some closed
  set of objects that are not freed holds what the program reaches (`Shielded`).

`ThreadGroupProofs`, of the shared queue (from `QueueSpec`):
* `SharedQueueTypeCorrect`, `TakeFindsItem`: `[]TakeSeesItem`, `NoWakeupIsLost`:
  `[]NoLostWakeup`, `RingStaysPut`: `RingFrozen`. `QueueInv` adds where a thread in
  a method is in the group (`QueueControl`) and that the elements and the calls of
  `put` under way are no more than the calls of `put` (`PutsCounted`, which bounds
  the length). That the ring does not change under the collector is a consequence
  of `GCInv`: a thread that changes it runs, so it is not counted as reported.

`PoolStepProofs` (the steps, action by action) and `PoolProofs` (the theorems):
* from `HandleSpec`, a program that uses handles in any way:
  `HandleIsNotFreedEarly`: `[]HandleOutlivesThread`, `ThreadIsReclaimedOnce`:
  `[]ReclaimedOnce`, `EndOfThreadWakes`: `[]ExitWakesJoiner`. `HandleInv` says that
  the pin lasts to the end of the thread, that a call keeps its handle held, and
  that pthreads has been told exactly when a flag of the handle, or a call about
  to set it, says so, as long as no two calls overlapped.
* from `PoolSpec`: `JobsRunOnce`: `[]EachJobOnce`, `QueueIsDrained`:
  `[]DrainedBeforeEnd`, `CloseJoinsAll`: `[]ClosedMeansEnded`, `SettledStays`:
  `SettledForGood`, and `PoolHandles`, the properties of the handles again. A step
  of the pool is a step of the queue and a step of the handles (`QueueInPool`,
  `PoolHandleStep`), so that `QueueInv` and `HandleInv` hold. `PoolInv` adds which
  method a worker or a client can be in (`Roles`), that a future is at one place
  (`Places`) and that its state says which (`Progress`), that a worker leaves only
  a queue that is closed and empty but for late jobs (`Drained`), and that a close
  that has got past a worker has joined it (`Joined`). The pool has no step of a
  collector: what collections do to a queue is proved of `QueueSpec`, to handles
  (their finalizer) in `HandleSpec`.

`ComponentProofs`, of signals (from `SignalSpec`):
* `SignalsAreFound`: `[]NoSignalLost`, `CompiledCodeIsTold`:
  `[]FlagCoversPending`, `HandlersAreCallable`: `[]RegisteredIsCallable`. The first
  two are inductive given the types of the stacks of scans; the third needs that
  one thread at most is in `os.signal()` for a signal that was not crossed.

`ChannelProofs`:
* `ObjectsOwnedOnce`: `[]OwnedOnce`. The loop of `GCForget` rearranges the vector
  and loses nothing of it (`ForgetAtKeeps`), so that cutting it in two, as `send`
  does, leaves each object on one of the parts; the sweep keeps a part of the list
  in its order (`SweepAtSifts`).
* `SendsWakeReceivers`: `[]SendWakesReceiver`. That one signal for each send is
  enough is not to be seen at once: receivers leave by timeout and by finding a
  value another was woken for. The property counts: while somebody waits there are
  at least as many threads about to signal or to look as there are values in the
  channel, and each step changes the two numbers together. `ChanInv` adds that every message holds an object (`ValuesSent`): a
  receiver that finds none must not be able to mistake it for a value.

`DictSlotProofs`, `DictTableProofs` and `DictProofs`, of Dict (from `DictSpec`):
* `DictKeepsInv`: `[]DictInv`, and from it `DictIsOrderedMap`: `[]IsOrderedMap`,
  `DictKeysAreFound`: `[]KeysAreFound`, `DictProbesEnd`: `[]ProbesEnd`,
  `DictListIsTable`: `[](Whole => ListIsTable)`, `DictCallbacksThatLose`:
  `[]CallbacksThatLose`. The invariant has two layers.
* A table represents a sequence of entries (`Rep`, `Holds`, `IsDict`): a key has
  one entry, and no slot on the way from its ideal slot to it is empty (`Sound`);
  the links are those of one sequence of slots, without repetition, that has all
  the occupied ones (`ListOf`); and the counters are right and leave an empty slot
  (`4 * (count + tombs) < 3 * size + 4`, which is why `INITIAL_SIZE >= 4`).
  Robin hood keeps `Sound` because it exchanges two entries that are both on the
  way of the one that is moved: the other one moves to a slot further on, and the
  way to it is the way it had and a part of the way of the first, none of it empty
  (`PathOn`, `PathBack`). An exchange of neighbours in the list is the hard case
  of `swap`; `TradedIs` and `ExchangeIs` cover it. `rehash` puts the entries into
  an empty table in the order of the list (`RehashIs`), a removal leaves a
  tombstone, which no way minds. What each C function does to the table is thus
  what `OrderedMap` does to the sequence.
* A method that waits for its callback relies on its frame (`Waits`): if the
  callback changed nothing, the slot is still its own; and for `getOrPutWith`, as
  long as nothing was removed and the table has its size, a slot that is still
  free is the one where the key would go (`Finds`), since entries that are added
  change the way of a key only by taking its free slots.
* What is promised ends with the first use of a slot that is not the method's own
  (`Whole`), as the properties say; `ListIsTable` without `Whole` (the types of the
  table in the state right after that use) is only model-checked.

Only model-checked:
* liveness (`CollectionFinishes`, `CallsReturn`), because the prover has no rule
  for fairness;
* `Unwind`: its properties relate two stacks through the layout of the code
  between them, and no inductive invariant has been worked out.

## 5. Plan

Done, in this order: Queue, ThreadGroup, SharedQueue, Heap, Channel, Unwind,
Dict, ThreadHandle, Pool, Signals, `thread.group()`, Finalizers, Interrupts; the proofs about
Queue, ThreadGroup, Heap, SharedQueue, Signals, ThreadHandle, Pool, Finalizers,
Channel, Dict.

1. Proofs: an inductive invariant of Unwind.
2. ThreadGroup: failed creation, two groups that share the static arrays of
   `DoGC`.
3. Unwind: DEFER and CLEANUP; generators that resume generators.

## 6. What is not modelled

The front end, the type checker and the JIT compile sequentially and have no
protocol to check; together they are most of the repository's lines, and what
they translate (terms, syntax trees, machine code) is out of TLC's reach. The
builtins for files, processes, JSON, FFI and databases are conversions and
system calls. nsync is a vendored library; its mutex, condition variable and
note are modelled from their use. Arrays, strings, blobs and member tables are
changed by one thread at a time and are not modelled; the callbacks of the array
methods raise the questions that `Dict` asks of its own. Of the modelled parts
the following is left out:

* `fork`, a thread that cannot be created, and `recv` with a timeout that is not
  an integer, which throws with `chan->m` held: error paths after which the
  group or the channel is unusable, listed as hazards;
* a second thread group in `ThreadGroup`;
* memory accounting, and the layout of each kind of value;
* the value stack in `Unwind`, DEFER and CLEANUP, and the reuse of coroutine
  stacks;
* the methods of Dict that build a new container, and keys whose comparison or
  hash changes the dict;
* signal masks, and what a signal handler that throws does to GC_OFF_COUNT;
* a DROP or PUSH_DROP that finds DROP_STACK empty;
* `Future.any`, `all` and `iter`, and the queries of a future.
