---------------------------- MODULE ThreadHandle ----------------------------
(***************************************************************************)
(* Thread handles: thread.join() with and without a timeout,               *)
(* thread.detach(), the end of vm_run_thread, and the collector's          *)
(* finalizer of a handle (src/functions.c, src/vm.c, src/gc.c).            *)
(*                                                                         *)
(* A handle has a mutex and a condition variable, for timed joins, and is  *)
(* pinned (its hard count is raised) until the thread has finished with    *)
(* it.  The section that tests alive under the mutex and goes to sleep is  *)
(* one step, as is the one that clears alive.  What pthread_join and       *)
(* pthread_detach do on a thread that was joined or detached before is     *)
(* undefined; such a call is recorded in misused and may return at once.   *)
(***************************************************************************)
EXTENDS ThreadGroup

CONSTANTS Worker,    \* the threads whose handles the program uses
          Client     \* the threads that use them

ASSUME HandleAssumption == /\ Worker \subseteq Thread \ {Main}
                           /\ Client \subseteq Thread \ Worker

VARIABLES
  life,       \* how far vm_run_thread is: "runs" as long as t->alive
  handle,     \* joined, detached, pinned (hard > 0), held by the program, freed
  os,         \* what pthreads knows of the thread
  joiner,     \* where each client is in thread.join(), and of which thread
  misused,    \* joined or detached when it no longer was joinable
  overlapped  \* the program joined or detached it during or after another call

handleVars == <<life, handle, os, joiner, misused, overlapped>>

Joining(t) == {c \in Client : joiner[c].at # "none" /\ joiner[c].of = t}
InOsJoin(t) == {c \in Joining(t) : joiner[c].at = "join"}
JoinerAt(c, l, t) == joiner' = [joiner EXCEPT ![c] = [at |-> l, of |-> t]]

\* A call of pthread_join or pthread_detach: undefined on a thread that is not
\* joinable or that another thread is joining.
OsCall(t) == misused' = IF os[t] # "joinable" \/ InOsJoin(t) # {} THEN misused \cup {t}
                        ELSE misused

\* The program makes two calls on one handle that overlap, or uses a handle
\* that it has detached.
Overlap(t) == overlapped' = IF Joining(t) # {} \/ handle[t].detached THEN overlapped \cup {t}
                            ELSE overlapped

-----------------------------------------------------------------------------
(* The end of vm_run_thread, after CleanupThread *)

\* Mutant: does not signal.
NotAliveSilently(t) == /\ pc[t] = "exited"
                       /\ life[t] = "runs"
                       /\ life' = [life EXCEPT ![t] = "signalled"]
                       /\ UNCHANGED <<vars, handle, os, joiner, misused, overlapped>>

\* alive = false under the handle's mutex
NotAlive(t) == /\ pc[t] = "exited"
               /\ life[t] = "runs"
               /\ life' = [life EXCEPT ![t] = "dead"]
               /\ UNCHANGED <<vars, handle, os, joiner, misused, overlapped>>

\* Mutant: gives up the pin before the last use of the handle.
SignalUnpinned(t) == /\ life[t] = "dead"
                     /\ life' = [life EXCEPT ![t] = "signalled"]
                     /\ handle' = [handle EXCEPT ![t].pinned = FALSE]
                     /\ UNCHANGED <<vars, os, joiner, misused, overlapped>>

\* TyCondVarSignal wakes one of the waiters.
SignalExit(t) ==
  /\ life[t] = "dead"
  /\ life' = [life EXCEPT ![t] = "signalled"]
  /\ LET waiting == {c \in Joining(t) : joiner[c].at = "waiting"} IN
       \/ waiting = {} /\ UNCHANGED joiner
       \/ \E c \in waiting : JoinerAt(c, "mutex", t)
  /\ UNCHANGED <<vars, handle, os, misused, overlapped>>

\* OKGC(t); the thread function returns.
ThreadEnds(t) == /\ life[t] = "signalled"
                 /\ life' = [life EXCEPT ![t] = "ended"]
                 /\ handle' = [handle EXCEPT ![t].pinned = FALSE]
                 /\ UNCHANGED <<vars, os, joiner, misused, overlapped>>

-----------------------------------------------------------------------------
(* thread.join() *)

\* join() or join(nil) of a handle that is not marked as joined: UnlockTy(),
\* TyThreadJoin.
JoinCall(c, t) == /\ joiner[c].at = "none"
                  /\ handle[t].held /\ ~ handle[t].joined
                  /\ Block(c)
                  /\ JoinerAt(c, "join", t)
                  /\ OsCall(t)
                  /\ Overlap(t)
                  /\ UNCHANGED <<life, handle, os>>

\* join(timeout): UnlockTy(), and the handle's mutex.
TimedJoinCall(c, t) == /\ joiner[c].at = "none"
                       /\ handle[t].held /\ ~ handle[t].joined
                       /\ Block(c)
                       /\ JoinerAt(c, "mutex", t)
                       /\ Overlap(t)
                       /\ UNCHANGED <<life, handle, os, misused>>

\* while (t->alive): wait, or go on to TyThreadJoin.
TestAlive(c) == LET t == joiner[c].of IN
  /\ joiner[c].at = "mutex"
  /\ \/ /\ life[t] = "runs"
        /\ JoinerAt(c, "waiting", t)
        /\ UNCHANGED misused
     \/ /\ life[t] # "runs"
        /\ JoinerAt(c, "join", t)
        /\ OsCall(t)
  /\ UNCHANGED <<vars, life, handle, os, overlapped>>

\* The wait times out: LockTy(), return None.
JoinTimedOut(c) == /\ joiner[c].at = "waiting"
                   /\ Unblock(c)
                   /\ JoinerAt(c, "none", NoThread)
                   /\ UNCHANGED <<life, handle, os, misused, overlapped>>

\* Mutant: returns once the thread has left its group.
OsJoinEarly(c) == LET t == joiner[c].of IN
  /\ joiner[c].at = "join"
  /\ pc[t] = "exited" \/ t \in misused
  /\ os' = [os EXCEPT ![t] = "joined"]
  /\ JoinerAt(c, "lock", t)
  /\ UNCHANGED <<vars, life, handle, misused, overlapped>>

\* TyThreadJoin returns once the thread's function has.
OsJoin(c) == LET t == joiner[c].of IN
  /\ joiner[c].at = "join"
  /\ life[t] = "ended" \/ t \in misused
  /\ os' = [os EXCEPT ![t] = "joined"]
  /\ JoinerAt(c, "lock", t)
  /\ UNCHANGED <<vars, life, handle, misused, overlapped>>

\* Mutant: does not mark the handle.
JoinReturnUnmarked(c) == /\ joiner[c].at = "lock"
                         /\ Unblock(c)
                         /\ JoinerAt(c, "none", NoThread)
                         /\ UNCHANGED <<life, handle, os, misused, overlapped>>

\* LockTy(); joined = true
JoinReturn(c) == /\ joiner[c].at = "lock"
                 /\ Unblock(c)
                 /\ handle' = [handle EXCEPT ![joiner[c].of].joined = TRUE]
                 /\ JoinerAt(c, "none", NoThread)
                 /\ UNCHANGED <<life, os, misused, overlapped>>

-----------------------------------------------------------------------------
(* thread.detach(), and the end of the handle *)

\* thread.detach() looks at nothing; TyThreadDetach may fail when the thread is not
\* joinable any more.
Detach(c, t) == /\ pc[c] = "run"
                /\ joiner[c].at = "none"
                /\ handle[t].held
                /\ OsCall(t)
                /\ overlapped' = IF Joining(t) # {} \/ handle[t].joined \/ handle[t].detached
                                 THEN overlapped \cup {t} ELSE overlapped
                /\ \/ /\ os' = [os EXCEPT ![t] = "detached"]
                      /\ handle' = [handle EXCEPT ![t].detached = TRUE]
                   \/ os[t] # "joinable" /\ UNCHANGED <<os, handle>>
                /\ UNCHANGED <<vars, life, joiner>>

\* The program drops its last reference.
DropHandle(t) == /\ handle[t].held
                 /\ Joining(t) = {}
                 /\ handle' = [handle EXCEPT ![t].held = FALSE]
                 /\ UNCHANGED <<vars, life, os, joiner, misused, overlapped>>

\* The sweep of a collection meets a handle that is neither marked nor pinned:
\* it joins the thread if it has ended and detaches it otherwise.
Finalize(t) ==
  /\ ~ handle[t].held /\ ~ handle[t].pinned /\ ~ handle[t].freed
  /\ \/ /\ ~ handle[t].joined /\ ~ handle[t].detached
        /\ OsCall(t)
        /\ os' = [os EXCEPT ![t] = IF life[t] = "runs" THEN "detached" ELSE "joined"]
     \/ /\ handle[t].joined \/ handle[t].detached
        /\ UNCHANGED <<misused, os>>
  /\ handle' = [handle EXCEPT ![t].freed = TRUE]
  /\ UNCHANGED <<vars, life, joiner, overlapped>>

-----------------------------------------------------------------------------
\* thread.create() pins the handle.
HandleInit == /\ life = [t \in Worker |-> "runs"]
              /\ handle = [t \in Worker |-> [joined |-> FALSE, detached |-> FALSE,
                                             pinned |-> TRUE, held |-> TRUE,
                                             freed |-> FALSE]]
              /\ os = [t \in Worker |-> "joinable"]
              /\ joiner = [c \in Client |-> [at |-> "none", of |-> NoThread]]
              /\ misused = {} /\ overlapped = {}

\* The thread's function returns at any time.
Exit(t) == \/ (CleanupThread(t) \/ LeaveGroup(t)) /\ UNCHANGED handleVars
           \/ NotAlive(t) \/ SignalExit(t) \/ ThreadEnds(t)

Join(c) == TestAlive(c) \/ JoinTimedOut(c) \/ OsJoin(c) \/ JoinReturn(c)

\* The program uses the handles of the threads in W.
HandleNext(W) ==
  \/ \E t \in W : Exit(t) \/ DropHandle(t) \/ Finalize(t)
  \/ \E c \in Client : Join(c)
  \/ \E c \in Client, t \in W : JoinCall(c, t) \/ TimedJoinCall(c, t) \/ Detach(c, t)

\* A program that uses the handles in any way; its threads run when it starts.
HandleSpec == AllRun /\ HandleInit /\ [][HandleNext(Worker)]_<<vars, handleVars>>

-----------------------------------------------------------------------------
\* The state of the handles.
HandleTypeOK ==
  /\ life \in [Worker -> {"runs", "dead", "signalled", "ended"}]
  /\ handle \in [Worker -> [joined : BOOLEAN, detached : BOOLEAN, pinned : BOOLEAN,
                            held : BOOLEAN, freed : BOOLEAN]]
  /\ os \in [Worker -> {"joinable", "joined", "detached"}]
  /\ joiner \in [Client -> [at : {"none", "mutex", "waiting", "join", "lock"},
                            of : Worker \cup {NoThread}]]
  /\ misused \subseteq Worker /\ overlapped \subseteq Worker

\* The mutex and the condition variable of a handle are destroyed only after
\* the thread has used them for the last time, whenever the program drops the
\* handle.
HandleOutlivesThread == \A t \in Worker : handle[t].freed => life[t] = "ended"

\* Every thread is joined or detached exactly once, by the program or by the
\* finalizer, whatever joins timed out or came after a join; overlapping joins
\* and the use of a detached handle are the program's own.
ReclaimedOnce == /\ misused \subseteq overlapped
                 /\ \A t \in Worker : handle[t].freed => os[t] # "joinable"

\* A timed join that waits when the thread ends is woken, unless another one
\* took the signal.
ExitWakesJoiner ==
  \A c \in Client :
    joiner[c].at = "waiting" /\ life[joiner[c].of] \in {"signalled", "ended"}
      => joiner[c].of \in overlapped
=============================================================================
