-------------------------------- MODULE Heap --------------------------------
(***************************************************************************)
(* The objects of one thread group under its collector: what the threads   *)
(* do to them (src/vm.c, include/gc.h), MarkStorage and value_mark, and    *)
(* the sweeps of src/gc.c.                                                 *)
(*                                                                         *)
(* Every object is on one allocation list: the one of the thread that      *)
(* allocated it, or DeadAllocs once that thread has exited.  An object has *)
(* one reference; a thread reaches the objects on its stack and whatever   *)
(* they lead to, and all threads share one global variable.  MarkStorage   *)
(* of one thread is one step, as is the sweep of one thread: no thread     *)
(* that takes part in the collection changes an object meanwhile.          *)
(* Finalizers do nothing here.                                             *)
(***************************************************************************)
EXTENDS ThreadGroup

CONSTANTS Object, NoObject

Unborn == "unborn"
DeadAllocs == "dead"
Freed == "freed"

ASSUME ObjectAssumption == /\ NoObject \notin Object
                           /\ {Unborn, DeadAllocs, Freed} \cap Thread = {}

VARIABLES
  roots,      \* the objects each thread's MarkStorage starts from
  global,     \* a variable of Globals
  field,      \* the reference in each object
  owner,      \* the list each object is on
  marked,     \* the objects whose mark is set
  strayed     \* history: a thread executed while its group was marking

heapVars == <<roots, global, field, owner, marked, strayed>>

Born == {o \in Object : owner[o] # Unborn}

\* Where marking starts: the stacks of the threads in T, and Globals.
RootsOf(T) == {o \in Object : \E t \in T : o \in roots[t]}
Globals == {global} \ {NoObject}

\* The objects reached from S by a traversal that does not go through X.
Reach(S, X) ==
  {o \in Object :
     \A C \in SUBSET Object :
       (S \subseteq C /\ \A x \in C \ X : field[x] \in C \cup {NoObject}) => o \in C}

-----------------------------------------------------------------------------
(* The program *)

\* gc_alloc_object, after its CheckUsed: the mark is clear.
Alloc(t) == \E o \in Object \ Born :
              /\ owner' = [owner EXCEPT ![o] = t]
              /\ roots' = [roots EXCEPT ![t] = @ \cup {o}]
              /\ UNCHANGED <<global, field, marked>>

\* Read a member or the global variable.
Load(t) == \E o \in ({field[x] : x \in roots[t]} \cup {global}) \ {NoObject} :
             /\ roots' = [roots EXCEPT ![t] = @ \cup {o}]
             /\ UNCHANGED <<global, field, owner, marked>>

\* Assign a member or the global variable.
Store(t) == \E v \in roots[t] \cup {NoObject} :
              /\ \/ /\ \E o \in roots[t] : field' = [field EXCEPT ![o] = v]
                    /\ UNCHANGED global
                 \/ global' = v /\ UNCHANGED field
              /\ UNCHANGED <<roots, owner, marked>>

\* A value leaves the stack.
Drop(t) == \E o \in roots[t] :
             /\ roots' = [roots EXCEPT ![t] = @ \ {o}]
             /\ UNCHANGED <<global, field, owner, marked>>

Mutate(t) == /\ pc[t] = "run"
             /\ Alloc(t) \/ Load(t) \/ Store(t) \/ Drop(t)
             /\ UNCHANGED groupVars

\* The new thread's stack starts with arguments that its creator also holds.
Spawn(t) == /\ NewThread(t)
            /\ \E S \in SUBSET roots[t] : roots' = [roots EXCEPT ![child'[t]] = S]
            /\ UNCHANGED <<global, field, owner, marked>>

\* CleanupThread hands the thread's objects over and its stack goes away.
Cleanup(t) == /\ CleanupThread(t)
              /\ owner' = [o \in Object |-> IF owner[o] = t THEN DeadAllocs ELSE owner[o]]
              /\ roots' = [roots EXCEPT ![t] = {}]
              /\ UNCHANGED <<global, field, marked>>

-----------------------------------------------------------------------------
(* Marking and sweeping *)

\* value_mark from every object in S; it returns at once from a marked one.
Mark(S) == marked' = marked \cup Reach(S, marked)

MarkOwn(t) == /\ WaitGCMark(t)
              /\ Mark(roots[t])
              /\ UNCHANGED <<roots, global, field, owner>>

\* Mutant: leaves out the blocked threads.
MarkAllButBlocked(t) == /\ GcMark(t)
                        /\ Mark(roots[t] \cup Globals)
                        /\ UNCHANGED <<roots, global, field, owner>>

\* The collector marks for the blocked threads, for itself, and the globals.
MarkAll(t) == /\ GcMark(t)
              /\ Mark(RootsOf(blockedThreads \cup {t}) \cup Globals)
              /\ UNCHANGED <<roots, global, field, owner>>

\* Mutant: does not reset the marks.
SweepKeepsMarks(L) == /\ owner' = [o \in Object |->
                                     IF owner[o] \in L /\ o \notin marked THEN Freed
                                     ELSE owner[o]]
                      /\ UNCHANGED marked

\* GCSweepTy and GCSweep, of the lists L: free what is not marked, clear the
\* marks of the rest.
Sweep(L) == /\ owner' = [o \in Object |->
                           IF owner[o] \in L /\ o \notin marked THEN Freed ELSE owner[o]]
            /\ marked' = {o \in marked : owner[o] \notin L}

SweepOwn(t) == /\ WaitGCSweep(t)
               /\ Sweep({t})
               /\ UNCHANGED <<roots, global, field>>

SweepAll(t) == /\ GcSweep(t)
               /\ Sweep(blockedThreads \cup {t, DeadAllocs})
               /\ UNCHANGED <<roots, global, field>>

-----------------------------------------------------------------------------
\* The other steps of the group leave the objects alone.  GcStop, GcResume and
\* thread.group() are left out: they only keep a thread from taking a step, so
\* what happens to the objects with them also happens without them.
Other(t) == /\ \/ Block(t) \/ Unblock(t) \/ NewThreadReturn(t)
               \/ AddThread(t) \/ Created(t) \/ LeaveGroup(t)
               \/ CheckFlags(t) \/ WaitGCPhase(t) \/ WaitGCTake(t) \/ WaitGCReturn(t)
               \/ CheckUsed(t) \/ TyGC(t) \/ CleanupGC(t) \/ GcGroupLock(t) \/ GcScan(t)
               \/ StartGC(t) \/ GcStartSweep(t) \/ GcDone(t) \/ EndGC(t)
               \/ GcUnlock(t) \/ UnlockThreads(t)
            /\ UNCHANGED <<roots, global, field, owner, marked>>

Straying == phase = "MARK" /\ \E u \in list : Executing(u)

HeapInit == /\ Init
            /\ roots = [t \in Thread |-> {}]
            /\ global = NoObject
            /\ field = [o \in Object |-> NoObject]
            /\ owner = [o \in Object |-> Unborn]
            /\ marked = {}
            /\ strayed = FALSE

HeapNext == \E t \in Thread :
  /\ \/ Mutate(t) \/ Spawn(t) \/ Cleanup(t) \/ MarkOwn(t) \/ MarkAll(t)
     \/ SweepOwn(t) \/ SweepAll(t) \/ Other(t)
  /\ strayed' = (strayed \/ Straying')

HeapSpec == HeapInit /\ [][HeapNext]_<<groupVars, heapVars>>

-----------------------------------------------------------------------------
\* The state of the group and of its objects: every root, member and global
\* holds an object or nil.
HeapTypeOK == /\ TypeOK
              /\ roots \in [Thread -> SUBSET Object]
              /\ global \in Object \cup {NoObject}
              /\ field \in [Object -> Object \cup {NoObject}]
              /\ owner \in [Object -> Thread \cup {Unborn, DeadAllocs, Freed}]
              /\ marked \subseteq Object
              /\ strayed \in BOOLEAN

\* What the program can still get at.
Live == Reach(RootsOf(Thread) \cup Globals, {})

\* The collector frees nothing that a thread of the group can still reach.
NoDangling == \A o \in Live : owner[o] # Freed

\* The same, as long as no thread executed during a marking phase.
NoDanglingUnlessStray == strayed \/ NoDangling

\* No mark survives a collection, unless a thread executed during a marking
\* phase: the next one starts from nothing marked.
MarksCleared == HeapTypeOK /\ (phase = "NONE" => strayed \/ marked = {})
=============================================================================
