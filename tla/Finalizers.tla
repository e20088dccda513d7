----------------------------- MODULE Finalizers -----------------------------
(***************************************************************************)
(* One thread's part of a sweep, with the finalizers that collect runs in  *)
(* the middle of it (src/gc.c): GCSweepTy over the thread's own list and   *)
(* then GCSweep over DeadAllocs, both compacting the list in place.        *)
(*                                                                         *)
(* A finalizer is Ty code: it may read and store its object's member,      *)
(* allocate, and throw.  Objects are numbered in the order of their        *)
(* allocation, 0 is nil, and none is pinned.  That no other thread changes *)
(* anything meanwhile is ThreadGroup's SweepExclusion.                     *)
(***************************************************************************)
EXTENDS Naturals, Sequences, Functions

CONSTANT MaxAllocs    \* bound: objects allocated

ASSUME AllocsAssumption == MaxAllocs \in Nat

VARIABLES
  allocs,     \* "own": ty->allocs, "dead": DeadAllocs
  count,      \* objects allocated so far
  final,      \* the objects whose class has a finalizer
  inherited,  \* the objects that came from a thread that has exited
  ref,        \* the member of each object
  held,       \* the objects that the program's roots refer to
  marks,      \* the objects whose mark is set
  freed,      \* what ty_free has been called on
  twice,      \* ... and more than once
  sweeper,    \* the loop: its list, i and n, and whether a finalizer runs
  off,        \* a throw has skipped GC_RESUME and the rest of DoGC
  escaped     \* what finalizers stored although the sweep frees it

objVars == <<count, final, inherited, ref, held>>
finalizerVars == <<allocs, objVars, marks, freed, twice, sweeper, off, escaped>>

Id == 1 .. MaxAllocs
AtRest == [in |-> "none", i |-> 1, n |-> 0, at |-> "test"]

\* The objects reached from S by a traversal that does not go through X.
ReachedFrom(S, X) ==
  {o \in Id : \A C \in SUBSET Id :
                (S \subseteq C /\ \A x \in C \ X : ref[x] \in C \cup {0}) => o \in C}

-----------------------------------------------------------------------------
(* The program, between collections *)

\* Mutant: the list is pushed at its front.
AddAllocFirst(l, o) == allocs' = [allocs EXCEPT ![l] = <<o>> \o @]

AddAlloc(l, o) == allocs' = [allocs EXCEPT ![l] = Append(@, o)]

\* gc_alloc_object for the next object, with a class that has a finalizer if f.
NewObject(l, f) == /\ count < MaxAllocs
                   /\ count' = count + 1
                   /\ AddAlloc(l, count + 1)
                   /\ final' = IF f THEN final \cup {count + 1} ELSE final
                   /\ inherited' = IF l = "dead" THEN inherited \cup {count + 1} ELSE inherited

\* On the list "dead": by a thread of the group that has exited since.
Allocate(l, f) == /\ sweeper = AtRest
                  /\ NewObject(l, f)
                  /\ held' = held \cup {count + 1}
                  /\ UNCHANGED <<ref, marks, freed, twice, sweeper, off, escaped>>

AssignMember(o, v) == /\ sweeper = AtRest /\ o \in held \ freed
                      /\ ref' = [ref EXCEPT ![o] = v]
                      /\ UNCHANGED <<allocs, count, final, inherited, held, marks, freed, twice, sweeper, off, escaped>>

\* The program has dropped all of its references but those to H, and marking
\* is over; the sweep begins with the thread's own list.
BeginSweep(H) == /\ sweeper = AtRest /\ ~off
                 /\ held' = H
                 /\ marks' = marks \cup ReachedFrom(H, marks)
                 /\ sweeper' = [AtRest EXCEPT !.in = "own"]
                 /\ UNCHANGED <<allocs, count, final, inherited, ref, freed, twice, off, escaped>>

-----------------------------------------------------------------------------
(* The loop of GCSweepTy and GCSweep; vN(ty->allocs) is read in every round *)

List == allocs[sweeper.in]
This == List[sweeper.i]
AtTest == sweeper # AtRest /\ sweeper.at = "test" /\ sweeper.i <= Len(List)

\* Mutant: leaves the mark.
SweepKeepMarked == /\ AtTest /\ This \in marks
                   /\ allocs' = [allocs EXCEPT ![sweeper.in][sweeper.n + 1] = This]
                   /\ sweeper' = [sweeper EXCEPT !.i = @ + 1, !.n = @ + 1]
                   /\ UNCHANGED <<objVars, marks, freed, twice, off, escaped>>

\* Mutant: keeps the object where it was.
SweepKeepInPlace == /\ AtTest /\ This \in marks
                    /\ marks' = marks \ {This}
                    /\ sweeper' = [sweeper EXCEPT !.i = @ + 1, !.n = @ + 1]
                    /\ UNCHANGED <<allocs, objVars, freed, twice, off, escaped>>

SweepKeep == /\ AtTest /\ This \in marks
             /\ marks' = marks \ {This}
             /\ allocs' = [allocs EXCEPT ![sweeper.in][sweeper.n + 1] = This]
             /\ sweeper' = [sweeper EXCEPT !.i = @ + 1, !.n = @ + 1]
             /\ UNCHANGED <<objVars, freed, twice, off, escaped>>

\* Nothing is left of the member of a freed object.
Free == /\ freed' = freed \cup {This}
        /\ twice' = (twice \/ This \in freed)
        /\ sweeper' = [sweeper EXCEPT !.i = @ + 1, !.at = "test"]
        /\ ref' = [ref EXCEPT ![This] = 0]
        /\ UNCHANGED <<allocs, count, final, inherited, held, marks, off, escaped>>

SweepFree == AtTest /\ This \notin marks \cup final /\ Free

CallFinalizer == /\ AtTest /\ This \in final \ marks
                 /\ sweeper' = [sweeper EXCEPT !.at = "finalizer"]
                 /\ UNCHANGED <<allocs, objVars, marks, freed, twice, off, escaped>>

\* vN(ty->allocs) = n, and on to the next list.
SweepEnd == /\ sweeper # AtRest /\ sweeper.i > Len(List)
            /\ allocs' = [allocs EXCEPT ![sweeper.in] = SubSeq(@, 1, sweeper.n)]
            /\ sweeper' = IF sweeper.in = "own" THEN [AtRest EXCEPT !.in = "dead"] ELSE AtRest
            /\ UNCHANGED <<objVars, marks, freed, twice, off, escaped>>

-----------------------------------------------------------------------------
(* What a finalizer of the object This does *)

Finalizing == sweeper.at = "finalizer"

\* Its object, or what that refers to, becomes reachable again.
FinalizerStores == /\ Finalizing
                   /\ \E o \in {This, ref[This]} \ {0} :
                        held' = held \cup {o} /\ escaped' = escaped \cup {o}
                   /\ UNCHANGED <<allocs, count, final, inherited, ref, marks, freed, twice, sweeper, off>>

\* A new object goes to the thread's own list, its mark clear: the walk of
\* that list still comes to it.
FinalizerAllocates(f) ==
  /\ Finalizing
  /\ NewObject("own", f)
  /\ \/ UNCHANGED <<held, escaped>>
     \/ /\ held' = held \cup {count + 1}
        /\ escaped' = IF sweeper.in = "own" THEN escaped \cup {count + 1} ELSE escaped
  /\ UNCHANGED <<ref, marks, freed, twice, sweeper, off>>

FinalizerReturns == Finalizing /\ Free

\* The exception leaves the sweep and DoGC or WaitGC: the list is as it is,
\* and the thread neither starts a collection nor reports to one again.
FinalizerThrows == /\ Finalizing
                   /\ sweeper' = AtRest
                   /\ off' = TRUE
                   /\ UNCHANGED <<allocs, objVars, marks, freed, twice, escaped>>

-----------------------------------------------------------------------------
FinalizersInit == /\ allocs = [l \in {"own", "dead"} |-> <<>>]
                  /\ count = 0 /\ final = {} /\ held = {}
                  /\ ref = [o \in Id |-> 0]
                  /\ inherited = {} /\ marks = {} /\ freed = {} /\ twice = FALSE /\ sweeper = AtRest /\ off = FALSE
                  /\ escaped = {}

FinalizersNext ==
  \/ \E f \in BOOLEAN : FinalizerAllocates(f) \/ \E l \in {"own", "dead"} : Allocate(l, f)
  \/ \E o \in held, v \in held \cup {0} : AssignMember(o, v)
  \/ \E H \in SUBSET held : BeginSweep(H)
  \/ SweepKeep \/ SweepFree \/ CallFinalizer \/ SweepEnd
  \/ FinalizerStores \/ FinalizerReturns \/ FinalizerThrows

FinalizersSpec == FinalizersInit /\ [][FinalizersNext]_finalizerVars

-----------------------------------------------------------------------------
\* The sweep passes every object to ty_free once at most, whatever its
\* finalizer does and however many sweeps follow.  Between sweeps the two lists
\* hold exactly the objects that are not freed, each once and in the order of
\* their allocation, those that finalizers allocated included, unless a
\* finalizer threw.
SurvivorsListed ==
  /\ ~twice
  /\ sweeper = AtRest /\ ~off =>
    /\ Range(allocs["own"]) \cup Range(allocs["dead"]) = (1 .. count) \ freed
    /\ Range(allocs["own"]) \cap Range(allocs["dead"]) = {}
    /\ \A l \in {"own", "dead"} : \A i, j \in DOMAIN allocs[l] : i < j => allocs[l][i] < allocs[l][j]

\* Nothing the program can reach is freed, except through what a finalizer
\* stored; an object that a finalizer from DeadAllocs allocates is safe.
FinalizersKeepLive == ReachedFrom(held \ escaped, escaped) \cap freed \subseteq escaped

\* A finalizer can use what its object allocated in init, as the __free__ of
\* Mutex, CondVar and Note does: while it runs the member is not freed, unless
\* it is the older of the two, is on the list that is swept first, or a
\* finalizer brought one of them back.
MemberOutlivesFinalizer ==
  Finalizing /\ ref[This] \in freed =>
    \/ ref[This] < This
    \/ This \in inherited /\ ref[This] \notin inherited
    \/ {This, ref[This]} \cap escaped # {}
=============================================================================
