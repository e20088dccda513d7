----------------------------- MODULE MCCollector ----------------------------
\* The collector in one run, chosen at the start: two threads and their
\* objects, the group alone with a third thread, Late, which the second can
\* create while the first collects, or one thread's sweeps with finalizers.
EXTENDS MCHeap, Finalizers

CONSTANT Late

VARIABLE subject

mcVars == <<subject, groupVars, heapVars, finalizerVars>>

MCInit == subject \in {"objects", "group", "finalizers"} /\ HeapInit /\ FinalizersInit

MCNext == /\ \/ /\ subject = "objects" /\ HeapNext /\ pc'[Late] = "none"
                /\ UNCHANGED finalizerVars
             \/ subject = "group" /\ Next /\ UNCHANGED <<heapVars, finalizerVars>>
             \/ subject = "finalizers" /\ FinalizersNext /\ UNCHANGED <<groupVars, heapVars>>
          /\ UNCHANGED subject

MCSpec == MCInit /\ [][MCNext]_mcVars

\* A behaviour is followed no further when a finalizer threw, after which the
\* thread sweeps no more.  With objects, when a thread executed during a marking
\* phase, when the last collection is over, after which nothing is freed, and
\* when an object refers to itself: cycles of two are enough.
LastOver == gcs = MaxGC /\ phase = "NONE" /\ gcLock = NoThread
Loop == \E o \in Object : field[o] = o
Followed == ~ off /\ (subject = "objects" => ~ (strayed \/ LastOver \/ Loop))
=============================================================================
