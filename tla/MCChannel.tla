------------------------------ MODULE MCChannel -----------------------------
EXTENDS Channel, TLC

CONSTANT Third   \* the third thread, if there is one

Symmetry == Permutations(Object) \cup Permutations(Thread \ {Third})

\* Objects that refer to themselves are not followed: cycles of two are enough.
NoLoop == \A o \in Object : field[o] # o

\* The third thread meets the other two in the channel while the objects they send
\* are plain ones that nobody has collected: a sender and two receivers.
Plain == /\ hard = {} /\ freed = {}
         /\ \A o \in Object : field[o] = NoObject
MCNext == \E t \in Thread : (t = Third => Plain) /\ Step(t)

\* Once it has taken part the objects stay plain; what it has it keeps until it
\* sends it.
Aside == Third \in Thread =>
           /\ at[Third] = "run" /\ allocs[Third] = <<>> /\ roots[Third] = {}
           /\ \A o \in Object : holder[o] # Third
ThirdPlain == Aside \/ (Plain /\ Range(allocs[Third]) \subseteq roots[Third])

MCSpec == Init /\ [][MCNext]_vars
=============================================================================
