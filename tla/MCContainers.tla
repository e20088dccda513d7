---------------------------- MODULE MCContainers ----------------------------
\* Two containers of the library in one run, chosen at the start.
\*
\* A queue of two values whose ring starts at two slots, wraps around and moves
\* with its head at every slot.  A dict of four keys whose table starts at
\* four slots and grows to eight: two keys share an ideal slot at the end of the
\* first table, one follows at its start.
EXTENDS Queue, Dict, TLC

CONSTANTS k1, k2, k3, k4

MCKeys == {k1, k2, k3, k4}
MCHash == (k1 :> 3) @@ (k2 :> 7) @@ (k3 :> 0) @@ (k4 :> 2)

VARIABLE container   \* which of the two

everything == <<container, vars, dictVars>>

MCInit == container \in {"queue", "dict"} /\ Init /\ DictInit

MCNext == \/ container = "queue" /\ Next /\ UNCHANGED <<container, dictVars>>
          \/ container = "dict" /\ DictNext /\ UNCHANGED <<container, vars>>

\* What follows when a method of the dict has gone on with a slot not its own
\* is not explored.
StillWhole == Whole

MCSpec == MCInit /\ [][MCNext]_everything
=============================================================================
