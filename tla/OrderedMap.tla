----------------------------- MODULE OrderedMap -----------------------------
(***************************************************************************)
(* What a Dict promises: a finite map that remembers the order in which    *)
(* its keys were first put, as a sequence of entries [k, v].               *)
(***************************************************************************)
EXTENDS Integers, Sequences

KeysOf(m) == {m[i].k : i \in DOMAIN m}

\* An entry keeps its place when its value changes; a new one goes to the end.
Assign(m, e) == IF e.k \in KeysOf(m)
                THEN [i \in DOMAIN m |-> IF m[i].k = e.k THEN e ELSE m[i]]
                ELSE Append(m, e)
AssignAll(m, es) ==
  LET after[i \in 0 .. Len(es)] == IF i = 0 THEN m ELSE Assign(after[i - 1], es[i])
  IN after[Len(es)]

\* The entries whose keys are not in K, and those whose keys are.
Except(m, K) ==
  LET kept[i \in 0 .. Len(m)] == IF i = 0 THEN <<>>
                                 ELSE IF m[i].k \in K THEN kept[i - 1]
                                 ELSE Append(kept[i - 1], m[i])
  IN kept[Len(m)]
Only(m, K) == Except(m, KeysOf(m) \ K)

=============================================================================
