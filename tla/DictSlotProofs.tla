-------------------------- MODULE DictSlotProofs ----------------------------
(***************************************************************************)
(* What dict.c does to one table, for every set of keys and values, every  *)
(* hash and every size of the table.                                       *)
(*                                                                         *)
(* A table is sound when its keys are distinct and reachable: no slot      *)
(* between the ideal slot of a key and its own is empty.  A sequence of    *)
(* slots is its list when next and prev lead along it.  find_spot finds    *)
(* every key of a sound table and, for others, a slot where a new entry is *)
(* reachable; placing an entry, robin-hood and delete keep both.           *)
(*                                                                         *)
(* Holds(d, n, s, m): the table d of n slots is sound, its list is s, the  *)
(* entries along the list are m, and the counters are right and so small   *)
(* that a slot is empty.  A walk along the links then sees m.              *)
(***************************************************************************)
EXTENDS Dict, FiniteSetTheorems, TLAPS

\* Zenon proves every step that does not name another prover.
USE Zenon

-----------------------------------------------------------------------------
(* Sequences, induction and recursion *)

\* A sequence as a function.
LEMMA SeqIs ==
  ASSUME NEW S, NEW s \in Seq(S)
  PROVE  /\ Len(s) \in Nat /\ DOMAIN s = 1 .. Len(s) /\ (s = <<>> <=> Len(s) = 0)
         /\ \A j \in 1 .. Len(s) : s[j] \in S
BY SMT

\* One more element.
LEMMA AppendSeq ==
  ASSUME NEW S, NEW s \in Seq(S), NEW x \in S
  PROVE  /\ Append(s, x) \in Seq(S) /\ Len(Append(s, x)) = Len(s) + 1
         /\ Append(s, x)[Len(s) + 1] = x /\ \A j \in 1 .. Len(s) : Append(s, x)[j] = s[j]
BY SMT

\* A set of natural numbers has a least element.
LEMMA Least ==
  ASSUME NEW T \in SUBSET Nat, T # {}
  PROVE  \E x \in T : \A y \in T : x <= y
<1>1. PICK x \in T : \A y \in T : ~ (<<y, x>> \in OpToRel(<, Nat))
  BY NatLessThanWellFounded, WFMin
<1>2. \A y \in T : ~ (y < x)
  BY <1>1 DEF OpToRel
<1>3. \A y \in T : x <= y
  BY <1>2, SMT
<1> QED
  BY <1>3

\* What each step of a loop preserves holds to its end.
LEMMA LoopInvariant ==
  ASSUME NEW n \in Nat, NEW S, NEW f, f[0] \in S[0],
         \A i \in 1 .. n : f[i - 1] \in S[i - 1] => f[i] \in S[i]
  PROVE  \A i \in 0 .. n : f[i] \in S[i]
<1> DEFINE T == {i \in 0 .. n : f[i] \notin S[i]}
<1>1. ASSUME T # {}
      PROVE  FALSE
  <2>1. T \in SUBSET Nat
    BY SMT
  <2>2. PICK x \in T : \A y \in T : x <= y
    BY <1>1, <2>1, Least
  <2>3. x \in 0 .. n /\ x # 0
    OBVIOUS
  <2> x \in 1 .. n /\ x - 1 \in 0 .. n /\ ~ (x <= x - 1)
    BY <2>3, SMT
  <2>5. x - 1 \notin T
    BY <2>2
  <2>6. f[x - 1] \in S[x - 1]
    BY <2>5
  <2>7. f[x] \in S[x]
    BY <2>6
  <2> QED
    BY <2>7
<1> QED
  BY <1>1

\* The states f of a loop over 1 .. n that starts with a and takes a step g.
IsLoop(f, n, a, g) == f = [i \in 0 .. n |-> IF i = 0 THEN a ELSE g[<<i, f[i - 1]>>]]

\* A loop computes something: this recursive definition has a solution.
LEMMA LoopExists ==
  ASSUME NEW n \in Nat, NEW a, NEW g
  PROVE  \E f : IsLoop(f, n, a, g)
<1> DEFINE Solves(f, k) == f = [i \in 0 .. k |-> IF i = 0 THEN a ELSE g[<<i, f[i - 1]>>]]
           T == {k \in 0 .. n : ~ \E f : Solves(f, k)}
<1>1. ASSUME T # {}
      PROVE  FALSE
  <2>1. T \in SUBSET Nat
    BY SMT
  <2>2. PICK x \in T : \A y \in T : x <= y
    BY <1>1, <2>1, Least
  <2>3. x \in 0 .. n
    OBVIOUS
  <2>4. CASE x = 0
    <3>1. Solves([i \in 0 .. 0 |-> a], 0)
      BY SMT
    <3> QED
      BY <2>4, <3>1
  <2>5. CASE x # 0
    <3>1. x \in 1 .. n /\ x - 1 \in 0 .. n /\ ~ (x <= x - 1) /\ x \in Nat
      BY <2>3, <2>5, SMT
    <3>2. x - 1 \notin T
      BY <2>2, <3>1
    <3>3. PICK f : Solves(f, x - 1)
      BY <3>1, <3>2
    <3> DEFINE h == [i \in 0 .. x |-> IF i = x THEN g[<<x, f[x - 1]>>] ELSE f[i]]
    <3>4. \A i \in 0 .. x : i # x => i \in 0 .. x - 1
      BY <3>1, SMT
    <3>5. \A i \in 0 .. x : i # 0 => h[i - 1] = f[i - 1]
      BY <3>1, SMT
    <3>6. \A i \in 0 .. x : h[i] = IF i = 0 THEN a ELSE g[<<i, h[i - 1]>>]
      <4> SUFFICES ASSUME NEW i \in 0 .. x
                   PROVE  h[i] = IF i = 0 THEN a ELSE g[<<i, h[i - 1]>>]
        OBVIOUS
      <4>1. CASE i = x
        BY <4>1, <3>5, <2>5
      <4>2. CASE i # x
        <5>1. f[i] = IF i = 0 THEN a ELSE g[<<i, f[i - 1]>>]
          BY <4>2, <3>3, <3>4
        <5> QED
          BY <4>2, <5>1, <3>5
      <4> QED
        BY <4>1, <4>2
    <3>7. h = [i \in 0 .. x |-> IF i = 0 THEN a ELSE g[<<i, h[i - 1]>>]]
      BY <3>6
    <3>8. Solves(h, x)
      BY <3>7
    <3> QED
      BY <3>8
  <2> QED
    BY <2>4, <2>5
<1>2. n \in 0 .. n
  BY SMT
<1> QED
  BY <1>1, <1>2 DEF IsLoop

\* A loop whose steps lead from S[i - 1] to S[i] stays within these sets.
LEMMA LoopRuns ==
  ASSUME NEW n \in Nat, NEW S, NEW g, NEW a, a \in S[0],
         \A i \in 1 .. n : \A x \in S[i - 1] : g[<<i, x>>] \in S[i]
  PROVE  \E f : IsLoop(f, n, a, g) /\ \A i \in 0 .. n : f[i] \in S[i]
<1>1. PICK f : IsLoop(f, n, a, g)
  BY LoopExists
<1>2. f = [i \in 0 .. n |-> IF i = 0 THEN a ELSE g[<<i, f[i - 1]>>]]
  BY <1>1 DEF IsLoop
<1>3. \A i \in 1 .. n : i \in 0 .. n /\ i # 0
  BY SMT
<1>4. 0 \in 0 .. n
  BY SMT
<1>5. f[0] = a /\ \A i \in 1 .. n : f[i] = g[<<i, f[i - 1]>>]
  BY <1>2, <1>3, <1>4
<1>6. f[0] \in S[0] /\ \A i \in 1 .. n : f[i - 1] \in S[i - 1] => f[i] \in S[i]
  BY <1>5
<1>7. \A i \in 0 .. n : f[i] \in S[i]
  BY <1>6, LoopInvariant
<1> QED
  BY <1>1, <1>7

-----------------------------------------------------------------------------
(* Slots and probes *)

Spots(n) == 0 .. n - 1

\* The slot x places after the first, and the way from slot a to slot y.
Wrap(n, x) == IF x < n THEN x ELSE x - n
Dist(n, a, y) == IF a <= y THEN y - a ELSE y - a + n

\* A remainder is in its range.
LEMMA ModRange ==
  ASSUME NEW h \in Nat, NEW n \in Nat, n > 0
  PROVE  h % n \in Spots(n)
BY SMT DEF Spots

\* A number is its quotient and its remainder.
LEMMA ModSplit ==
  ASSUME NEW h \in Nat, NEW n \in Nat, n > 0
  PROVE  h = (n * (h \div n)) + (h % n) /\ h \div n \in Int
BY SMT

\* The remainder of a number that is given by a quotient and a remainder.
LEMMA ModOf ==
  ASSUME NEW n \in Nat, n > 0, NEW q \in Int, NEW r \in 0 .. n - 1
  PROVE  ((n * q) + r) % n = r
BY SMT

\* The j-th slot of a probe without the remainder of the sum.
LEMMA ProbeValue ==
  ASSUME NEW h \in Nat, NEW n \in Nat, n > 0, NEW j \in 0 .. n - 1
  PROVE  (h + j) % n = Wrap(n, (h % n) + j) /\ Wrap(n, (h % n) + j) \in Spots(n)
<1> DEFINE q == h \div n
           r == h % n
<1> h = (n * q) + r /\ q \in Int
  BY ModSplit, SMT
<1> r \in 0 .. n - 1
  BY ModRange, SMT DEF Spots
<1> HIDE DEF q, r
<1> CASE r + j < n
  <2>1. r + j \in 0 .. n - 1 /\ h + j = (n * q) + (r + j)
    BY SMT
  <2>2. (h + j) % n = r + j
    BY <2>1, ModOf
  <2> QED
    BY <2>1, <2>2, SMT DEF Wrap, r, Spots
<1> CASE ~ (r + j < n)
  <2>1. r + j - n \in 0 .. n - 1 /\ q + 1 \in Int
    BY SMT
  <2>2. n * (q + 1) = (n * q) + n
    BY SMT
  <2>3. n * q \in Int
    BY SMT
  <2>4. h + j = (n * (q + 1)) + (r + j - n)
    BY <2>2, <2>3, SMT
  <2>5. (h + j) % n = r + j - n
    BY <2>1, <2>4, ModOf
  <2> QED
    BY <2>1, <2>5, SMT DEF Wrap, r, Spots
<1> QED
  OBVIOUS

\* The distance between two slots without the remainder.
LEMMA DistValue ==
  ASSUME NEW n \in Nat, n > 0, NEW a \in Spots(n), NEW y \in Spots(n)
  PROVE  (y + n - a) % n = Dist(n, a, y) /\ Dist(n, a, y) \in Spots(n)
<1> CASE a <= y
  <2>1. y - a \in 0 .. n - 1 /\ y + n - a = (n * 1) + (y - a)
    BY SMT DEF Spots
  <2> QED
    BY <2>1, ModOf, SMT DEF Dist, Spots
<1> CASE ~ (a <= y)
  <2>1. y - a + n \in 0 .. n - 1 /\ y + n - a = (n * 0) + (y - a + n)
    BY SMT DEF Spots
  <2> QED
    BY <2>1, ModOf, SMT DEF Dist, Spots
<1> QED
  OBVIOUS

\* Going the distance leads there, and only that.
LEMMA WrapDist ==
  ASSUME NEW n \in Nat, NEW a \in Spots(n), NEW y \in Spots(n)
  PROVE  /\ Wrap(n, a + Dist(n, a, y)) = y
         /\ \A j \in Spots(n) : Wrap(n, a + j) = y => j = Dist(n, a, y)
BY SMT DEF Wrap, Dist, Spots

-----------------------------------------------------------------------------
(* Tables *)

Val == Given \cup Results \cup {NoKey}
Link0(n) == Spots(n) \cup {Null}
Item(n) == [k : Keys \cup {NoKey, Tombstone}, v : Val, h : Nat, prev : Link0(n), next : Link0(n)]
Tables(n) == [items : [Spots(n) -> Item(n)], last : Link0(n), count : Int, tombs : Int]

Full(d) == {i \in DOMAIN d.items : Occupied(d, i)}
Graves(d) == {i \in DOMAIN d.items : d.items[i].k = Tombstone}
Free(d) == {i \in DOMAIN d.items : d.items[i].k = NoKey}
Ideal(d, n, i) == d.items[i].h % n

\* The size of a table and the fields of a slot.
LEMMA TableFacts ==
  ASSUME NEW n \in Nat, NEW d \in Tables(n)
  PROVE  /\ DOMAIN d.items = Spots(n) /\ Size(d) = n
         /\ d.items \in [Spots(n) -> Item(n)] /\ d.last \in Link0(n)
         /\ d.count \in Int /\ d.tombs \in Int
         /\ \A i \in Spots(n) : /\ d.items[i] \in Item(n)
                                /\ d.items[i].k \in Keys \cup {NoKey, Tombstone}
                                /\ d.items[i].v \in Val /\ d.items[i].h \in Nat
                                /\ d.items[i].prev \in Link0(n) /\ d.items[i].next \in Link0(n)
<1> /\ d.items \in [Spots(n) -> Item(n)] /\ d.last \in Link0(n)
    /\ d.count \in Int /\ d.tombs \in Int
  BY DEF Tables
<1>2. DOMAIN d.items = Spots(n)
  OBVIOUS
<1>3. Cardinality(0 .. n - 1) = n
  <2>1. 0 \in Int /\ n - 1 \in Int
    BY SMT
  <2>2. Cardinality(0 .. n - 1) = IF 0 > n - 1 THEN 0 ELSE (n - 1) - 0 + 1
    BY <2>1, FS_Interval
  <2> QED
    BY <2>2, SMT
<1>4. Size(d) = n
  BY <1>2, <1>3 DEF Size, Spots
<1>5. \A i \in Spots(n) : d.items[i] \in Item(n)
  OBVIOUS
<1>6. \A i \in Spots(n) : /\ d.items[i].k \in Keys \cup {NoKey, Tombstone}
                          /\ d.items[i].v \in Val /\ d.items[i].h \in Nat
                          /\ d.items[i].prev \in Link0(n) /\ d.items[i].next \in Link0(n)
  BY <1>5 DEF Item
<1> QED
  BY <1>2, <1>4, <1>5, <1>6

-----------------------------------------------------------------------------
(* find_spot *)

\* What find_spot meets at step j of its probe for the key k.
Met(d, k, j) == d.items[Probe(d, Hash[k], j)].k

\* A probe is at a slot, and comes to every slot.
LEMMA ProbeIs ==
  ASSUME NEW n \in Nat, n > 0, NEW d \in Tables(n), NEW h \in Nat
  PROVE  /\ h % n \in Spots(n)
         /\ \A j \in Spots(n) : /\ Probe(d, h, j) = Wrap(n, (h % n) + j)
                                /\ Probe(d, h, j) \in Spots(n)
         /\ \A y \in Spots(n) : /\ Dist(n, h % n, y) \in Spots(n)
                                /\ Probe(d, h, Dist(n, h % n, y)) = y
<1>1. Size(d) = n
  BY TableFacts
<1>2. h % n \in Spots(n)
  BY ModRange
<1>3. \A j \in Spots(n) : /\ Probe(d, h, j) = Wrap(n, (h % n) + j)
                          /\ Probe(d, h, j) \in Spots(n)
  <2> TAKE j \in Spots(n)
  <2>1. Probe(d, h, j) = (h + j) % n
    BY <1>1 DEF Probe
  <2>2. j \in 0 .. n - 1
    BY DEF Spots
  <2>3. (h + j) % n = Wrap(n, (h % n) + j) /\ Wrap(n, (h % n) + j) \in Spots(n)
    BY <2>2, ProbeValue
  <2> QED
    BY <2>1, <2>3
<1>4. \A y \in Spots(n) : Dist(n, h % n, y) \in Spots(n)
  BY <1>2, DistValue
<1>5. \A y \in Spots(n) : Wrap(n, (h % n) + Dist(n, h % n, y)) = y
  BY <1>2, WrapDist
<1>6. \A y \in Spots(n) : Probe(d, h, Dist(n, h % n, y)) = y
  BY <1>3, <1>4, <1>5
<1> QED
  BY <1>2, <1>3, <1>4, <1>6

\* The keys.
LEMMA KeyFacts ==
  ASSUME NEW n \in Nat, NEW d \in Tables(n), NEW k \in Keys
  PROVE  /\ NoKey # Tombstone /\ k # NoKey /\ k # Tombstone /\ Hash[k] \in Nat
         /\ \A i : Occupied(d, i) <=> i \in Spots(n) /\ d.items[i].k \notin {NoKey, Tombstone}
<1>1. NoKey # Tombstone
  BY SMT DEF NoKey, Tombstone
<1>2. k # NoKey /\ k # Tombstone /\ Hash[k] \in Nat
  BY DictAssumption
<1> QED
  BY <1>1, <1>2, TableFacts DEF Occupied

\* A property that a step of a probe has, some step has first.
LEMMA FirstStep ==
  ASSUME NEW n \in Nat, NEW T \in SUBSET (0 .. n - 1), T # {}
  PROVE  \E x \in T : \A m \in 0 .. x - 1 : m \notin T
<1>1. T \in SUBSET Nat
  BY SMT
<1>2. PICK x \in T : \A y \in T : x <= y
  BY <1>1, Least
<1>3. \A m \in 0 .. x - 1 : ~ (x <= m)
  BY <1>1, SMT
<1> QED
  BY <1>2, <1>3

\* find_spot stops at the key, or at the first slot without an entry that it meets,
\* when it has met an empty slot and the key was not before it.
Stops(d, n, k, i, j) ==
  /\ i = Probe(d, Hash[k], j) /\ i \in Spots(n)
  /\ \/ d.items[i].k = k
     \/ /\ ~ Occupied(d, i)
        /\ \A m \in 0 .. j - 1 : Occupied(d, Probe(d, Hash[k], m))
        /\ \E e \in Spots(n) : /\ Met(d, k, e) = NoKey
                               /\ \A m \in 0 .. e - 1 : Met(d, k, m) # k

\* find_spot stops at the key, or at a slot without an entry before which all are taken.
LEMMA FindSpotStops ==
  ASSUME NEW n \in Nat, n > 0, NEW d \in Tables(n), NEW k \in Keys, Free(d) # {}
  PROVE  \E j \in Spots(n) : Stops(d, n, k, FindSpot(d, k), j)
<1> DEFINE h == Hash[k]
           Steps == 0 .. Size(d) - 1
           AtKey(i) == d.items[i].k
           end == CHOOSE x \in Steps : /\ AtKey(Probe(d, h, x)) = NoKey
                                       /\ \A m \in 0 .. x - 1 : AtKey(Probe(d, h, m)) # NoKey
           First(P) == {x \in 0 .. end - 1 : /\ AtKey(Probe(d, h, x)) = P
                                             /\ \A m \in 0 .. x - 1 : AtKey(Probe(d, h, m)) # P}
           C == IF First(k) # {} THEN First(k)
                ELSE IF First(Tombstone) # {} THEN First(Tombstone)
                ELSE {end}
           c == CHOOSE x \in C : TRUE
<1>1. Size(d) = n /\ DOMAIN d.items = Spots(n)
  BY TableFacts
<1>2. h \in Nat /\ NoKey # Tombstone /\ k # NoKey /\ k # Tombstone
  BY KeyFacts
<1>3. n # 0 /\ Steps = 0 .. n - 1
  BY <1>1, SMT
<1>4. FindSpot(d, k) = Probe(d, h, c)
  BY <1>1, <1>3 DEF FindSpot
<1> end \in 0 .. n - 1 /\ Met(d, k, end) = NoKey
    /\ \A m \in 0 .. end - 1 : Met(d, k, m) # NoKey
  <2> DEFINE T == {x \in 0 .. n - 1 : AtKey(Probe(d, h, x)) = NoKey}
  <2>1. PICK y \in Spots(n) : d.items[y].k = NoKey
    BY <1>1 DEF Free
  <2>2. Dist(n, h % n, y) \in 0 .. n - 1 /\ Probe(d, h, Dist(n, h % n, y)) = y
    BY <1>2, ProbeIs DEF Spots
  <2>3. T # {}
    BY <2>1, <2>2
  <2>4. T \in SUBSET (0 .. n - 1)
    OBVIOUS
  <2>5. PICK x \in T : \A m \in 0 .. x - 1 : m \notin T
    BY <2>3, <2>4, FirstStep
  <2>6. \A m \in 0 .. x - 1 : m \in 0 .. n - 1
    BY <2>5, SMT
  <2>7. \A m \in 0 .. x - 1 : AtKey(Probe(d, h, m)) # NoKey
    BY <2>5, <2>6
  <2>8. x \in Steps /\ AtKey(Probe(d, h, x)) = NoKey
    BY <1>3, <2>5
  <2>9. end \in Steps /\ AtKey(Probe(d, h, end)) = NoKey
        /\ \A m \in 0 .. end - 1 : AtKey(Probe(d, h, m)) # NoKey
    BY <2>7, <2>8
  <2> QED
    BY <1>3, <2>9 DEF Met
<1> HIDE DEF end
<1>6. \A x \in 0 .. end - 1 : x \in Spots(n) /\ \A m \in 0 .. x - 1 : m \in 0 .. end - 1 /\ m \in Spots(n)
  BY SMT DEF Spots
<1>7. \A P : (\E x \in 0 .. end - 1 : Met(d, k, x) = P) => First(P) # {}
  <2> SUFFICES ASSUME NEW P, NEW x0 \in 0 .. end - 1, Met(d, k, x0) = P
               PROVE  First(P) # {}
    OBVIOUS
  <2> DEFINE T == {x \in 0 .. end - 1 : Met(d, k, x) = P}
  <2>1. T \in SUBSET (0 .. end - 1) /\ T # {} /\ end \in Nat
    BY SMT
  <2>2. PICK x \in T : \A m \in 0 .. x - 1 : m \notin T
    <3> HIDE DEF T
    <3> QED
      BY <2>1, FirstStep
  <2>3. \A m \in 0 .. x - 1 : m \in 0 .. end - 1
    BY <2>2, <1>6
  <2>4. x \in First(P)
    BY <2>2, <2>3 DEF Met
  <2> QED
    BY <2>4
<1>8. c \in C
  OBVIOUS
<1> HIDE DEF c
<1>9. \A j \in Spots(n) : Probe(d, h, j) \in Spots(n)
  BY <1>2, ProbeIs
<1>10. CASE First(k) # {}
  <2>1. c \in 0 .. end - 1 /\ d.items[Probe(d, h, c)].k = k
    BY <1>8, <1>10
  <2>2. c \in Spots(n)
    BY <2>1, <1>6
  <2> QED
    BY <2>1, <2>2, <1>4, <1>9 DEF Stops
<1>11. CASE First(k) = {}
  <2>1. \A m \in 0 .. end - 1 : Met(d, k, m) # k
    BY <1>7, <1>11
  <2>2. end \in Spots(n)
    BY DEF Spots
  <2>3. \E e \in Spots(n) : Met(d, k, e) = NoKey /\ \A m \in 0 .. e - 1 : Met(d, k, m) # k
    BY <2>1, <2>2
  <2>4. /\ c \in Spots(n) /\ Met(d, k, c) \in {NoKey, Tombstone}
        /\ \A m \in 0 .. c - 1 : m \in Spots(n) /\ Met(d, k, m) \notin {NoKey, Tombstone}
    <3>1. CASE First(Tombstone) # {}
      <4>1. c \in 0 .. end - 1 /\ Met(d, k, c) = Tombstone
            /\ \A m \in 0 .. c - 1 : Met(d, k, m) # Tombstone
        BY <1>8, <1>11, <3>1 DEF Met
      <4>2. c \in Spots(n) /\ \A m \in 0 .. c - 1 : m \in 0 .. end - 1 /\ m \in Spots(n)
        BY <4>1, <1>6
      <4> QED
        BY <4>1, <4>2
    <3>2. CASE First(Tombstone) = {}
      <4>1. c = end
        BY <1>8, <1>11, <3>2
      <4>2. \A m \in 0 .. end - 1 : Met(d, k, m) # Tombstone
        BY <1>7, <3>2
      <4> QED
        BY <4>1, <4>2, <2>2, <1>6
    <3> QED
      BY <3>1, <3>2
  <2>5. ~ Occupied(d, Probe(d, h, c))
    BY <2>4, KeyFacts DEF Met
  <2>6. \A m \in 0 .. c - 1 : Occupied(d, Probe(d, h, m))
    BY <2>4, <1>9, KeyFacts DEF Met
  <2> QED
    BY <2>3, <2>4, <2>5, <2>6, <1>4, <1>9 DEF Stops
<1> QED
  BY <1>10, <1>11

Spot(n, h, j) == (h + j) % n

\* No slot on the way to an entry is empty.
Reach(d, n, i) == \A j \in 0 .. Dist(n, d.items[i].h % n, i) :
                    d.items[Spot(n, d.items[i].h, j)].k # NoKey

\* The entries are where find_spot looks for them; a key has one entry.
Sound(d, n) ==
  /\ \A i \in Full(d) : d.items[i].h = Hash[d.items[i].k] /\ Reach(d, n, i)
  /\ \A i, j \in Full(d) : d.items[i].k = d.items[j].k => i = j

\* Slot i is the first without an entry on the way of key k.
Vacant(d, n, k, i) ==
  /\ i \in Spots(n) /\ i \notin Full(d)
  /\ \E j \in Spots(n) : /\ i = Spot(n, Hash[k], j)
                         /\ \A m \in 0 .. j - 1 : Spot(n, Hash[k], m) \in Full(d)

\* The slots of a table.
LEMMA FullFacts ==
  ASSUME NEW n \in Nat, NEW d \in Tables(n)
  PROVE  /\ \A i : i \in Full(d) <=> Occupied(d, i)
         /\ \A i : i \in Full(d) <=> i \in Spots(n) /\ d.items[i].k \notin {NoKey, Tombstone}
         /\ \A i : i \in Graves(d) <=> i \in Spots(n) /\ d.items[i].k = Tombstone
         /\ \A i : i \in Free(d) <=> i \in Spots(n) /\ d.items[i].k = NoKey
         /\ \A i \in Full(d) : d.items[i].k \in Keys
         /\ NoKey # Tombstone
<1>1. NoKey # Tombstone
  BY SMT DEF NoKey, Tombstone
<1>2. DOMAIN d.items = Spots(n) /\ \A i \in Spots(n) : d.items[i].k \in Keys \cup {NoKey, Tombstone}
  BY TableFacts
<1> QED
  BY <1>1, <1>2 DEF Full, Graves, Free, Occupied

\* An occupied slot is a slot, neither empty nor a tombstone.
LEMMA FullApart ==
  ASSUME NEW n \in Nat, NEW d \in Tables(n), NEW x \in Full(d)
  PROVE  x \in Spots(n) /\ x \notin Free(d) /\ x \notin Graves(d)
<1> x \in Spots(n) /\ d.items[x].k \notin {NoKey, Tombstone}
  BY FullFacts
<1>2. x \notin Free(d)
  BY FullFacts
<1>3. x \notin Graves(d)
  BY FullFacts
<1> QED
  BY <1>2, <1>3

\* The steps of a probe.
LEMMA SpotIs ==
  ASSUME NEW n \in Nat, n > 0, NEW h \in Nat
  PROVE  /\ h % n \in Spots(n)
         /\ \A j \in Spots(n) : Spot(n, h, j) = Wrap(n, (h % n) + j) /\ Spot(n, h, j) \in Spots(n)
         /\ \A y \in Spots(n) : Dist(n, h % n, y) \in Spots(n) /\ Spot(n, h, Dist(n, h % n, y)) = y
<1> h % n \in Spots(n)
  BY ModRange
<1>3. \A j \in Spots(n) : Spot(n, h, j) = Wrap(n, (h % n) + j) /\ Spot(n, h, j) \in Spots(n)
  BY ProbeValue DEF Spot, Spots
<1>4. \A y \in Spots(n) : Dist(n, h % n, y) \in Spots(n)
  BY DistValue
<1>5. \A y \in Spots(n) : Wrap(n, (h % n) + Dist(n, h % n, y)) = y
  BY WrapDist
<1> QED
  BY <1>3, <1>4, <1>5

\* find_spot returns the slot of a key that is there, and the first vacant one for a key
\* that is not.
LEMMA FindSpotIs ==
  ASSUME NEW n \in Nat, n > 0, NEW d \in Tables(n), NEW k \in Keys, Free(d) # {}, Sound(d, n)
  PROVE  /\ FindSpot(d, k) \in Spots(n)
         /\ \A x \in Full(d) : d.items[x].k = k => FindSpot(d, k) = x
         /\ (\A x \in Full(d) : d.items[x].k # k) => Vacant(d, n, k, FindSpot(d, k))
         /\ Has(d, k) <=> \E x \in Full(d) : d.items[x].k = k
<1> DEFINE i == FindSpot(d, k)
           h == Hash[k]
<1> PICK j \in Spots(n) : Stops(d, n, k, i, j)
  BY FindSpotStops
<1> HIDE DEF i
<1> h \in Nat /\ k # NoKey /\ k # Tombstone /\ NoKey # Tombstone
  BY KeyFacts
<1> \A m : Probe(d, h, m) = Spot(n, h, m)
  BY TableFacts DEF Probe, Spot
<1> i \in Spots(n) /\ i = Spot(n, h, j)
  BY DEF Stops
<1> ASSUME NEW x \in Full(d), d.items[x].k = k
    PROVE  i = x
  <2> CASE d.items[i].k = k
    <3>1. i \in Full(d)
      BY FullFacts
    <3> QED
      BY <3>1 DEF Sound
  <2>2. CASE d.items[i].k # k
    <3>1. PICK e \in Spots(n) : /\ d.items[Spot(n, h, e)].k = NoKey
                                /\ \A m \in 0 .. e - 1 : d.items[Spot(n, h, m)].k # k
      BY <2>2 DEF Stops, Met
    <3> DEFINE y == Dist(n, h % n, x)
    <3>2. x \in Spots(n)
      BY FullFacts
    <3>3. y \in Spots(n) /\ Spot(n, h, y) = x
      BY <3>2, SpotIs
    <3>a. d.items[x].h = h /\ Reach(d, n, x)
      BY DEF Sound
    <3>4. \A m \in 0 .. y : d.items[Spot(n, h, m)].k # NoKey
      BY <3>a DEF Reach
    <3> HIDE DEF y
    <3>5. CASE y \in 0 .. e - 1
      BY <3>1, <3>3, <3>5
    <3>6. CASE y \notin 0 .. e - 1
      <4>1. e \in 0 .. y
        BY <3>3, <3>6, SMT DEF Spots
      <4> QED
        BY <4>1, <3>1, <3>4
    <3> QED
      BY <3>5, <3>6
  <2> QED
    BY <2>2
<1> ASSUME \A x \in Full(d) : d.items[x].k # k
    PROVE  Vacant(d, n, k, i) /\ ~ Occupied(d, i)
  <2>1. d.items[i].k # k
    BY FullFacts
  <2>2. ~ Occupied(d, i) /\ \A m \in 0 .. j - 1 : Occupied(d, Spot(n, h, m))
    BY <2>1 DEF Stops
  <2> QED
    BY <2>2, FullFacts DEF Vacant
<1>7. Has(d, k) <=> \E x \in Full(d) : d.items[x].k = k
  <2>1. Has(d, k) <=> i \in Full(d)
    BY FullFacts DEF Has, i
  <2>2. i \in Full(d) => \E x \in Full(d) : d.items[x].k = k
    BY FullFacts
  <2>3. (\E x \in Full(d) : d.items[x].k = k) => i \in Full(d)
    OBVIOUS
  <2> QED
    BY <2>1, <2>2, <2>3
<1> QED
  BY <1>7 DEF i

\* There is one first vacant slot.
LEMMA VacantUnique ==
  ASSUME NEW n \in Nat, n > 0, NEW d \in Tables(n), NEW k \in Keys,
         NEW x, NEW y, Vacant(d, n, k, x), Vacant(d, n, k, y)
  PROVE  x = y
<1>1. PICK i \in Spots(n) : /\ x = Spot(n, Hash[k], i)
                            /\ \A m \in 0 .. i - 1 : Spot(n, Hash[k], m) \in Full(d)
  BY DEF Vacant
<1>2. PICK j \in Spots(n) : /\ y = Spot(n, Hash[k], j)
                            /\ \A m \in 0 .. j - 1 : Spot(n, Hash[k], m) \in Full(d)
  BY DEF Vacant
<1>3. x \notin Full(d) /\ y \notin Full(d)
  BY DEF Vacant
<1>4. i = j \/ i \in 0 .. j - 1 \/ j \in 0 .. i - 1
  BY SMT DEF Spots
<1> QED
  BY <1>1, <1>2, <1>3, <1>4

-----------------------------------------------------------------------------
(* The list *)

\* Two tables differ at most in their links.
SameEntries(d, e, n) ==
  /\ e \in Tables(n) /\ e.count = d.count /\ e.tombs = d.tombs
  /\ \A x \in Spots(n) : /\ e.items[x].k = d.items[x].k /\ e.items[x].v = d.items[x].v
                         /\ e.items[x].h = d.items[x].h

\* linkxd to the next entry: only its prev, or last, changes.
LEMMA LinkNextIs ==
  ASSUME NEW n \in Nat, NEW d \in Tables(n), NEW i \in Spots(n)
  PROVE  LET e == LinkNext(d, i)
         IN /\ SameEntries(d, e, n)
            /\ e.last = IF d.items[i].next = Null THEN i ELSE d.last
            /\ \A x \in Spots(n) :
                 /\ e.items[x].next = d.items[x].next
                 /\ e.items[x].prev = IF x = d.items[i].next THEN i ELSE d.items[x].prev
<1> DEFINE y == d.items[i].next
<1> y \in Spots(n) \cup {Null} /\ i \in Link0(n) /\ Null \notin Spots(n)
  <2>1. Null \notin Spots(n)
    BY SMT DEF Null, Spots
  <2> QED
    BY <2>1, TableFacts DEF Link0
<1> CASE y = Null
  <2> DEFINE e == [d EXCEPT !.last = i]
  <2>1. LinkNext(d, i) = e
    BY DEF LinkNext
  <2>2. e \in Tables(n) /\ e.items = d.items /\ e.last = i /\ e.count = d.count /\ e.tombs = d.tombs
    BY SMT DEF Tables
  <2> QED
    BY <2>1, <2>2 DEF SameEntries
<1> CASE y # Null
  <2> DEFINE e == [d EXCEPT !.items[y].prev = i]
             u == [d.items[y] EXCEPT !.prev = i]
  <2>1. LinkNext(d, i) = e
    BY DEF LinkNext
  <2>2. y \in Spots(n)
    OBVIOUS
  <2> d.items \in [Spots(n) -> Item(n)] /\ d.items[y] \in Item(n)
    BY <2>2, TableFacts
  <2> u \in Item(n) /\ u.k = d.items[y].k /\ u.v = d.items[y].v /\ u.h = d.items[y].h
      /\ u.prev = i /\ u.next = d.items[y].next
    BY SMT DEF Item
  <2> HIDE DEF u
  <2> e.items = [d.items EXCEPT ![y] = u] /\ e.last = d.last /\ e.count = d.count /\ e.tombs = d.tombs
      /\ e \in Tables(n)
    <3>1. e = [d EXCEPT !.items = [d.items EXCEPT ![y] = u]]
      BY SMT DEF u
    <3>2. [d.items EXCEPT ![y] = u] \in [Spots(n) -> Item(n)]
      OBVIOUS
    <3> QED
      BY <3>1, <3>2, SMT DEF Tables
  <2> HIDE DEF e
  <2>6. \A x \in Spots(n) : e.items[x] = IF x = y THEN u ELSE d.items[x]
    OBVIOUS
  <2>7. SameEntries(d, e, n)
    BY <2>6 DEF SameEntries
  <2> QED
    BY <2>1, <2>6, <2>7
<1> QED
  OBVIOUS

\* linkxd to the previous entry: only its next changes.
LEMMA LinkPrevIs ==
  ASSUME NEW n \in Nat, NEW d \in Tables(n), NEW i \in Spots(n)
  PROVE  LET e == LinkPrev(d, i)
         IN /\ SameEntries(d, e, n)
            /\ e.last = d.last
            /\ \A x \in Spots(n) :
                 /\ e.items[x].prev = d.items[x].prev
                 /\ e.items[x].next = IF x = d.items[i].prev THEN i ELSE d.items[x].next
<1> DEFINE y == d.items[i].prev
<1> y \in Spots(n) \cup {Null} /\ i \in Link0(n) /\ Null \notin Spots(n)
  <2>1. Null \notin Spots(n)
    BY SMT DEF Null, Spots
  <2> QED
    BY <2>1, TableFacts DEF Link0
<1> CASE y = Null
  <2>1. LinkPrev(d, i) = d
    BY DEF LinkPrev
  <2> QED
    BY <2>1 DEF SameEntries
<1> CASE y # Null
  <2> DEFINE e == [d EXCEPT !.items[y].next = i]
             u == [d.items[y] EXCEPT !.next = i]
  <2>1. LinkPrev(d, i) = e
    BY DEF LinkPrev
  <2>2. y \in Spots(n)
    OBVIOUS
  <2> d.items \in [Spots(n) -> Item(n)] /\ d.items[y] \in Item(n)
    BY <2>2, TableFacts
  <2> u \in Item(n) /\ u.k = d.items[y].k /\ u.v = d.items[y].v /\ u.h = d.items[y].h
      /\ u.next = i /\ u.prev = d.items[y].prev
    BY SMT DEF Item
  <2> HIDE DEF u
  <2> e.items = [d.items EXCEPT ![y] = u] /\ e.last = d.last /\ e.count = d.count /\ e.tombs = d.tombs
      /\ e \in Tables(n)
    <3>1. e = [d EXCEPT !.items = [d.items EXCEPT ![y] = u]]
      BY SMT DEF u
    <3>2. [d.items EXCEPT ![y] = u] \in [Spots(n) -> Item(n)]
      OBVIOUS
    <3> QED
      BY <3>1, <3>2, SMT DEF Tables
  <2> HIDE DEF e
  <2>6. \A x \in Spots(n) : e.items[x] = IF x = y THEN u ELSE d.items[x]
    OBVIOUS
  <2>7. SameEntries(d, e, n)
    BY <2>6 DEF SameEntries
  <2> QED
    BY <2>1, <2>6, <2>7
<1> QED
  OBVIOUS

\* The neighbours of slot i in d point to it in e.
IsLinked(d, e, n, i) ==
  /\ SameEntries(d, e, n)
  /\ e.last = IF d.items[i].next = Null THEN i ELSE d.last
  /\ \A x \in Spots(n) :
       /\ e.items[x].prev = IF x = d.items[i].next THEN i ELSE d.items[x].prev
       /\ e.items[x].next = IF x = d.items[i].prev THEN i ELSE d.items[x].next

\* linkxd makes the neighbours of an entry point to it, and changes nothing else.
LEMMA LinkIs ==
  ASSUME NEW n \in Nat, NEW d \in Tables(n), NEW i \in Spots(n), d.items[i].next # i
  PROVE  IsLinked(d, Link(d, i), n, i)
<1> DEFINE c == LinkNext(d, i)
           e == LinkPrev(c, i)
<1>1. /\ SameEntries(d, c, n)
      /\ c.last = IF d.items[i].next = Null THEN i ELSE d.last
      /\ \A x \in Spots(n) :
           /\ c.items[x].next = d.items[x].next
           /\ c.items[x].prev = IF x = d.items[i].next THEN i ELSE d.items[x].prev
  BY LinkNextIs
<1>2. c \in Tables(n) /\ c.items[i].prev = d.items[i].prev
  BY <1>1 DEF SameEntries
<1> HIDE DEF c
<1>3. /\ SameEntries(c, e, n)
      /\ e.last = c.last
      /\ \A x \in Spots(n) :
           /\ e.items[x].prev = c.items[x].prev
           /\ e.items[x].next = IF x = c.items[i].prev THEN i ELSE c.items[x].next
  BY <1>2, LinkPrevIs
<1>4. Link(d, i) = e
  BY DEF Link, c
<1> HIDE DEF e
<1>5. SameEntries(d, e, n)
  <2>1. \A x \in Spots(n) : /\ e.items[x].k = d.items[x].k /\ e.items[x].v = d.items[x].v
                           /\ e.items[x].h = d.items[x].h
    <3> TAKE x \in Spots(n)
    <3>1. c.items[x].k = d.items[x].k /\ c.items[x].v = d.items[x].v /\ c.items[x].h = d.items[x].h
      BY <1>1 DEF SameEntries
    <3>2. e.items[x].k = c.items[x].k /\ e.items[x].v = c.items[x].v /\ e.items[x].h = c.items[x].h
      BY <1>3 DEF SameEntries
    <3> QED
      BY <3>1, <3>2
  <2>2. c.count = d.count /\ c.tombs = d.tombs /\ e.count = c.count /\ e.tombs = c.tombs /\ e \in Tables(n)
    BY <1>1, <1>3 DEF SameEntries
  <2> QED
    BY <2>1, <2>2 DEF SameEntries
<1>6. \A x \in Spots(n) :
        /\ e.items[x].prev = IF x = d.items[i].next THEN i ELSE d.items[x].prev
        /\ e.items[x].next = IF x = d.items[i].prev THEN i ELSE d.items[x].next
  <2> TAKE x \in Spots(n)
  <2>1. /\ c.items[x].next = d.items[x].next
        /\ c.items[x].prev = IF x = d.items[i].next THEN i ELSE d.items[x].prev
    BY <1>1
  <2>2. /\ e.items[x].prev = c.items[x].prev
        /\ e.items[x].next = IF x = d.items[i].prev THEN i ELSE c.items[x].next
    BY <1>2, <1>3
  <2> QED
    BY <2>1, <2>2
<1>7. e.last = IF d.items[i].next = Null THEN i ELSE d.last
  BY <1>1, <1>3
<1> QED
  BY <1>4, <1>5, <1>6, <1>7 DEF IsLinked

\* An item of a table is replaced.
IsItemSet(d, e, n, y, u) ==
  /\ e \in Tables(n) /\ e.last = d.last /\ e.count = d.count /\ e.tombs = d.tombs
  /\ \A x \in Spots(n) : e.items[x] = IF x = y THEN u ELSE d.items[x]

\* One slot of a table is replaced; the others stay.
LEMMA ItemSet ==
  ASSUME NEW n \in Nat, NEW d \in Tables(n), NEW y \in Spots(n), NEW u \in Item(n)
  PROVE  IsItemSet(d, [d EXCEPT !.items[y] = u], n, y, u)
<1> DEFINE w == [d.items EXCEPT ![y] = u]
           e == [d EXCEPT !.items[y] = u]
<1>1. d.items \in [Spots(n) -> Item(n)]
  BY TableFacts
<1>2. w \in [Spots(n) -> Item(n)] /\ \A x \in Spots(n) : w[x] = IF x = y THEN u ELSE d.items[x]
  BY <1>1
<1>3. e = [d EXCEPT !.items = w]
  BY SMT
<1> HIDE DEF w
<1>4. e.items = w /\ e.last = d.last /\ e.count = d.count /\ e.tombs = d.tombs /\ e \in Tables(n)
  BY <1>2, <1>3, SMT DEF Tables
<1> QED
  BY <1>2, <1>4 DEF IsItemSet

\* The slot of an entry after the exchange of slots a and b.
Trade(a, b, x) == IF x = a THEN b ELSE IF x = b THEN a ELSE x

\* The entries have changed places, and what they say of each other is right.
SameMoved(d, e, n, a, b) ==
  /\ e \in Tables(n) /\ e.count = d.count /\ e.tombs = d.tombs
  /\ \A x \in Spots(n) : LET y == Trade(a, b, x)
                         IN /\ e.items[x].k = d.items[y].k /\ e.items[x].v = d.items[y].v
                            /\ e.items[x].h = d.items[y].h
IsExchanged(d, e, n, a, b) ==
  /\ SameMoved(d, e, n, a, b) /\ e.last = d.last
  /\ \A x \in Spots(n) : x # a /\ x # b => e.items[x] = d.items[x]
  /\ e.items[a].next = IF d.items[b].next = a THEN b ELSE d.items[b].next
  /\ e.items[a].prev = IF d.items[b].prev = a THEN b ELSE d.items[b].prev
  /\ e.items[b].next = IF d.items[a].next = b THEN a ELSE d.items[a].next
  /\ e.items[b].prev = IF d.items[a].prev = b THEN a ELSE d.items[a].prev

\* The exchange in swap: the entries change places, and links between the two are turned.
LEMMA ExchangeIs ==
  ASSUME NEW n \in Nat, NEW d \in Tables(n), NEW a \in Spots(n), NEW b \in Spots(n), a # b
  PROVE  IsExchanged(d, Exchange(d, a, b), n, a, b)
<1> DEFINE e == Exchange(d, a, b)
           u == Moved(d.items[b], a, b)
           w == Moved(d.items[a], b, a)
           c == [d EXCEPT !.items[a] = u]
           f == [c EXCEPT !.items[b] = w]
<1>1. d.items[a] \in Item(n) /\ d.items[b] \in Item(n) /\ a \in Link0(n) /\ b \in Link0(n)
  BY TableFacts DEF Link0
<1>2. u \in Item(n) /\ u.k = d.items[b].k /\ u.v = d.items[b].v /\ u.h = d.items[b].h
      /\ u.next = (IF d.items[b].next = a THEN b ELSE d.items[b].next)
      /\ u.prev = (IF d.items[b].prev = a THEN b ELSE d.items[b].prev)
  BY <1>1 DEF Moved, Item
<1>3. w \in Item(n) /\ w.k = d.items[a].k /\ w.v = d.items[a].v /\ w.h = d.items[a].h
      /\ w.next = (IF d.items[a].next = b THEN a ELSE d.items[a].next)
      /\ w.prev = (IF d.items[a].prev = b THEN a ELSE d.items[a].prev)
  BY <1>1 DEF Moved, Item
<1>4. e = f
  <2>1. e = [d EXCEPT !.items[a] = u, !.items[b] = w]
    BY DEF Exchange
  <2> HIDE DEF u, w, e
  <2> QED
    BY <2>1, SMT
<1> HIDE DEF u, w, e
<1>5. c \in Tables(n) /\ c.last = d.last /\ c.count = d.count /\ c.tombs = d.tombs
      /\ \A x \in Spots(n) : c.items[x] = IF x = a THEN u ELSE d.items[x]
  <2>1. IsItemSet(d, c, n, a, u)
    BY <1>2, ItemSet
  <2> HIDE DEF c
  <2> QED
    BY <2>1 DEF IsItemSet
<1> HIDE DEF c
<1>6. f \in Tables(n) /\ f.last = c.last /\ f.count = c.count /\ f.tombs = c.tombs
      /\ \A x \in Spots(n) : f.items[x] = IF x = b THEN w ELSE c.items[x]
  <2>1. IsItemSet(c, f, n, b, w)
    <3>1. c \in Tables(n) /\ w \in Item(n)
      BY <1>3, <1>5
    <3> QED
      BY <3>1, ItemSet
  <2> HIDE DEF f
  <2> QED
    BY <2>1 DEF IsItemSet
<1> HIDE DEF f
<1>7. \A x \in Spots(n) : e.items[x] = IF x = b THEN w ELSE IF x = a THEN u ELSE d.items[x]
  <2> TAKE x \in Spots(n)
  <2>1. f.items[x] = IF x = b THEN w ELSE c.items[x]
    BY <1>6
  <2>2. c.items[x] = IF x = a THEN u ELSE d.items[x]
    BY <1>5
  <2> QED
    BY <1>4, <2>1, <2>2
<1>8. e.items[a] = u /\ e.items[b] = w
  BY <1>7
<1>9. \A x \in Spots(n) : LET y == Trade(a, b, x)
                          IN /\ e.items[x].k = d.items[y].k /\ e.items[x].v = d.items[y].v
                             /\ e.items[x].h = d.items[y].h
  <2> SUFFICES ASSUME NEW x \in Spots(n)
               PROVE  LET y == Trade(a, b, x)
                      IN /\ e.items[x].k = d.items[y].k /\ e.items[x].v = d.items[y].v
                         /\ e.items[x].h = d.items[y].h
    OBVIOUS
  <2>1. CASE x = a
    BY <2>1, <1>2, <1>8 DEF Trade
  <2>2. CASE x = b
    BY <2>2, <1>3, <1>8 DEF Trade
  <2>3. CASE x # a /\ x # b
    BY <2>3, <1>7 DEF Trade
  <2> QED
    BY <2>1, <2>2, <2>3
<1>10. \A x \in Spots(n) : x # a /\ x # b => e.items[x] = d.items[x]
  BY <1>7
<1>11. e \in Tables(n) /\ e.last = d.last /\ e.count = d.count /\ e.tombs = d.tombs
  BY <1>4, <1>5, <1>6
<1>12. /\ e.items[a].next = IF d.items[b].next = a THEN b ELSE d.items[b].next
       /\ e.items[a].prev = IF d.items[b].prev = a THEN b ELSE d.items[b].prev
       /\ e.items[b].next = IF d.items[a].next = b THEN a ELSE d.items[a].next
       /\ e.items[b].prev = IF d.items[a].prev = b THEN a ELSE d.items[a].prev
  BY <1>8, <1>2, <1>3
<1> QED
  BY <1>9, <1>10, <1>11, <1>12 DEF e, IsExchanged, SameMoved

\* The neighbours of position j of a list.
Nx(s, j) == IF j = Len(s) THEN Null ELSE s[j + 1]
Pv(s, j) == IF j = 1 THEN Null ELSE s[j - 1]

\* The list goes through the slots s in this order.
ListOf(d, n, s) ==
  /\ s \in Seq(Spots(n)) /\ IsInjective(s) /\ Range(s) = Full(d)
  /\ d.last = IF s = <<>> THEN Null ELSE s[Len(s)]
  /\ \A j \in 1 .. Len(s) : d.items[s[j]].next = Nx(s, j) /\ d.items[s[j]].prev = Pv(s, j)

\* Neighbours are neighbours of each other.
Linked(n, s) ==
  /\ Len(s) \in Nat /\ DOMAIN s = 1 .. Len(s)
  /\ \A j \in 1 .. Len(s) : s[j] \in Spots(n) /\ s[j] # Null
  /\ \A j, l \in 1 .. Len(s) : s[j] = s[l] => j = l
  /\ \A j, l \in 1 .. Len(s) : s[j] = Nx(s, l) => Pv(s, j) = s[l]
  /\ \A j, l \in 1 .. Len(s) : s[j] = Pv(s, l) => Nx(s, j) = s[l]
  /\ \A j \in 1 .. Len(s) : Nx(s, j) = Null <=> j = Len(s)
  /\ \A j \in 1 .. Len(s) : Pv(s, j) = Null <=> j = 1
  /\ \A j \in 1 .. Len(s) : Nx(s, j) # s[j] /\ Pv(s, j) # s[j]
  /\ \A j \in 1 .. Len(s) : Nx(s, j) # Null => \E l \in 1 .. Len(s) : Nx(s, j) = s[l]
  /\ \A j \in 1 .. Len(s) : Pv(s, j) # Null => \E l \in 1 .. Len(s) : Pv(s, j) = s[l]

\* The places next to a place of a list, if it has them.
LEMMA Within ==
  ASSUME NEW L \in Nat, NEW j \in 1 .. L
  PROVE  /\ j # L => j + 1 \in 1 .. L /\ (j + 1) - 1 = j /\ j + 1 # 1 /\ j + 1 # j
         /\ j # 1 => j - 1 \in 1 .. L /\ (j - 1) + 1 = j /\ j - 1 # L /\ j - 1 # j
BY SMT

\* In a list without repetition neighbours are neighbours of each other.
LEMMA Neighbours ==
  ASSUME NEW n \in Nat, NEW s \in Seq(Spots(n)), IsInjective(s)
  PROVE  Linked(n, s)
<1> Len(s) \in Nat /\ DOMAIN s = 1 .. Len(s) /\ \A j \in 1 .. Len(s) : s[j] \in Spots(n)
  BY SeqIs
<1> \A j \in 1 .. Len(s) : s[j] # Null
  BY SMT DEF Spots, Null
<1> \A j, l \in 1 .. Len(s) : s[j] = s[l] => j = l
  BY DEF IsInjective
<1> \A j \in 1 .. Len(s) : /\ j # Len(s) => j + 1 \in 1 .. Len(s) /\ (j + 1) - 1 = j /\ j + 1 # 1 /\ j + 1 # j
                           /\ j # 1 => j - 1 \in 1 .. Len(s) /\ (j - 1) + 1 = j /\ j - 1 # Len(s) /\ j - 1 # j
  BY Within
<1>5. \A j, l \in 1 .. Len(s) : s[j] = Nx(s, l) => Pv(s, j) = s[l]
  BY DEF Nx, Pv
<1>6. \A j, l \in 1 .. Len(s) : s[j] = Pv(s, l) => Nx(s, j) = s[l]
  BY DEF Nx, Pv
<1>7. /\ \A j \in 1 .. Len(s) : Nx(s, j) = Null <=> j = Len(s)
      /\ \A j \in 1 .. Len(s) : Pv(s, j) = Null <=> j = 1
  BY DEF Nx, Pv
<1>8. \A j \in 1 .. Len(s) : Nx(s, j) # s[j] /\ Pv(s, j) # s[j]
  BY DEF Nx, Pv
<1>9. /\ \A j \in 1 .. Len(s) : Nx(s, j) # Null => \E l \in 1 .. Len(s) : Nx(s, j) = s[l]
      /\ \A j \in 1 .. Len(s) : Pv(s, j) # Null => \E l \in 1 .. Len(s) : Pv(s, j) = s[l]
  BY DEF Nx, Pv
<1> QED
  BY <1>5, <1>6, <1>7, <1>8, <1>9 DEF Linked

\* The list after an exchange.
Traded(s, a, b) == [j \in 1 .. Len(s) |-> Trade(a, b, s[j])]

IsTraded(n, s, t, a, b) ==
  /\ t \in Seq(Spots(n)) /\ IsInjective(t) /\ Range(t) = Range(s) /\ Len(t) = Len(s)
  /\ \A j \in 1 .. Len(s) : /\ t[j] = Trade(a, b, s[j])
                            /\ Nx(t, j) = Trade(a, b, Nx(s, j))
                            /\ Pv(t, j) = Trade(a, b, Pv(s, j))

\* When two slots change places, so do the links of their neighbours.
LEMMA TradedIs ==
  ASSUME NEW n \in Nat, NEW s \in Seq(Spots(n)), IsInjective(s),
         NEW a \in Range(s), NEW b \in Range(s), a # b
  PROVE  IsTraded(n, s, Traded(s, a, b), a, b)
<1> DEFINE t == Traded(s, a, b)
           L == Len(s)
<1> /\ L \in Nat /\ DOMAIN s = 1 .. L
    /\ \A j \in 1 .. L : s[j] \in Spots(n) /\ s[j] # Null
    /\ \A j, l \in 1 .. L : s[j] = s[l] => j = l
  <2>1. Linked(n, s)
    BY Neighbours
  <2> QED
    BY <2>1 DEF Linked
<1> PICK A \in 1 .. L : s[A] = a
  BY DEF Range
<1> PICK B \in 1 .. L : s[B] = b
  BY DEF Range
<1> \A j \in 1 .. L : t[j] = Trade(a, b, s[j]) /\ t[j] \in Spots(n)
  BY DEF Traded, Trade
<1> DOMAIN t = 1 .. L /\ t \in [1 .. L -> Spots(n)]
  BY DEF Traded
<1> HIDE DEF t
<1>6. t \in Seq(Spots(n)) /\ Len(t) = L
  BY SeqIs, SMT
<1>7. IsInjective(t)
  BY DEF IsInjective, Trade
<1>8. t[A] = b /\ t[B] = a /\ \A j \in 1 .. L : j # A /\ j # B => t[j] = s[j]
  BY DEF Trade
<1>9. \A x : (\E j \in 1 .. L : t[j] = x) <=> (\E j \in 1 .. L : s[j] = x)
  BY <1>8
<1>10. Range(t) = Range(s)
  <2>1. \A x : x \in Range(t) <=> \E j \in 1 .. L : t[j] = x
    BY DEF Range
  <2>2. \A x : x \in Range(s) <=> \E j \in 1 .. L : s[j] = x
    BY DEF Range
  <2> QED
    BY <1>9, <2>1, <2>2
<1>11. a # Null /\ b # Null
  OBVIOUS
<1>12. \A j \in 1 .. L : (j # L => j + 1 \in 1 .. L) /\ (j # 1 => j - 1 \in 1 .. L)
  BY Within
<1>13. \A j \in 1 .. L : Nx(t, j) = Trade(a, b, Nx(s, j)) /\ Pv(t, j) = Trade(a, b, Pv(s, j))
  BY <1>6, <1>11, <1>12 DEF Nx, Pv, Trade
<1> QED
  BY <1>6, <1>7, <1>10, <1>13 DEF t, IsTraded

\* An exchange of two entries leaves the same slots with entries, and the tombstones.
LEMMA MovedFull ==
  ASSUME NEW n \in Nat, NEW d \in Tables(n), NEW e, NEW a \in Full(d), NEW b \in Full(d),
         SameMoved(d, e, n, a, b)
  PROVE  Full(e) = Full(d) /\ Graves(e) = Graves(d) /\ Free(e) = Free(d)
<1>1. e \in Tables(n) /\ \A x \in Spots(n) : e.items[x].k = d.items[Trade(a, b, x)].k
  BY DEF SameMoved
<1>2. /\ a \in Spots(n) /\ d.items[a].k \notin {NoKey, Tombstone}
      /\ b \in Spots(n) /\ d.items[b].k \notin {NoKey, Tombstone}
  BY FullFacts
<1>3. \A x \in Spots(n) : \/ e.items[x].k = d.items[x].k
                          \/ x \in {a, b} /\ e.items[x].k \notin {NoKey, Tombstone}
  BY <1>1, <1>2 DEF Trade
<1>4. \A x : /\ x \in Full(e) <=> x \in Full(d)
             /\ x \in Graves(e) <=> x \in Graves(d)
             /\ x \in Free(e) <=> x \in Free(d)
  <2>1. \A x : x \in Full(e) <=> x \in Spots(n) /\ e.items[x].k \notin {NoKey, Tombstone}
    BY <1>1, FullFacts
  <2>2. \A x : x \in Graves(e) <=> x \in Spots(n) /\ e.items[x].k = Tombstone
    BY <1>1, FullFacts
  <2>3. \A x : x \in Free(e) <=> x \in Spots(n) /\ e.items[x].k = NoKey
    BY <1>1, FullFacts
  <2>4. \A x : x \in Full(d) <=> x \in Spots(n) /\ d.items[x].k \notin {NoKey, Tombstone}
    BY FullFacts
  <2>5. \A x : x \in Graves(d) <=> x \in Spots(n) /\ d.items[x].k = Tombstone
    BY FullFacts
  <2>6. \A x : x \in Free(d) <=> x \in Spots(n) /\ d.items[x].k = NoKey
    BY FullFacts
  <2> QED
    <3> TAKE x
    <3>1. CASE x \in Spots(n) /\ e.items[x].k # d.items[x].k
      <4>1. x \in {a, b} /\ e.items[x].k \notin {NoKey, Tombstone} /\ d.items[x].k \notin {NoKey, Tombstone}
        BY <3>1, <1>2, <1>3
      <4> QED
        BY <3>1, <4>1, <2>1, <2>2, <2>3, <2>4, <2>5, <2>6
    <3>2. CASE x \in Spots(n) => e.items[x].k = d.items[x].k
      <4>1. x \in Full(e) <=> x \in Full(d)
        BY <3>2, <2>1, <2>4
      <4>2. x \in Graves(e) <=> x \in Graves(d)
        BY <3>2, <2>2, <2>5
      <4>3. x \in Free(e) <=> x \in Free(d)
        BY <3>2, <2>3, <2>6
      <4> QED
        BY <4>1, <4>2, <4>3
    <3> QED
      BY <3>1, <3>2
<1> QED
  BY <1>4

\* swap exchanges two entries and keeps the list.
LEMMA SwapIs ==
  ASSUME NEW n \in Nat, NEW d \in Tables(n), NEW s, ListOf(d, n, s),
         NEW a \in Full(d), NEW b \in Full(d), a # b
  PROVE  SameMoved(d, Swap(d, a, b), n, a, b) /\ ListOf(Swap(d, a, b), n, Traded(s, a, b))
<1> DEFINE E == Exchange(d, a, b)
           f == Link(E, a)
           g == Link(f, b)
           t == Traded(s, a, b)
<1>0. PICK L : L = Len(s)
  OBVIOUS
<1>1. s \in Seq(Spots(n)) /\ IsInjective(s) /\ Range(s) = Full(d)
      /\ d.last = (IF s = <<>> THEN Null ELSE s[L])
      /\ \A j \in 1 .. L : d.items[s[j]].next = Nx(s, j) /\ d.items[s[j]].prev = Pv(s, j)
  BY <1>0 DEF ListOf
<1>2. /\ L \in Nat /\ DOMAIN s = 1 .. L
      /\ \A j \in 1 .. L : s[j] \in Spots(n) /\ s[j] # Null
      /\ \A j, l \in 1 .. L : s[j] = s[l] => j = l
      /\ \A j \in 1 .. L : Nx(s, j) # s[j] /\ Pv(s, j) # s[j]
  <2>1. Linked(n, s)
    BY <1>1, Neighbours
  <2> QED
    BY <1>0, <2>1 DEF Linked
<1>3. PICK A \in 1 .. L : s[A] = a
  BY <1>1, <1>2 DEF Range
<1>4. PICK B \in 1 .. L : s[B] = b
  BY <1>1, <1>2 DEF Range
<1>5. t \in Seq(Spots(n)) /\ IsInjective(t) /\ Range(t) = Range(s) /\ Len(t) = L
      /\ \A j \in 1 .. L : /\ t[j] = Trade(a, b, s[j])
                           /\ Nx(t, j) = Trade(a, b, Nx(s, j)) /\ Pv(t, j) = Trade(a, b, Pv(s, j))
  <2>1. IsTraded(n, s, t, a, b)
    BY <1>1, TradedIs
  <2> QED
    BY <1>0, <2>1 DEF IsTraded
<1> HIDE DEF t
<1>6. /\ \A j \in 1 .. L : t[j] \in Spots(n) /\ t[j] # Null
      /\ \A j, l \in 1 .. L : t[j] = t[l] => j = l
      /\ \A j, l \in 1 .. L : t[j] = Nx(t, l) => Pv(t, j) = t[l]
      /\ \A j, l \in 1 .. L : t[j] = Pv(t, l) => Nx(t, j) = t[l]
      /\ \A j \in 1 .. L : Nx(t, j) = Null <=> j = L
      /\ \A j \in 1 .. L : Nx(t, j) # t[j] /\ Pv(t, j) # t[j]
  <2>1. Linked(n, t)
    BY <1>5, Neighbours
  <2> QED
    BY <1>5, <2>1 DEF Linked
<1>7. t[A] = b /\ t[B] = a /\ A # B /\ \A j \in 1 .. L : j # A /\ j # B => t[j] = s[j] /\ s[j] # a /\ s[j] # b
  BY <1>2, <1>3, <1>4, <1>5 DEF Trade
<1>8. a \in Spots(n) /\ b \in Spots(n)
  BY <1>2, <1>3, <1>4
<1>9. IsExchanged(d, E, n, a, b)
  BY <1>8, ExchangeIs
<1> HIDE DEF E
<1>10. /\ E.items[a].next = Nx(t, B) /\ E.items[a].prev = Pv(t, B)
       /\ E.items[b].next = Nx(t, A) /\ E.items[b].prev = Pv(t, A)
  <2>1. /\ d.items[a].next = Nx(s, A) /\ d.items[a].prev = Pv(s, A)
        /\ d.items[b].next = Nx(s, B) /\ d.items[b].prev = Pv(s, B)
    BY <1>1, <1>3, <1>4
  <2>2. /\ Nx(s, A) # a /\ Pv(s, A) # a /\ Nx(s, B) # b /\ Pv(s, B) # b
    BY <1>2, <1>3, <1>4
  <2>3. /\ E.items[a].next = (IF Nx(s, B) = a THEN b ELSE Nx(s, B))
        /\ E.items[a].prev = (IF Pv(s, B) = a THEN b ELSE Pv(s, B))
        /\ E.items[b].next = (IF Nx(s, A) = b THEN a ELSE Nx(s, A))
        /\ E.items[b].prev = (IF Pv(s, A) = b THEN a ELSE Pv(s, A))
    BY <1>9, <2>1 DEF IsExchanged
  <2>4. /\ Nx(t, A) = Trade(a, b, Nx(s, A)) /\ Pv(t, A) = Trade(a, b, Pv(s, A))
        /\ Nx(t, B) = Trade(a, b, Nx(s, B)) /\ Pv(t, B) = Trade(a, b, Pv(s, B))
    BY <1>3, <1>4, <1>5
  <2> QED
    BY <2>2, <2>3, <2>4, SMT DEF Trade
<1>11. \A j \in 1 .. L : j # A /\ j # B => /\ E.items[t[j]].next = Nx(s, j)
                                           /\ E.items[t[j]].prev = Pv(s, j)
  <2>1. \A x \in Spots(n) : x # a /\ x # b => E.items[x] = d.items[x]
    BY <1>9 DEF IsExchanged
  <2> SUFFICES ASSUME NEW j \in 1 .. L, j # A, j # B
               PROVE  E.items[t[j]].next = Nx(s, j) /\ E.items[t[j]].prev = Pv(s, j)
    OBVIOUS
  <2>2. t[j] = s[j] /\ s[j] # a /\ s[j] # b /\ s[j] \in Spots(n)
    BY <1>2, <1>7
  <2>3. E.items[t[j]] = d.items[s[j]]
    BY <2>1, <2>2
  <2> QED
    BY <2>3, <1>1
<1>12. E.items[a].next # a
  BY <1>4, <1>6, <1>7, <1>10
<1>13. IsLinked(E, f, n, a) /\ E \in Tables(n)
  <2>1. E \in Tables(n)
    BY <1>9 DEF IsExchanged, SameMoved
  <2> QED
    BY <1>8, <1>12, <2>1, LinkIs
<1> HIDE DEF f
<1>14. /\ f.last = IF Nx(t, B) = Null THEN a ELSE E.last
       /\ \A x \in Spots(n) :
            /\ f.items[x].prev = IF x = Nx(t, B) THEN a ELSE E.items[x].prev
            /\ f.items[x].next = IF x = Pv(t, B) THEN a ELSE E.items[x].next
  BY <1>10, <1>13 DEF IsLinked
<1>15. f.items[b].next = Nx(t, A) /\ f.items[b].prev = Pv(t, A)
  <2>1. f.items[b].prev = (IF b = Nx(t, B) THEN a ELSE Pv(t, A))
        /\ f.items[b].next = (IF b = Pv(t, B) THEN a ELSE Nx(t, A))
    BY <1>8, <1>10, <1>14
  <2>2. (b = Nx(t, B) => Pv(t, A) = a) /\ (b = Pv(t, B) => Nx(t, A) = a)
    <3>1. (t[A] = Nx(t, B) => Pv(t, A) = t[B]) /\ (t[A] = Pv(t, B) => Nx(t, A) = t[B])
      BY <1>3, <1>4, <1>6
    <3> QED
      BY <3>1, <1>7
  <2> QED
    BY <2>1, <2>2
<1>16. f \in Tables(n) /\ f.items[b].next # b
  BY <1>3, <1>6, <1>7, <1>13, <1>15 DEF SameEntries, IsLinked
<1>a. IsLinked(f, g, n, b)
  BY <1>8, <1>16, LinkIs
<1>b. /\ g.last = IF Nx(t, A) = Null THEN b ELSE f.last
      /\ \A x \in Spots(n) :
           /\ g.items[x].prev = IF x = Nx(t, A) THEN b ELSE f.items[x].prev
           /\ g.items[x].next = IF x = Pv(t, A) THEN b ELSE f.items[x].next
  BY <1>15, <1>a DEF IsLinked
<1>17. Swap(d, a, b) = g
  BY DEF Swap, f, E
<1> HIDE DEF g
<1>18. \A j \in 1 .. L : g.items[t[j]].next = Nx(t, j)
  <2> SUFFICES ASSUME NEW j \in 1 .. L
               PROVE  g.items[t[j]].next = Nx(t, j)
    BY SMT
  <2>1. g.items[t[j]].next = IF t[j] = Pv(t, A) THEN b ELSE IF t[j] = Pv(t, B) THEN a
                             ELSE E.items[t[j]].next
    <3>1. t[j] \in Spots(n)
      BY <1>6
    <3> QED
      BY <3>1, <1>14, <1>b
  <2>2. CASE t[j] = Pv(t, A)
    <3>1. Nx(t, j) = t[A]
      BY <2>2, <1>3, <1>6
    <3> QED
      BY <2>1, <2>2, <3>1, <1>7
  <2>3. CASE t[j] # Pv(t, A) /\ t[j] = Pv(t, B)
    <3>1. Nx(t, j) = t[B]
      BY <2>3, <1>4, <1>6
    <3> QED
      BY <2>1, <2>3, <3>1, <1>7
  <2>4. CASE t[j] # Pv(t, A) /\ t[j] # Pv(t, B)
    <3>1. CASE j = A \/ j = B
      BY <2>1, <2>4, <3>1, <1>7, <1>10
    <3>2. CASE j # A /\ j # B
      <4>1. g.items[t[j]].next = Nx(s, j)
        BY <2>1, <2>4, <3>2, <1>11
      <4>2. Nx(s, j) # a /\ Nx(s, j) # b
        <5>1. Nx(s, j) = a => Nx(t, j) = b
          BY <1>5 DEF Trade
        <5>2. Nx(s, j) = b => Nx(t, j) = a
          BY <1>5 DEF Trade
        <5>3. (Nx(t, j) = t[A] => Pv(t, A) = t[j]) /\ (Nx(t, j) = t[B] => Pv(t, B) = t[j])
          BY <1>3, <1>4, <1>6
        <5>4. Nx(t, j) # a /\ Nx(t, j) # b
          BY <2>4, <5>3, <1>7
        <5> QED
          BY <5>1, <5>2, <5>4
      <4> QED
        BY <4>1, <4>2, <1>5 DEF Trade
    <3> QED
      BY <3>1, <3>2
  <2> QED
    BY <2>2, <2>3, <2>4
<1>19. \A j \in 1 .. L : g.items[t[j]].prev = Pv(t, j)
  <2> SUFFICES ASSUME NEW j \in 1 .. L
               PROVE  g.items[t[j]].prev = Pv(t, j)
    BY SMT
  <2>1. g.items[t[j]].prev = IF t[j] = Nx(t, A) THEN b ELSE IF t[j] = Nx(t, B) THEN a
                             ELSE E.items[t[j]].prev
    <3>1. t[j] \in Spots(n)
      BY <1>6
    <3> QED
      BY <3>1, <1>14, <1>b
  <2>2. CASE t[j] = Nx(t, A)
    <3>1. Pv(t, j) = t[A]
      BY <2>2, <1>3, <1>6
    <3> QED
      BY <2>1, <2>2, <3>1, <1>7
  <2>3. CASE t[j] # Nx(t, A) /\ t[j] = Nx(t, B)
    <3>1. Pv(t, j) = t[B]
      BY <2>3, <1>4, <1>6
    <3> QED
      BY <2>1, <2>3, <3>1, <1>7
  <2>4. CASE t[j] # Nx(t, A) /\ t[j] # Nx(t, B)
    <3>1. CASE j = A \/ j = B
      BY <2>1, <2>4, <3>1, <1>7, <1>10
    <3>2. CASE j # A /\ j # B
      <4>1. g.items[t[j]].prev = Pv(s, j)
        BY <2>1, <2>4, <3>2, <1>11
      <4>2. Pv(s, j) # a /\ Pv(s, j) # b
        <5>1. Pv(s, j) = a => Pv(t, j) = b
          BY <1>5 DEF Trade
        <5>2. Pv(s, j) = b => Pv(t, j) = a
          BY <1>5 DEF Trade
        <5>3. (Pv(t, j) = t[A] => Nx(t, A) = t[j]) /\ (Pv(t, j) = t[B] => Nx(t, B) = t[j])
          BY <1>3, <1>4, <1>6
        <5>4. Pv(t, j) # a /\ Pv(t, j) # b
          BY <2>4, <5>3, <1>7
        <5> QED
          BY <5>1, <5>2, <5>4
      <4> QED
        BY <4>1, <4>2, <1>5 DEF Trade
    <3> QED
      BY <3>1, <3>2
  <2> QED
    BY <2>2, <2>3, <2>4
<1>20. t # <<>> /\ s # <<>> /\ g.last = t[Len(t)]
  <2>1. L # 0
    BY <1>2, <1>3, SMT
  <2>2. t # <<>> /\ s # <<>>
    BY <2>1, <1>0, <1>1, <1>5, SeqIs
  <2>3. d.last = s[L] /\ L \in 1 .. L
    BY <2>1, <2>2, <1>1, <1>2, SMT
  <2>4. g.last = IF A = L THEN b ELSE IF B = L THEN a ELSE s[L]
    <3>1. E.last = s[L]
      BY <2>3, <1>9 DEF IsExchanged
    <3>2. (Nx(t, A) = Null <=> A = L) /\ (Nx(t, B) = Null <=> B = L)
      BY <1>3, <1>4, <1>6
    <3> QED
      BY <3>1, <3>2, <1>14, <1>b
  <2>5. t[L] = IF A = L THEN b ELSE IF B = L THEN a ELSE s[L]
    BY <2>3, <1>7
  <2> QED
    BY <2>2, <2>4, <2>5, <1>5
<1>21. SameMoved(d, g, n, a, b)
  <2>1. SameEntries(f, g, n) /\ SameEntries(E, f, n) /\ SameMoved(d, E, n, a, b)
    BY <1>9, <1>13, <1>a DEF IsLinked, IsExchanged
  <2>2. g \in Tables(n) /\ g.count = d.count /\ g.tombs = d.tombs
    BY <2>1 DEF SameMoved, SameEntries
  <2>3. \A x \in Spots(n) : g.items[x].k = E.items[x].k /\ g.items[x].v = E.items[x].v
                            /\ g.items[x].h = E.items[x].h
    BY <2>1 DEF SameEntries
  <2>4. \A x \in Spots(n) : /\ E.items[x].k = d.items[Trade(a, b, x)].k
                            /\ E.items[x].v = d.items[Trade(a, b, x)].v
                            /\ E.items[x].h = d.items[Trade(a, b, x)].h
    BY <2>1 DEF SameMoved
  <2> QED
    BY <2>2, <2>3, <2>4 DEF SameMoved
<1>22. Full(g) = Full(d)
  BY <1>21, MovedFull
<1>23. ListOf(g, n, t)
  BY <1>0, <1>1, <1>5, <1>18, <1>19, <1>20, <1>22 DEF ListOf
<1> QED
  BY <1>17, <1>21, <1>23 DEF t

-----------------------------------------------------------------------------
(* robinhood *)

\* How far an entry is from its ideal slot.
LEMMA AwayIs ==
  ASSUME NEW n \in Nat, n > 0, NEW d \in Tables(n), NEW i \in Spots(n)
  PROVE  Away(d, i) = Dist(n, d.items[i].h % n, i) /\ Away(d, i) \in Spots(n)
<1>1. Size(d) = n /\ d.items[i].h \in Nat
  BY TableFacts
<1>2. d.items[i].h % n \in Spots(n)
  BY <1>1, ModRange
<1>3. (i + n - (d.items[i].h % n)) % n = Dist(n, d.items[i].h % n, i)
      /\ Dist(n, d.items[i].h % n, i) \in Spots(n)
  BY <1>2, DistValue
<1> QED
  BY <1>1, <1>3 DEF Away

\* Slots lo and i on the way from slot c, and an entry whose ideal slot is b: its way to
\* i, when it goes past lo, and its way to lo.
OnTheWay(n, c, M, m, b, i, lo) ==
  /\ i \in Spots(n) /\ lo \in Spots(n)
  /\ M - m <= Dist(n, b, i) => Dist(n, b, lo) = Dist(n, b, i) - (M - m)
  /\ Dist(n, b, lo) + (M - m) < n => Dist(n, b, i) = Dist(n, b, lo) + (M - m)
  /\ \A j \in Spots(n) :
       Dist(n, b, lo) <= j /\ j <= Dist(n, b, lo) + (M - m) =>
         m + (j - Dist(n, b, lo)) \in 0 .. M
         /\ Wrap(n, b + j) = Wrap(n, c + (m + (j - Dist(n, b, lo))))

\* The way of a probe that passes slot lo to slot i, seen from another ideal slot.
LEMMA Arcs ==
  ASSUME NEW n \in Nat, NEW c \in Spots(n), NEW M \in Spots(n), NEW m \in 0 .. M, NEW b \in Spots(n),
         NEW i, i = Wrap(n, c + M), NEW lo, lo = Wrap(n, c + m)
  PROVE  OnTheWay(n, c, M, m, b, i, lo)
<1>1. i \in Spots(n) /\ lo \in Spots(n)
  BY SMT DEF Wrap, Spots
<1>2. M - m <= Dist(n, b, i) => Dist(n, b, lo) = Dist(n, b, i) - (M - m)
  BY SMT DEF Wrap, Spots, Dist
<1>3. Dist(n, b, lo) + (M - m) < n => Dist(n, b, i) = Dist(n, b, lo) + (M - m)
  BY SMT DEF Wrap, Spots, Dist
<1>4. ASSUME NEW j \in Spots(n), Dist(n, b, lo) <= j, j <= Dist(n, b, lo) + (M - m)
      PROVE  m + (j - Dist(n, b, lo)) \in 0 .. M
             /\ Wrap(n, b + j) = Wrap(n, c + (m + (j - Dist(n, b, lo))))
  BY <1>4, SMT DEF Wrap, Spots, Dist
<1> QED
  BY <1>1, <1>2, <1>3, <1>4 DEF OnTheWay

\* The way from the ideal slot of hash h to slot x has no empty slot.
Path(d, n, h, x) == \A j \in 0 .. Dist(n, h % n, x) : Spot(n, h, j) \notin Free(d)

\* An entry is reached when the way from its ideal slot has no empty slot.
LEMMA ReachIsPath ==
  ASSUME NEW n \in Nat, n > 0, NEW d \in Tables(n), NEW x \in Spots(n)
  PROVE  Reach(d, n, x) <=> Path(d, n, d.items[x].h, x)
<1> DEFINE h == d.items[x].h
<1>1. h \in Nat
  BY TableFacts
<1>2. Dist(n, h % n, x) \in Spots(n)
  BY <1>1, SpotIs
<1>3. \A j \in 0 .. Dist(n, h % n, x) : j \in Spots(n)
  BY <1>2, SMT DEF Spots
<1>4. \A j \in 0 .. Dist(n, h % n, x) : Spot(n, h, j) \in Spots(n)
  BY <1>1, <1>3, SpotIs
<1>5. \A j \in 0 .. Dist(n, h % n, x) : Spot(n, h, j) \in Free(d) <=> d.items[Spot(n, h, j)].k = NoKey
  BY <1>4, FullFacts
<1> QED
  BY <1>5 DEF Reach, Path

\* An entry that goes from i back to lo, and one that goes from lo on to i.
LEMMA PathMoves ==
  ASSUME NEW n \in Nat, n > 0, NEW d \in Tables(n), Free(d) # {},
         NEW c \in Spots(n), NEW M \in Spots(n), NEW m \in 0 .. M,
         \A l \in 0 .. M : Wrap(n, c + l) \notin Free(d),
         NEW i, i = Wrap(n, c + M), NEW lo, lo = Wrap(n, c + m), NEW h \in Nat
  PROVE  /\ M - m <= Dist(n, h % n, i) /\ Path(d, n, h, i) => Path(d, n, h, lo)
         /\ Path(d, n, h, lo) => Path(d, n, h, i) /\ M - m <= Dist(n, h % n, i)
<1> DEFINE b == h % n
           x == Dist(n, b, lo)
<1> b \in Spots(n) /\ \A j \in Spots(n) : Spot(n, h, j) = Wrap(n, b + j)
  BY SpotIs
<1> HIDE DEF b
<1> /\ i \in Spots(n) /\ lo \in Spots(n)
    /\ M - m <= Dist(n, b, i) => Dist(n, b, lo) = Dist(n, b, i) - (M - m)
    /\ Dist(n, b, lo) + (M - m) < n => Dist(n, b, i) = Dist(n, b, lo) + (M - m)
    /\ \A j \in Spots(n) :
         Dist(n, b, lo) <= j /\ j <= Dist(n, b, lo) + (M - m) =>
           m + (j - Dist(n, b, lo)) \in 0 .. M
           /\ Wrap(n, b + j) = Wrap(n, c + (m + (j - Dist(n, b, lo))))
  <2>1. OnTheWay(n, c, M, m, b, i, lo)
    BY Arcs
  <2> QED
    BY <2>1 DEF OnTheWay
<1> x \in Spots(n) /\ Dist(n, b, i) \in Spots(n)
  BY DistValue
<1> ASSUME M - m <= Dist(n, b, i), Path(d, n, h, i)
    PROVE  Path(d, n, h, lo)
  <2>1. \A j \in 0 .. x : j \in 0 .. Dist(n, b, i)
    BY SMT DEF Spots
  <2> QED
    BY <2>1 DEF Path, b
<1>5. ASSUME Path(d, n, h, lo)
      PROVE  Path(d, n, h, i) /\ M - m <= Dist(n, b, i)
  <2>1. \A j \in 0 .. x : Spot(n, h, j) \notin Free(d)
    BY <1>5 DEF Path, b
  <2>2. \A j \in Spots(n) : j <= x + (M - m) => Spot(n, h, j) \notin Free(d)
    <3> SUFFICES ASSUME NEW j \in Spots(n), j <= x + (M - m)
                 PROVE  Spot(n, h, j) \notin Free(d)
      OBVIOUS
    <3>1. CASE j \in 0 .. x
      BY <2>1, <3>1
    <3>2. CASE j \notin 0 .. x
      <4>1. x <= j
        BY <3>2, SMT DEF Spots
      <4>2. m + (j - x) \in 0 .. M /\ Wrap(n, b + j) = Wrap(n, c + (m + (j - x)))
        BY <4>1
      <4> QED
        BY <4>2
    <3> QED
      BY <3>1, <3>2
  <2>3. x + (M - m) < n
    <3> SUFFICES ASSUME ~ (x + (M - m) < n)
                 PROVE  FALSE
      OBVIOUS
    <3>1. \A j \in Spots(n) : j <= x + (M - m)
      BY SMT DEF Spots
    <3>2. PICK y : y \in Free(d)
      OBVIOUS
    <3>3. y \in Spots(n)
      BY <3>2, FullFacts
    <3>4. Dist(n, b, y) \in Spots(n) /\ Spot(n, h, Dist(n, b, y)) = y
      BY <3>3, SpotIs DEF b
    <3> QED
      BY <2>2, <3>1, <3>2, <3>4
  <2>4. Dist(n, b, i) = x + (M - m)
    BY <2>3
  <2>5. M - m <= Dist(n, b, i)
    BY <2>4, SMT DEF Spots
  <2>6. \A j \in 0 .. Dist(n, b, i) : j \in Spots(n) /\ j <= x + (M - m)
    BY <2>3, <2>4, SMT DEF Spots
  <2> QED
    BY <2>2, <2>5, <2>6 DEF Path, b
<1> QED
  BY <1>5 DEF b

\* On a way without empty slots, a path to its end is one to a slot before it.
LEMMA PathBack ==
  ASSUME NEW n \in Nat, n > 0, NEW d \in Tables(n), Free(d) # {},
         NEW c \in Spots(n), NEW M \in Spots(n), NEW m \in 0 .. M,
         \A l \in 0 .. M : Wrap(n, c + l) \notin Free(d),
         NEW h \in Nat, M - m <= Dist(n, h % n, Wrap(n, c + M)), Path(d, n, h, Wrap(n, c + M))
  PROVE  Path(d, n, h, Wrap(n, c + m))
BY PathMoves

\* On a way without empty slots, a path to one slot goes on to its end.
LEMMA PathOn ==
  ASSUME NEW n \in Nat, n > 0, NEW d \in Tables(n), Free(d) # {},
         NEW c \in Spots(n), NEW M \in Spots(n), NEW m \in 0 .. M,
         \A l \in 0 .. M : Wrap(n, c + l) \notin Free(d),
         NEW h \in Nat, Path(d, n, h, Wrap(n, c + m))
  PROVE  Path(d, n, h, Wrap(n, c + M)) /\ M - m <= Dist(n, h % n, Wrap(n, c + M))
BY PathMoves

\* A table and its list; the entries in the order of the list.
Rep(d, n, s) == n \in Nat /\ n > 0 /\ d \in Tables(n) /\ Sound(d, n) /\ ListOf(d, n, s)
Along(d, s) == [j \in 1 .. Len(s) |-> EntryAt(d, s[j])]

\* Tables with the same entries in the same order and in the same slots.
Alike(d, s, e, t) ==
  /\ Along(e, t) = Along(d, s) /\ Len(t) = Len(s)
  /\ Full(e) = Full(d) /\ Graves(e) = Graves(d) /\ Free(e) = Free(d)
  /\ e.count = d.count /\ e.tombs = d.tombs

\* swap changes the slots of two entries, and neither the list nor the counters.
LEMMA SwapAlike ==
  ASSUME NEW n, NEW d, NEW s, Rep(d, n, s), NEW a \in Full(d), NEW b \in Full(d), a # b
  PROVE  /\ SameMoved(d, Swap(d, a, b), n, a, b)
         /\ ListOf(Swap(d, a, b), n, Traded(s, a, b))
         /\ Alike(d, s, Swap(d, a, b), Traded(s, a, b))
<1> DEFINE e == Swap(d, a, b)
           t == Traded(s, a, b)
<1> n \in Nat /\ d \in Tables(n) /\ ListOf(d, n, s)
  BY DEF Rep
<1> SameMoved(d, e, n, a, b) /\ ListOf(e, n, t)
  BY SwapIs
<1>3. Full(e) = Full(d) /\ Graves(e) = Graves(d) /\ Free(e) = Free(d)
  BY MovedFull
<1>4. s \in Seq(Spots(n)) /\ IsInjective(s) /\ Range(s) = Full(d)
  BY DEF ListOf
<1> Len(t) = Len(s) /\ \A j \in 1 .. Len(s) : t[j] = Trade(a, b, s[j])
  <2>1. IsTraded(n, s, t, a, b)
    BY <1>4, TradedIs
  <2> QED
    BY <2>1 DEF IsTraded
<1>6. \A j \in 1 .. Len(s) : s[j] \in Spots(n)
  <2>1. Linked(n, s)
    BY <1>4, Neighbours
  <2> QED
    BY <2>1 DEF Linked
<1>7. a \in Spots(n) /\ b \in Spots(n)
  BY FullFacts
<1> HIDE DEF e, t
<1>8. \A j \in 1 .. Len(s) : EntryAt(e, t[j]) = EntryAt(d, s[j])
  <2> SUFFICES ASSUME NEW j \in 1 .. Len(s)
               PROVE  EntryAt(e, t[j]) = EntryAt(d, s[j])
    BY SMT
  <2>1. t[j] \in Spots(n) /\ Trade(a, b, t[j]) = s[j]
    BY <1>6, <1>7 DEF Trade
  <2>2. e.items[t[j]].k = d.items[s[j]].k /\ e.items[t[j]].v = d.items[s[j]].v
    BY <2>1 DEF SameMoved
  <2> QED
    BY <2>2 DEF EntryAt
<1>9. Along(e, t) = Along(d, s)
  BY <1>8 DEF Along
<1>10. e.count = d.count /\ e.tombs = d.tombs
  BY DEF SameMoved
<1>11. Alike(d, s, e, t)
  BY <1>3, <1>9, <1>10 DEF Alike
<1> QED
  BY <1>11 DEF e, t

\* A step of robinhood at slot lo, which is m places from where the loop began.  The
\* entry that is in slot i then has its ideal slot at lo or before it.
LEMMA SettleIs ==
  ASSUME NEW n, NEW d, NEW s, Rep(d, n, s), Free(d) # {},
         NEW c \in Spots(n), NEW M \in Spots(n), NEW m \in 0 .. M - 1,
         \A l \in 0 .. M : Wrap(n, c + l) \in Full(d),
         NEW i, i = Wrap(n, c + M), NEW lo, lo = Wrap(n, c + m),
         M - m <= Away(d, i)
  PROVE  \E t : /\ Rep(Settle(d, i, lo), n, t) /\ Alike(d, s, Settle(d, i, lo), t)
                /\ M - (m + 1) <= Away(Settle(d, i, lo), i)
<1>1. n \in Nat /\ n > 0 /\ d \in Tables(n) /\ Sound(d, n)
  BY DEF Rep
<1>2. m \in 0 .. M /\ M \in 0 .. M /\ m # M /\ M \in Nat /\ m \in Nat
  BY <1>1, SMT DEF Spots
<1>3. i \in Full(d) /\ lo \in Full(d)
  BY <1>2
<1>4. i \in Spots(n) /\ lo \in Spots(n) /\ Full(d) \subseteq Spots(n)
  BY <1>1, <1>3, FullFacts
<1>5. Away(d, i) = Dist(n, d.items[i].h % n, i) /\ Away(d, i) \in Spots(n)
  BY <1>1, <1>4, AwayIs
<1>6. CASE ~ (Away(d, i) > Away(d, lo))
  <2>1. Settle(d, i, lo) = d
    BY <1>6 DEF Settle
  <2>2. M - (m + 1) <= Away(d, i)
    BY <1>1, <1>2, <1>5, SMT DEF Spots
  <2> QED
    BY <2>1, <2>2 DEF Alike
<1>7. CASE Away(d, i) > Away(d, lo)
  <2> DEFINE e == Swap(d, lo, i)
             t == Traded(s, lo, i)
  <2>1. Settle(d, i, lo) = e
    BY <1>7 DEF Settle
  <2>2. lo # i
    BY <1>5, <1>7, SMT DEF Spots
  <2>3. SameMoved(d, e, n, lo, i) /\ ListOf(e, n, t) /\ Alike(d, s, e, t)
    BY <1>3, <2>2, SwapAlike
  <2> HIDE DEF e, t
  <2>4. Full(e) = Full(d) /\ Free(e) = Free(d) /\ e \in Tables(n)
    BY <2>3 DEF Alike, SameMoved
  <2>5. \A x \in Spots(n) : /\ e.items[x].h = d.items[Trade(lo, i, x)].h
                            /\ e.items[x].k = d.items[Trade(lo, i, x)].k
    BY <2>3 DEF SameMoved
  <2>6. \A x \in Spots(n) : d.items[x].h \in Nat
    BY <1>1, TableFacts
  <2>7. \A x \in Full(d) : Path(d, n, d.items[x].h, x)
    BY <1>1, <1>4, ReachIsPath DEF Sound
  <2>8. \A l \in 0 .. M : Wrap(n, c + l) \notin Free(d)
    BY <1>1, FullApart
  <2>9. Path(d, n, d.items[i].h, lo)
    <3>1. M - m <= Dist(n, d.items[i].h % n, i) /\ Path(d, n, d.items[i].h, i)
                /\ d.items[i].h \in Nat
      BY <1>3, <1>4, <1>5, <2>6, <2>7
    <3> QED
      BY <3>1, <1>1, <1>2, <2>8, PathBack
  <2>10. Path(d, n, d.items[lo].h, i) /\ M - m <= Dist(n, d.items[lo].h % n, i)
    <3>1. Path(d, n, d.items[lo].h, lo)
      BY <1>3, <2>7
    <3>2. d.items[lo].h \in Nat
      BY <1>4, <2>6
    <3> QED
      BY <3>1, <3>2, <1>1, <1>2, <2>8, PathOn
  <2>11. \A x \in Full(d) : Trade(lo, i, x) \in Full(d) /\ Path(d, n, d.items[Trade(lo, i, x)].h, x)
    BY <1>3, <2>7, <2>9, <2>10 DEF Trade
  <2>12. \A x \in Full(e) : e.items[x].h = Hash[e.items[x].k] /\ Reach(e, n, x)
    <3> SUFFICES ASSUME NEW x \in Full(d)
                 PROVE  e.items[x].h = Hash[e.items[x].k] /\ Reach(e, n, x)
      BY <2>4
    <3>1. x \in Spots(n)
      BY <1>4
    <3>2. e.items[x].h = Hash[e.items[x].k]
      <4> DEFINE y == Trade(lo, i, x)
      <4>1. d.items[y].h = Hash[d.items[y].k]
        BY <1>1, <2>11 DEF Sound
      <4> QED
        BY <3>1, <4>1, <2>5
    <3>3. Path(e, n, e.items[x].h, x)
      BY <3>1, <2>4, <2>5, <2>11 DEF Path
    <3> QED
      BY <3>1, <3>2, <3>3, <1>1, <2>4, ReachIsPath
  <2>13. \A x, y \in Full(e) : e.items[x].k = e.items[y].k => x = y
    <3> SUFFICES ASSUME NEW x \in Full(d), NEW y \in Full(d), e.items[x].k = e.items[y].k
                 PROVE  x = y
      BY <2>4
    <3>1. d.items[Trade(lo, i, x)].k = d.items[Trade(lo, i, y)].k
      BY <1>4, <2>5
    <3>2. Trade(lo, i, x) = Trade(lo, i, y)
      BY <3>1, <1>1, <2>11 DEF Sound
    <3> QED
      BY <3>2, <2>2, SMT DEF Trade
  <2>14. Rep(e, n, t)
    BY <1>1, <2>3, <2>4, <2>12, <2>13 DEF Rep, Sound
  <2>15. Away(e, i) = Dist(n, d.items[lo].h % n, i) /\ Away(e, i) \in Spots(n)
    <3>1. e.items[i].h = d.items[lo].h
      BY <1>4, <2>5, <2>2 DEF Trade
    <3> QED
      BY <3>1, <1>1, <1>4, <2>4, AwayIs
  <2>16. M - m <= Away(e, i)
    BY <2>10, <2>15
  <2>17. M - (m + 1) <= Away(e, i)
    BY <2>15, <2>16, <1>1, <1>2, SMT DEF Spots
  <2> QED
    BY <2>1, <2>3, <2>14, <2>17
<1> QED
  BY <1>6, <1>7

\* robinhood leaves the same entries, in the same order and slots, where they are found.
LEMMA RobinHoodIs ==
  ASSUME NEW n, NEW d, NEW s, Rep(d, n, s), Free(d) # {}, NEW i \in Full(d),
         \A l \in 0 .. Away(d, i) : Spot(n, d.items[i].h, l) \in Full(d)
  PROVE  \E t : Rep(RobinHood(d, i), n, t) /\ Alike(d, s, RobinHood(d, i), t)
<1> DEFINE M == Away(d, i)
           h == d.items[i].h
           c == h % n
           Good(e, m) == \E t : Rep(e, n, t) /\ Alike(d, s, e, t) /\ M - m <= Away(e, i)
           S == [m \in 0 .. M |-> {e \in Tables(n) : Good(e, m)}]
           g == [p \in (1 .. M) \X Tables(n) |-> Settle(p[2], i, Probe(d, h, p[1] - 1))]
           Solves(f) == f = [m \in 0 .. M |-> IF m = 0 THEN d
                                              ELSE Settle(f[m - 1], i, Probe(d, h, m - 1))]
<1>1. n \in Nat /\ n > 0 /\ d \in Tables(n)
  BY DEF Rep
<1>2. i \in Spots(n) /\ h \in Nat
  BY <1>1, FullFacts, TableFacts
<1>3. M = Dist(n, c, i) /\ M \in Spots(n)
  BY <1>1, <1>2, AwayIs
<1>4. c \in Spots(n) /\ (\A j \in Spots(n) : Spot(n, h, j) = Wrap(n, c + j)) /\ Spot(n, h, M) = i
  <2>1. c \in Spots(n) /\ \A j \in Spots(n) : Spot(n, h, j) = Wrap(n, c + j)
    BY <1>1, <1>2, SpotIs
  <2>2. Spot(n, h, Dist(n, c, i)) = i
    BY <1>1, <1>2, SpotIs
  <2> QED
    BY <2>1, <2>2, <1>3
<1>5. i = Wrap(n, c + M)
  BY <1>3, <1>4
<1>6. M \in Nat /\ (\A l \in 0 .. M : l \in Spots(n)) /\ \A l \in 1 .. M : l - 1 \in Spots(n)
  BY <1>1, <1>3, SMT DEF Spots
<1>7. \A l \in 0 .. M : Wrap(n, c + l) \in Full(d)
  BY <1>4, <1>6
<1>8. \A m \in 1 .. M : Probe(d, h, m - 1) = Wrap(n, c + (m - 1))
  <2>1. \A j \in Spots(n) : Probe(d, h, j) = Wrap(n, c + j)
    BY <1>1, <1>2, ProbeIs
  <2> QED
    BY <2>1, <1>6
<1> HIDE DEF M, h, c
<1>9. \A m \in 1 .. M : m - 1 \in 0 .. M - 1 /\ m - 1 \in 0 .. M /\ m \in 0 .. M /\ m # 0 /\ (m - 1) + 1 = m
  BY <1>6, SMT
<1>10. d \in S[0]
  <2>1. Alike(d, s, d, s)
    BY DEF Alike
  <2>2. 0 \in 0 .. M /\ M - 0 = M /\ M <= M
    BY <1>6, SMT
  <2>3. M - 0 <= Away(d, i)
    BY <2>2 DEF M
  <2> QED
    BY <1>1, <2>1, <2>2, <2>3
<1>11. \A m \in 1 .. M : \A e \in S[m - 1] : Settle(e, i, Probe(d, h, m - 1)) \in S[m]
  <2> SUFFICES ASSUME NEW m \in 1 .. M, NEW e, e \in S[m - 1]
               PROVE  Settle(e, i, Probe(d, h, m - 1)) \in S[m]
    OBVIOUS
  <2>1. m - 1 \in 0 .. M - 1 /\ m - 1 \in 0 .. M /\ m \in 0 .. M /\ (m - 1) + 1 = m
    BY <1>9
  <2>2. Good(e, m - 1)
    BY <2>1
  <2>3. PICK u : Rep(e, n, u) /\ Alike(d, s, e, u) /\ M - (m - 1) <= Away(e, i)
    BY <2>2
  <2>4. Full(e) = Full(d) /\ Free(e) = Free(d)
    BY <2>3 DEF Alike
  <2> DEFINE lo == Wrap(n, c + (m - 1))
             w == Settle(e, i, lo)
  <2>5. /\ Free(e) # {} /\ \A l \in 0 .. M : Wrap(n, c + l) \in Full(e)
    BY <2>4, <1>7
  <2>6. \E t : Rep(w, n, t) /\ Alike(e, u, w, t) /\ M - ((m - 1) + 1) <= Away(w, i)
    BY <2>1, <2>3, <2>5, <1>3, <1>4, <1>5, SettleIs
  <2>7. PICK t : Rep(w, n, t) /\ Alike(e, u, w, t) /\ M - m <= Away(w, i)
    BY <2>1, <2>6
  <2>8. Alike(d, s, w, t)
    BY <2>3, <2>7 DEF Alike
  <2>9. w \in Tables(n)
    BY <2>7 DEF Rep
  <2>10. w \in S[m]
    BY <2>1, <2>7, <2>8, <2>9
  <2> QED
    BY <2>10, <1>8
<1>12. \A m \in 0 .. M : S[m] \subseteq Tables(n)
  OBVIOUS
<1> HIDE DEF S
<1>13. \E f : Solves(f)
  <2>1. \A m \in 1 .. M : \A e \in S[m - 1] : g[<<m, e>>] = Settle(e, i, Probe(d, h, m - 1))
    <3> SUFFICES ASSUME NEW m \in 1 .. M, NEW e, e \in S[m - 1]
                 PROVE  g[<<m, e>>] = Settle(e, i, Probe(d, h, m - 1))
      OBVIOUS
    <3>1. e \in Tables(n)
      BY <1>9, <1>12
    <3> QED
      BY <3>1
  <2> HIDE DEF g
  <2>2. \A m \in 1 .. M : \A e \in S[m - 1] : g[<<m, e>>] \in S[m]
    BY <2>1, <1>11
  <2>3. PICK f : IsLoop(f, M, d, g) /\ \A m \in 0 .. M : f[m] \in S[m]
    BY <1>6, <1>10, <2>2, LoopRuns
  <2>4. f = [m \in 0 .. M |-> IF m = 0 THEN d ELSE g[<<m, f[m - 1]>>]]
    BY <2>3 DEF IsLoop
  <2>5. \A m \in 0 .. M : m # 0 => m \in 1 .. M
    BY <1>6, SMT
  <2>6. \A m \in 0 .. M : m # 0 => g[<<m, f[m - 1]>>] = Settle(f[m - 1], i, Probe(d, h, m - 1))
    BY <2>1, <2>3, <2>5, <1>9
  <2> QED
    BY <2>4, <2>6
<1> DEFINE after == CHOOSE f : Solves(f)
<1>14. Solves(after)
  BY <1>13
<1>15. RobinHood(d, i) = after[M]
  BY SMT DEF RobinHood, M, h
<1> HIDE DEF after
<1>16. after[0] = d /\ \A m \in 1 .. M : after[m] = Settle(after[m - 1], i, Probe(d, h, m - 1))
  <2>1. 0 \in 0 .. M
    BY <1>6, SMT
  <2> QED
    BY <2>1, <1>9, <1>14
<1>17. \A m \in 0 .. M : after[m] \in S[m]
  BY <1>6, <1>10, <1>11, <1>16, LoopInvariant
<1>18. M \in 0 .. M
  BY <1>6, SMT
<1>19. Good(after[M], M)
  BY <1>17, <1>18 DEF S
<1> QED
  BY <1>15, <1>19

-----------------------------------------------------------------------------
(* put, delete and the assignment of a value *)

\* Only the counters change.
IsRecounted(d, e, n, s, c, b) ==
  /\ Rep(e, n, s) /\ Along(e, s) = Along(d, s) /\ e.count = c /\ e.tombs = b
  /\ Full(e) = Full(d) /\ Graves(e) = Graves(d) /\ Free(e) = Free(d)
  /\ e.items = d.items

\* Other counters leave the table and its list as they are.
LEMMA RecountIs ==
  ASSUME NEW n, NEW d, NEW s, Rep(d, n, s), NEW c \in Int, NEW b \in Int,
         NEW e, e = [d EXCEPT !.count = c, !.tombs = b]
  PROVE  IsRecounted(d, e, n, s, c, b)
<1>1. n \in Nat /\ n > 0 /\ d \in Tables(n) /\ Sound(d, n) /\ ListOf(d, n, s)
  BY DEF Rep
<1>2. e \in Tables(n) /\ e.items = d.items /\ e.last = d.last /\ e.count = c /\ e.tombs = b
  BY <1>1 DEF Tables
<1>3. Full(e) = Full(d) /\ Graves(e) = Graves(d) /\ Free(e) = Free(d)
  BY <1>2 DEF Full, Graves, Free, Occupied
<1>4. Sound(e, n)
  <2>1. \A x : Reach(e, n, x) <=> Reach(d, n, x)
    BY <1>2 DEF Reach
  <2> QED
    BY <2>1, <1>1, <1>2, <1>3, SMT DEF Sound
<1>5. ListOf(e, n, s)
  BY <1>1, <1>2, <1>3 DEF ListOf
<1>6. Along(e, s) = Along(d, s)
  BY <1>2 DEF Along, EntryAt
<1> QED
  BY <1>1, <1>2, <1>3, <1>4, <1>5, <1>6 DEF Rep, IsRecounted

\* A list that goes on with slot i.
IsLonger(n, s, t, i) ==
  /\ t \in Seq(Spots(n)) /\ IsInjective(t) /\ Range(t) = Range(s) \cup {i}
  /\ Len(t) = Len(s) + 1 /\ t[Len(s) + 1] = i /\ t # <<>>
  /\ \A j \in 1 .. Len(s) : t[j] = s[j]

\* A slot that is not in the list goes to its end.
LEMMA AppendIs ==
  ASSUME NEW n \in Nat, NEW s \in Seq(Spots(n)), IsInjective(s), NEW i \in Spots(n), i \notin Range(s)
  PROVE  IsLonger(n, s, Append(s, i), i)
<1> DEFINE t == Append(s, i)
           L == Len(s)
<1> t \in Seq(Spots(n)) /\ Len(t) = L + 1 /\ (\A j \in 1 .. L : t[j] = s[j]) /\ t[L + 1] = i /\ L \in Nat
  BY AppendSeq, SeqIs, SMT
<1> DOMAIN t = 1 .. L + 1 /\ DOMAIN s = 1 .. L
  BY SeqIs, SMT
<1> HIDE DEF t
<1>3. \A j \in 1 .. L + 1 : j \in 1 .. L \/ j = L + 1
  BY SMT
<1>4. (\A j \in 1 .. L : j \in 1 .. L + 1) /\ L + 1 \in 1 .. L + 1
  BY SMT
<1>5. \A j \in 1 .. L : s[j] # i
  BY DEF Range
<1>6. IsInjective(t)
  BY <1>3, <1>5 DEF IsInjective
<1>7. Range(t) = Range(s) \cup {i}
  <2>1. \A x : x \in Range(t) <=> \E j \in 1 .. L + 1 : t[j] = x
    BY DEF Range
  <2>2. \A x : x \in Range(s) <=> \E j \in 1 .. L : s[j] = x
    BY DEF Range
  <2>3. \A x : x \in Range(t) <=> x \in Range(s) \/ x = i
    BY <2>1, <2>2, <1>3, <1>4
  <2> QED
    BY <2>3
<1>8. t # <<>>
  BY SeqIs, SMT
<1> QED
  BY <1>6, <1>7, <1>8 DEF t, IsLonger

\* What Place makes of a table.
IsPlaced(d, e, n, i, k, v) ==
  /\ e \in Tables(n) /\ e.last = i /\ e.count = d.count /\ e.tombs = d.tombs
  /\ e.items[i].k = k /\ e.items[i].v = v /\ e.items[i].h = Hash[k]
  /\ e.items[i].prev = d.last /\ e.items[i].next = Null
  /\ \A x \in Spots(n) : x # i =>
       /\ e.items[x].k = d.items[x].k /\ e.items[x].v = d.items[x].v /\ e.items[x].h = d.items[x].h
       /\ e.items[x].prev = d.items[x].prev
       /\ e.items[x].next = IF x = d.last THEN i ELSE d.items[x].next

\* An entry goes into slot i and behind the last one; other entries keep theirs.
LEMMA PlaceIs ==
  ASSUME NEW n \in Nat, NEW d \in Tables(n), NEW i \in Spots(n), i # d.last, NEW k \in Keys, NEW v \in Val
  PROVE  IsPlaced(d, Place(d, i, k, v), n, i, k, v)
<1> DEFINE u == [k |-> k, v |-> v, h |-> Hash[k], prev |-> d.last, next |-> Null]
           w == [d.items[d.last] EXCEPT !.next = i]
           c == IF d.last = Null THEN d ELSE [d EXCEPT !.items[d.last].next = i]
           e == [c EXCEPT !.items[i] = u]
           f == [c EXCEPT !.items[i] = u, !.last = i]
<1>1. Place(d, i, k, v) = f
  BY DEF Place
<1>2. Hash[k] \in Nat /\ d.last \in Link0(n) /\ Null \in Link0(n) /\ i \in Link0(n) /\ Null \notin Spots(n)
  <2>1. Null \notin Spots(n)
    BY SMT DEF Null, Spots
  <2> QED
    BY <2>1, KeyFacts, TableFacts DEF Link0
<1>3. u \in Item(n) /\ u.k = k /\ u.v = v /\ u.h = Hash[k] /\ u.prev = d.last /\ u.next = Null
  BY <1>2, SMT DEF Item
<1> HIDE DEF u
<1>4. /\ c \in Tables(n) /\ c.last = d.last /\ c.count = d.count /\ c.tombs = d.tombs
      /\ \A x \in Spots(n) :
           /\ c.items[x].k = d.items[x].k /\ c.items[x].v = d.items[x].v /\ c.items[x].h = d.items[x].h
           /\ c.items[x].prev = d.items[x].prev
           /\ c.items[x].next = IF x = d.last THEN i ELSE d.items[x].next
  <2>1. CASE d.last = Null
    BY <2>1, <1>2
  <2>2. CASE d.last # Null
    <3>1. d.last \in Spots(n)
      BY <2>2, <1>2 DEF Link0
    <3>2. d.items[d.last] \in Item(n) /\ d.items \in [Spots(n) -> Item(n)]
      BY <3>1, TableFacts
    <3>3. w \in Item(n) /\ w.k = d.items[d.last].k /\ w.v = d.items[d.last].v /\ w.h = d.items[d.last].h
          /\ w.prev = d.items[d.last].prev /\ w.next = i
      BY <3>2, <1>2, SMT DEF Item
    <3>4. c = [d EXCEPT !.items[d.last] = w]
      BY <2>2, SMT
    <3> HIDE DEF w, c
    <3>5. /\ c \in Tables(n) /\ c.last = d.last /\ c.count = d.count /\ c.tombs = d.tombs
          /\ \A x \in Spots(n) : c.items[x] = IF x = d.last THEN w ELSE d.items[x]
      <4>1. IsItemSet(d, c, n, d.last, w)
        BY <3>1, <3>3, <3>4, ItemSet
      <4> QED
        BY <4>1 DEF IsItemSet
    <3> QED
      BY <3>3, <3>5
  <2> QED
    BY <2>1, <2>2
<1> HIDE DEF c
<1>5. /\ e \in Tables(n) /\ e.last = c.last /\ e.count = c.count /\ e.tombs = c.tombs
      /\ \A x \in Spots(n) : e.items[x] = IF x = i THEN u ELSE c.items[x]
  <2>1. IsItemSet(c, e, n, i, u)
    BY <1>3, <1>4, ItemSet
  <2> QED
    BY <2>1 DEF IsItemSet
<1>6. f = [e EXCEPT !.last = i]
  BY <1>4, SMT DEF Tables
<1> HIDE DEF e, f
<1>7. f \in Tables(n) /\ f.items = e.items /\ f.last = i /\ f.count = e.count /\ f.tombs = e.tombs
  BY <1>2, <1>5, <1>6, SMT DEF Tables
<1>8. f.items[i] = u /\ \A x \in Spots(n) : x # i => f.items[x] = c.items[x]
  BY <1>5, <1>7
<1>9. \A x \in Spots(n) : x # i =>
        /\ f.items[x].k = d.items[x].k /\ f.items[x].v = d.items[x].v /\ f.items[x].h = d.items[x].h
        /\ f.items[x].prev = d.items[x].prev
        /\ f.items[x].next = IF x = d.last THEN i ELSE d.items[x].next
  <2> SUFFICES ASSUME NEW x \in Spots(n), x # i
               PROVE  /\ f.items[x].k = d.items[x].k /\ f.items[x].v = d.items[x].v
                      /\ f.items[x].h = d.items[x].h /\ f.items[x].prev = d.items[x].prev
                      /\ f.items[x].next = IF x = d.last THEN i ELSE d.items[x].next
    OBVIOUS
  <2>1. f.items[x] = c.items[x]
    BY <1>8
  <2>2. /\ c.items[x].k = d.items[x].k /\ c.items[x].v = d.items[x].v
        /\ c.items[x].h = d.items[x].h /\ c.items[x].prev = d.items[x].prev
        /\ c.items[x].next = IF x = d.last THEN i ELSE d.items[x].next
    BY <1>4
  <2> QED
    BY <2>1, <2>2
<1>10. f.count = d.count /\ f.tombs = d.tombs
  BY <1>4, <1>5, <1>7
<1> QED
  BY <1>1, <1>3, <1>7, <1>8, <1>9, <1>10 DEF IsPlaced

\* The entries of a list.
Pair == [k : Keys, v : Val]

\* Append as a function.
LEMMA AppendValue ==
  ASSUME NEW S, NEW A \in Seq(S), NEW x \in S
  PROVE  /\ Append(A, x) = [l \in 1 .. Len(A) + 1 |-> IF l = Len(A) + 1 THEN x ELSE A[l]]
         /\ Append(A, x) \in Seq(S) /\ Len(Append(A, x)) = Len(A) + 1
<1> DEFINE B == Append(A, x)
           L == Len(A)
<1> B \in Seq(S) /\ Len(B) = L + 1 /\ (\A j \in 1 .. L : B[j] = A[j]) /\ B[L + 1] = x /\ L \in Nat
  BY AppendSeq, SeqIs, SMT
<1> HIDE DEF B
<1>2. B = [l \in 1 .. L + 1 |-> B[l]]
  BY SMT
<1>3. \A l \in 1 .. L + 1 : B[l] = IF l = L + 1 THEN x ELSE A[l]
  BY SMT
<1>4. B = [l \in 1 .. L + 1 |-> IF l = L + 1 THEN x ELSE A[l]]
  BY <1>2, <1>3
<1> QED
  BY <1>4 DEF B

\* The entries along the list are those of the table, each once.
IsAlong(d, s, m) ==
  /\ m \in Seq(Pair) /\ Len(m) = Len(s) /\ Len(m) \in Nat /\ DOMAIN m = 1 .. Len(s)
  /\ \A j \in 1 .. Len(s) : m[j] = EntryAt(d, s[j]) /\ m[j].k = d.items[s[j]].k /\ m[j].v = d.items[s[j]].v
  /\ \A j, l \in 1 .. Len(s) : m[j].k = m[l].k => j = l
  /\ \A k : k \in KeysOf(m) <=> \E x \in Full(d) : d.items[x].k = k

\* The entries along a list are the entries of the table, with distinct keys.
LEMMA AlongIs ==
  ASSUME NEW n, NEW d, NEW s, Rep(d, n, s)
  PROVE  IsAlong(d, s, Along(d, s))
<1> DEFINE m == Along(d, s)
           L == Len(s)
<1>1. n \in Nat /\ n > 0 /\ d \in Tables(n) /\ Sound(d, n) /\ ListOf(d, n, s)
  BY DEF Rep
<1>2. s \in Seq(Spots(n)) /\ IsInjective(s) /\ Range(s) = Full(d)
  BY <1>1 DEF ListOf
<1>3. L \in Nat /\ DOMAIN s = 1 .. L /\ \A j, l \in 1 .. L : s[j] = s[l] => j = l
  <2>1. Linked(n, s)
    BY <1>1, <1>2, Neighbours
  <2> QED
    BY <2>1 DEF Linked
<1>4. \A j \in 1 .. L : s[j] \in Full(d) /\ s[j] \in Spots(n)
  <2>1. \A j \in 1 .. L : s[j] \in Range(s)
    BY <1>3 DEF Range
  <2>2. \A x \in Full(d) : x \in Spots(n)
    BY <1>1, FullFacts
  <2> QED
    BY <2>1, <2>2, <1>2
<1>5. \A j \in 1 .. L : /\ EntryAt(d, s[j]) \in Pair /\ EntryAt(d, s[j]).k = d.items[s[j]].k
                        /\ EntryAt(d, s[j]).v = d.items[s[j]].v
  <2>1. \A j \in 1 .. L : d.items[s[j]].k \in Keys /\ d.items[s[j]].v \in Val
    BY <1>1, <1>4, FullFacts, TableFacts
  <2> QED
    BY <2>1, SMT DEF EntryAt, Pair
<1>6. m = [j \in 1 .. L |-> EntryAt(d, s[j])]
  BY DEF Along
<1> HIDE DEF m
<1>7. m \in Seq(Pair) /\ Len(m) = L /\ DOMAIN m = 1 .. L
  BY <1>3, <1>5, <1>6, SMT
<1>8. \A j \in 1 .. L : m[j] = EntryAt(d, s[j]) /\ m[j].k = d.items[s[j]].k /\ m[j].v = d.items[s[j]].v
  BY <1>5, <1>6
<1>9. \A j, l \in 1 .. L : m[j].k = m[l].k => j = l
  <2>1. \A x, y \in Full(d) : d.items[x].k = d.items[y].k => x = y
    BY <1>1 DEF Sound
  <2> SUFFICES ASSUME NEW j \in 1 .. L, NEW l \in 1 .. L, m[j].k = m[l].k
               PROVE  j = l
    OBVIOUS
  <2>2. d.items[s[j]].k = d.items[s[l]].k
    BY <1>8
  <2>3. s[j] = s[l]
    BY <2>1, <2>2, <1>4
  <2> QED
    BY <2>3, <1>3
<1>10. \A k : k \in KeysOf(m) <=> \E x \in Full(d) : d.items[x].k = k
  <2>1. \A k : k \in KeysOf(m) <=> \E j \in 1 .. L : m[j].k = k
    BY <1>7 DEF KeysOf
  <2>2. \A x : x \in Full(d) <=> \E j \in 1 .. L : s[j] = x
    BY <1>2, <1>3 DEF Range
  <2>3. \A k : k \in KeysOf(m) <=> \E j \in 1 .. L : d.items[s[j]].k = k
    <3>1. \A j \in 1 .. L : m[j].k = d.items[s[j]].k
      BY <1>8
    <3> QED
      BY <2>1, <3>1, SMT
  <2>4. \A k : (\E j \in 1 .. L : d.items[s[j]].k = k) <=> \E x \in Full(d) : d.items[x].k = k
    BY <2>2
  <2> QED
    BY <2>3, <2>4
<1> QED
  BY <1>3, <1>7, <1>8, <1>9, <1>10 DEF IsAlong, m

\* An entry for a new key in its vacant slot.
IsAdded(d, e, n, s, i, k, v) ==
  /\ Rep(e, n, Append(s, i))
  /\ Along(e, Append(s, i)) = Append(Along(d, s), [k |-> k, v |-> v])
  /\ Full(e) = Full(d) \cup {i} /\ Graves(e) = Graves(d) \ {i} /\ Free(e) = Free(d) \ {i}
  /\ e.count = d.count /\ e.tombs = d.tombs /\ i \in Full(e) /\ e.items[i].h = Hash[k]
  /\ \A l \in 0 .. Away(e, i) : Spot(n, Hash[k], l) \in Full(e)

\* A new entry in its vacant slot: all keys are still found, and the list goes on with it.
LEMMA PlaceRep ==
  ASSUME NEW n, NEW d, NEW s, Rep(d, n, s), NEW k \in Keys, NEW v \in Val, NEW i,
         Vacant(d, n, k, i), \A x \in Full(d) : d.items[x].k # k
  PROVE  IsAdded(d, Place(d, i, k, v), n, s, i, k, v)
<1> DEFINE t == Append(s, i)
           h == Hash[k]
<1>0. PICK e : e = Place(d, i, k, v)
  OBVIOUS
<1>1. n \in Nat /\ n > 0 /\ d \in Tables(n) /\ Sound(d, n) /\ ListOf(d, n, s)
  BY DEF Rep
<1>2. i \in Spots(n) /\ i \notin Full(d)
  BY DEF Vacant
<1>3. PICK L : L = Len(s)
  OBVIOUS
<1>4. /\ s \in Seq(Spots(n)) /\ IsInjective(s) /\ Range(s) = Full(d)
      /\ d.last = (IF s = <<>> THEN Null ELSE s[L])
      /\ \A j \in 1 .. L : d.items[s[j]].next = Nx(s, j) /\ d.items[s[j]].prev = Pv(s, j)
  BY <1>1, <1>3 DEF ListOf
<1>5. /\ L \in Nat /\ \A j \in 1 .. L : s[j] \in Spots(n)
      /\ \A j, l \in 1 .. L : s[j] = s[l] => j = l
  <2>1. Linked(n, s)
    BY <1>1, <1>4, Neighbours
  <2> QED
    BY <1>3, <2>1 DEF Linked
<1>6. d.last = (IF L = 0 THEN Null ELSE s[L])
  <2>1. s = <<>> <=> L = 0
    BY <1>3, <1>4, SeqIs
  <2> QED
    BY <1>4, <2>1
<1>7. \A j \in 1 .. L : s[j] # i
  <2>1. \A j \in 1 .. L : s[j] \in Range(s)
    BY <1>3, <1>4, SeqIs DEF Range
  <2> QED
    BY <2>1, <1>2, <1>4
<1>8. i # d.last
  <2>1. CASE L = 0
    BY <2>1, <1>2, <1>6, SMT DEF Null, Spots
  <2>2. CASE L # 0
    <3>1. L \in 1 .. L
      BY <2>2, <1>5, SMT
    <3> QED
      BY <2>2, <3>1, <1>6, <1>7
  <2> QED
    BY <2>1, <2>2
<1>9. IsPlaced(d, e, n, i, k, v)
  BY <1>0, <1>1, <1>2, <1>8, PlaceIs
<1>10. e \in Tables(n)
  BY <1>9 DEF IsPlaced
<1>11. e.items[i].k = k /\ \A x \in Spots(n) : x # i => e.items[x].k = d.items[x].k
  BY <1>9 DEF IsPlaced
<1>12. k # NoKey /\ k # Tombstone /\ h \in Nat
  BY <1>1, KeyFacts
<1>13. Full(e) = Full(d) \cup {i} /\ Graves(e) = Graves(d) \ {i} /\ Free(e) = Free(d) \ {i}
  <2>1. \A x : x \in Full(e) <=> x \in Spots(n) /\ e.items[x].k \notin {NoKey, Tombstone}
    BY <1>10, <1>1, FullFacts
  <2>2. \A x : x \in Graves(e) <=> x \in Spots(n) /\ e.items[x].k = Tombstone
    BY <1>10, <1>1, FullFacts
  <2>3. \A x : x \in Free(e) <=> x \in Spots(n) /\ e.items[x].k = NoKey
    BY <1>10, <1>1, FullFacts
  <2>4. \A x : x \in Full(d) <=> x \in Spots(n) /\ d.items[x].k \notin {NoKey, Tombstone}
    BY <1>1, FullFacts
  <2>5. \A x : x \in Graves(d) <=> x \in Spots(n) /\ d.items[x].k = Tombstone
    BY <1>1, FullFacts
  <2>6. \A x : x \in Free(d) <=> x \in Spots(n) /\ d.items[x].k = NoKey
    BY <1>1, FullFacts
  <2>7. \A x : x \in Full(e) <=> x \in Full(d) \/ x = i
    BY <2>1, <2>4, <1>2, <1>11, <1>12
  <2>8. \A x : x \in Graves(e) <=> x \in Graves(d) /\ x # i
    BY <2>2, <2>5, <1>2, <1>11, <1>12
  <2>9. \A x : x \in Free(e) <=> x \in Free(d) /\ x # i
    BY <2>3, <2>6, <1>2, <1>11, <1>12
  <2> QED
    BY <2>7, <2>8, <2>9
<1>14. PICK j \in Spots(n) : i = Spot(n, h, j) /\ \A m \in 0 .. j - 1 : Spot(n, h, m) \in Full(d)
  BY DEF Vacant
<1>15. j = Dist(n, h % n, i)
  <2>1. h % n \in Spots(n) /\ Spot(n, h, j) = Wrap(n, (h % n) + j)
    BY <1>1, <1>12, SpotIs
  <2> QED
    BY <2>1, <1>1, <1>2, <1>14, WrapDist
<1>16. \A m \in 0 .. j : Spot(n, h, m) \in Full(e)
  <2>1. \A m \in 0 .. j : m \in 0 .. j - 1 \/ m = j
    BY <1>14, SMT DEF Spots
  <2> QED
    BY <2>1, <1>13, <1>14
<1>17. e.items[i].h = h /\ \A x \in Spots(n) : x # i => e.items[x].h = d.items[x].h
  BY <1>9 DEF IsPlaced
<1>18. Away(e, i) = j
  BY <1>1, <1>2, <1>10, <1>15, <1>17, AwayIs
<1>19. \A x \in Full(e) : e.items[x].h = Hash[e.items[x].k] /\ Reach(e, n, x)
  <2> SUFFICES ASSUME NEW x \in Full(e)
               PROVE  e.items[x].h = Hash[e.items[x].k] /\ Reach(e, n, x)
    OBVIOUS
  <2>1. x \in Spots(n)
    BY <1>10, <1>1, FullFacts
  <2>2. CASE x = i
    <3>1. \A m \in 0 .. j : Spot(n, h, m) \notin Free(e)
      BY <1>16, <1>10, <1>1, FullFacts
    <3>2. Path(e, n, h, i)
      BY <3>1, <1>15 DEF Path
    <3>3. Reach(e, n, i)
      BY <3>2, <1>1, <1>2, <1>10, <1>17, ReachIsPath
    <3> QED
      BY <2>2, <3>3, <1>11, <1>17
  <2>3. CASE x # i
    <3>1. x \in Full(d)
      BY <2>3, <1>13
    <3>2. d.items[x].h = Hash[d.items[x].k] /\ Reach(d, n, x)
      BY <3>1, <1>1 DEF Sound
    <3>3. Path(d, n, d.items[x].h, x)
      BY <3>2, <2>1, <1>1, ReachIsPath
    <3>4. Path(e, n, d.items[x].h, x)
      BY <3>3, <1>13 DEF Path
    <3>5. Reach(e, n, x)
      BY <3>4, <2>1, <2>3, <1>1, <1>10, <1>17, ReachIsPath
    <3> QED
      BY <3>2, <3>5, <2>1, <2>3, <1>11, <1>17
  <2> QED
    BY <2>2, <2>3
<1>20. \A x, y \in Full(e) : e.items[x].k = e.items[y].k => x = y
  <2>1. \A x \in Full(e) : x # i => x \in Full(d) /\ x \in Spots(n) /\ e.items[x].k = d.items[x].k
    BY <1>1, <1>11, <1>13, FullFacts
  <2>2. \A x, y \in Full(d) : d.items[x].k = d.items[y].k => x = y
    BY <1>1 DEF Sound
  <2> SUFFICES ASSUME NEW x \in Full(e), NEW y \in Full(e), e.items[x].k = e.items[y].k
               PROVE  x = y
    OBVIOUS
  <2>3. CASE x = i /\ y # i
    BY <2>1, <2>3, <1>11
  <2>4. CASE x # i /\ y = i
    BY <2>1, <2>4, <1>11
  <2>5. CASE x # i /\ y # i
    BY <2>1, <2>2, <2>5
  <2> QED
    BY <2>3, <2>4, <2>5
<1>21. Sound(e, n)
  BY <1>19, <1>20 DEF Sound
<1>22. /\ t \in Seq(Spots(n)) /\ IsInjective(t) /\ Range(t) = Range(s) \cup {i}
       /\ Len(t) = L + 1 /\ t[L + 1] = i /\ t # <<>>
       /\ \A l \in 1 .. L : t[l] = s[l]
  <2>1. IsLonger(n, s, t, i)
    BY <1>1, <1>2, <1>4, AppendIs
  <2> QED
    BY <2>1, <1>3 DEF IsLonger
<1> HIDE DEF t
<1>23. \A l \in 1 .. L + 1 : l \in 1 .. L \/ l = L + 1
  BY <1>5, SMT
<1>24. \A l \in 1 .. L : /\ Nx(t, l) = IF l = L THEN i ELSE Nx(s, l)
                         /\ Pv(t, l) = Pv(s, l)
  <2>1. \A l \in 1 .. L : l # L + 1 /\ (l # L => l + 1 \in 1 .. L) /\ (l # 1 => l - 1 \in 1 .. L)
    BY <1>5, SMT
  <2> QED
    BY <2>1, <1>3, <1>22 DEF Nx, Pv
<1>25. Nx(t, L + 1) = Null /\ Pv(t, L + 1) = IF L = 0 THEN Null ELSE s[L]
  <2>1. (L + 1) - 1 = L /\ (L + 1 = 1 <=> L = 0) /\ (L # 0 => L \in 1 .. L)
    BY <1>5, SMT
  <2> QED
    BY <2>1, <1>22 DEF Nx, Pv
<1>26. \A l \in 1 .. L + 1 : e.items[t[l]].next = Nx(t, l) /\ e.items[t[l]].prev = Pv(t, l)
  <2> SUFFICES ASSUME NEW l \in 1 .. L + 1
               PROVE  e.items[t[l]].next = Nx(t, l) /\ e.items[t[l]].prev = Pv(t, l)
    OBVIOUS
  <2>1. CASE l = L + 1
    <3>1. e.items[i].next = Null /\ e.items[i].prev = d.last
      BY <1>9 DEF IsPlaced
    <3> QED
      BY <2>1, <3>1, <1>6, <1>22, <1>25
  <2>2. CASE l \in 1 .. L
    <3>1. t[l] = s[l] /\ s[l] # i /\ s[l] \in Spots(n)
      BY <2>2, <1>5, <1>7, <1>22
    <3>2. /\ e.items[s[l]].prev = d.items[s[l]].prev
          /\ e.items[s[l]].next = IF s[l] = d.last THEN i ELSE d.items[s[l]].next
      BY <3>1, <1>9 DEF IsPlaced
    <3>3. L # 0 /\ L \in 1 .. L
      BY <2>2, <1>5, SMT
    <3>4. s[l] = d.last <=> l = L
      BY <2>2, <3>3, <1>5, <1>6
    <3> QED
      BY <2>2, <3>1, <3>2, <3>4, <1>4, <1>24
  <2> QED
    BY <2>1, <2>2, <1>23
<1>27. ListOf(e, n, t)
  <2>1. e.last = t[Len(t)]
    BY <1>9, <1>22 DEF IsPlaced
  <2> QED
    BY <2>1, <1>4, <1>13, <1>22, <1>26 DEF ListOf
<1>28. Rep(e, n, t)
  BY <1>1, <1>10, <1>21, <1>27 DEF Rep
<1>29. Along(e, t) = Append(Along(d, s), [k |-> k, v |-> v])
  <2> DEFINE A == Along(d, s)
             B == Along(e, t)
             x == [k |-> k, v |-> v]
  <2>1. A \in Seq(Pair) /\ Len(A) = L /\ \A l \in 1 .. L : A[l] = EntryAt(d, s[l])
    <3>1. IsAlong(d, s, A)
      BY AlongIs
    <3> QED
      BY <3>1, <1>3 DEF IsAlong
  <2>2. B = [l \in 1 .. L + 1 |-> EntryAt(e, t[l])]
    BY <1>22 DEF Along
  <2>3. EntryAt(e, i) = x
    BY <1>9 DEF IsPlaced, EntryAt
  <2>4. \A l \in 1 .. L : EntryAt(e, s[l]) = EntryAt(d, s[l])
    <3>1. \A l \in 1 .. L : e.items[s[l]].k = d.items[s[l]].k /\ e.items[s[l]].v = d.items[s[l]].v
      BY <1>5, <1>7, <1>9 DEF IsPlaced
    <3> QED
      BY <3>1 DEF EntryAt
  <2>5. Append(A, x) = [l \in 1 .. L + 1 |-> IF l = L + 1 THEN x ELSE A[l]]
    <3>1. x \in Pair
      BY SMT DEF Pair
    <3> QED
      <4> HIDE DEF A, x
      <4>1. Append(A, x) = [l \in 1 .. Len(A) + 1 |-> IF l = Len(A) + 1 THEN x ELSE A[l]]
        BY <2>1, <3>1, AppendValue, SMT
      <4> QED
        BY <2>1, <4>1
  <2>6. \A l \in 1 .. L + 1 : EntryAt(e, t[l]) = IF l = L + 1 THEN x ELSE A[l]
    <3> SUFFICES ASSUME NEW l \in 1 .. L + 1
                 PROVE  EntryAt(e, t[l]) = IF l = L + 1 THEN x ELSE A[l]
      OBVIOUS
    <3>1. CASE l = L + 1
      BY <3>1, <2>3, <1>22
    <3>2. CASE l \in 1 .. L
      <4>1. l # L + 1
        BY <3>2, <1>5, SMT
      <4>2. A[l] = EntryAt(d, s[l])
        BY <3>2, <2>1
      <4> QED
        BY <3>2, <4>1, <4>2, <2>4, <1>22
    <3> QED
      BY <3>1, <3>2, <1>23
  <2> HIDE DEF A, B, x
  <2>7. B = Append(A, x)
    BY <2>2, <2>5, <2>6
  <2> QED
    BY <2>7 DEF A, B, x
<1>30. e.count = d.count /\ e.tombs = d.tombs
  BY <1>9 DEF IsPlaced
<1> QED
  BY <1>0, <1>13, <1>16, <1>17, <1>18, <1>28, <1>29, <1>30 DEF t, IsAdded

-----------------------------------------------------------------------------
(* A new value, and a removal *)

\* Tables with the same keys.
LEMMA SameKeys ==
  ASSUME NEW n \in Nat, NEW d \in Tables(n), NEW e \in Tables(n),
         \A x \in Spots(n) : e.items[x].k = d.items[x].k
  PROVE  Full(e) = Full(d) /\ Graves(e) = Graves(d) /\ Free(e) = Free(d)
<1>1. /\ \A x : x \in Full(d) <=> x \in Spots(n) /\ d.items[x].k \notin {NoKey, Tombstone}
      /\ \A x : x \in Graves(d) <=> x \in Spots(n) /\ d.items[x].k = Tombstone
      /\ \A x : x \in Free(d) <=> x \in Spots(n) /\ d.items[x].k = NoKey
  BY FullFacts
<1>2. /\ \A x : x \in Full(e) <=> x \in Spots(n) /\ e.items[x].k \notin {NoKey, Tombstone}
      /\ \A x : x \in Graves(e) <=> x \in Spots(n) /\ e.items[x].k = Tombstone
      /\ \A x : x \in Free(e) <=> x \in Spots(n) /\ e.items[x].k = NoKey
  BY FullFacts
<1>3. \A x : x \in Full(e) <=> x \in Full(d)
  BY <1>1, <1>2
<1>4. \A x : x \in Graves(e) <=> x \in Graves(d)
  BY <1>1, <1>2
<1>5. \A x : x \in Free(e) <=> x \in Free(d)
  BY <1>1, <1>2
<1> QED
  BY <1>3, <1>4, <1>5

\* Only the value in slot i changes.
IsValued(d, e, n, s, i, v) ==
  /\ Rep(e, n, s) /\ Along(e, s) = Assign(Along(d, s), [k |-> d.items[i].k, v |-> v])
  /\ Full(e) = Full(d) /\ Graves(e) = Graves(d) /\ Free(e) = Free(d)
  /\ e.count = d.count /\ e.tombs = d.tombs
  /\ \A x \in Spots(n) : e.items[x].k = d.items[x].k

\* The value of an entry changes: it keeps its slot and its place in the order.
LEMMA SetValueIs ==
  ASSUME NEW n, NEW d, NEW s, Rep(d, n, s), NEW i \in Full(d), NEW v \in Val,
         NEW e, e = SetValue(d, i, v)
  PROVE  IsValued(d, e, n, s, i, v)
<1> DEFINE u == [d.items[i] EXCEPT !.v = v]
<1> n \in Nat /\ n > 0 /\ d \in Tables(n) /\ Sound(d, n) /\ ListOf(d, n, s)
  BY DEF Rep
<1> i \in Spots(n) /\ \A x : x \in Full(d) => x \in Spots(n)
  BY FullFacts
<1>3. d.items[i] \in Item(n) /\ d.items \in [Spots(n) -> Item(n)]
  BY TableFacts
<1>4. /\ u \in Item(n) /\ u.k = d.items[i].k /\ u.v = v /\ u.h = d.items[i].h
      /\ u.prev = d.items[i].prev /\ u.next = d.items[i].next
  BY <1>3, SMT DEF Item
<1>5. e = [d EXCEPT !.items[i] = u]
  BY SMT DEF SetValue
<1> HIDE DEF u
<1>6. IsItemSet(d, e, n, i, u)
  <2>1. IsItemSet(d, [d EXCEPT !.items[i] = u], n, i, u)
    BY <1>4, ItemSet
  <2> QED
    BY <2>1, <1>5
<1> /\ e \in Tables(n) /\ e.last = d.last /\ e.count = d.count /\ e.tombs = d.tombs
    /\ \A x \in Spots(n) : e.items[x] = IF x = i THEN u ELSE d.items[x]
  BY <1>6 DEF IsItemSet
<1> \A x \in Spots(n) : /\ e.items[x].k = d.items[x].k /\ e.items[x].h = d.items[x].h
                        /\ e.items[x].v = (IF x = i THEN v ELSE d.items[x].v)
                        /\ e.items[x].prev = d.items[x].prev /\ e.items[x].next = d.items[x].next
  <2> SUFFICES ASSUME NEW x \in Spots(n)
               PROVE  /\ e.items[x].k = d.items[x].k /\ e.items[x].h = d.items[x].h
                      /\ e.items[x].v = (IF x = i THEN v ELSE d.items[x].v)
                      /\ e.items[x].prev = d.items[x].prev /\ e.items[x].next = d.items[x].next
    OBVIOUS
  <2>1. CASE x = i
    BY <2>1, <1>4
  <2>2. CASE x # i
    BY <2>2
  <2> QED
    BY <2>1, <2>2
<1> Full(e) = Full(d) /\ Graves(e) = Graves(d) /\ Free(e) = Free(d)
  BY SameKeys
<1>10. Sound(e, n)
  <2>1. \A x \in Spots(n) : Reach(d, n, x) => Reach(e, n, x)
    <3> SUFFICES ASSUME NEW x \in Spots(n), Reach(d, n, x)
                 PROVE  Reach(e, n, x)
      OBVIOUS
    <3>1. Path(d, n, d.items[x].h, x)
      BY ReachIsPath
    <3>2. Path(e, n, d.items[x].h, x)
      BY <3>1 DEF Path
    <3> QED
      BY <3>2, ReachIsPath
  <2>2. \A x \in Full(d) : d.items[x].h = Hash[d.items[x].k] /\ Reach(d, n, x)
    BY DEF Sound
  <2>3. \A x, y \in Full(d) : d.items[x].k = d.items[y].k => x = y
    BY DEF Sound
  <2>4. \A x \in Full(e) : e.items[x].h = Hash[e.items[x].k] /\ Reach(e, n, x)
    <3> SUFFICES ASSUME NEW x \in Full(e)
                 PROVE  e.items[x].h = Hash[e.items[x].k] /\ Reach(e, n, x)
      OBVIOUS
    <3>1. x \in Full(d) /\ x \in Spots(n)
      OBVIOUS
    <3> QED
      BY <3>1, <2>1, <2>2
  <2>5. \A x, y \in Full(e) : e.items[x].k = e.items[y].k => x = y
    <3> SUFFICES ASSUME NEW x \in Full(e), NEW y \in Full(e), e.items[x].k = e.items[y].k
                 PROVE  x = y
      OBVIOUS
    <3>1. x \in Full(d) /\ x \in Spots(n) /\ y \in Full(d) /\ y \in Spots(n)
      OBVIOUS
    <3>2. d.items[x].k = d.items[y].k
      BY <3>1
    <3> QED
      BY <3>1, <3>2, <2>3
  <2> QED
    BY <2>4, <2>5 DEF Sound
<1> /\ s \in Seq(Spots(n)) /\ IsInjective(s) /\ Range(s) = Full(d)
    /\ d.last = (IF s = <<>> THEN Null ELSE s[Len(s)])
    /\ \A j \in 1 .. Len(s) : d.items[s[j]].next = Nx(s, j) /\ d.items[s[j]].prev = Pv(s, j)
  BY DEF ListOf
<1> Len(s) \in Nat /\ DOMAIN s = 1 .. Len(s) /\ \A j \in 1 .. Len(s) : s[j] \in Spots(n)
  BY SMT
<1>13. ListOf(e, n, s)
  <2>1. \A j \in 1 .. Len(s) : e.items[s[j]].next = Nx(s, j) /\ e.items[s[j]].prev = Pv(s, j)
    <3> SUFFICES ASSUME NEW j \in 1 .. Len(s)
                 PROVE  e.items[s[j]].next = Nx(s, j) /\ e.items[s[j]].prev = Pv(s, j)
      OBVIOUS
    <3>1. s[j] \in Spots(n)
      OBVIOUS
    <3> QED
      BY <3>1
  <2> QED
    BY <2>1 DEF ListOf
<1>14. Rep(e, n, s)
  BY <1>10, <1>13 DEF Rep
<1> DEFINE m == Along(d, s)
           w == [k |-> d.items[i].k, v |-> v]
           L == Len(s)
<1>15. IsAlong(d, s, m)
  BY AlongIs
<1> /\ DOMAIN m = 1 .. L
    /\ \A j \in 1 .. L : m[j] = EntryAt(d, s[j]) /\ m[j].k = d.items[s[j]].k
    /\ d.items[i].k \in KeysOf(m)
  BY <1>15 DEF IsAlong
<1>17. Along(e, s) = [j \in 1 .. L |-> EntryAt(e, s[j])]
  BY DEF Along
<1> HIDE DEF m
<1>18. Assign(m, w) = [j \in 1 .. L |-> IF m[j].k = d.items[i].k THEN w ELSE m[j]]
  BY DEF Assign
<1>19. \A j \in 1 .. L : EntryAt(e, s[j]) = IF m[j].k = d.items[i].k THEN w ELSE m[j]
  <2> SUFFICES ASSUME NEW j \in 1 .. L
               PROVE  EntryAt(e, s[j]) = IF m[j].k = d.items[i].k THEN w ELSE m[j]
    OBVIOUS
  <2> s[j] \in Spots(n) /\ s[j] \in Full(d)
    <3>1. s[j] \in Range(s)
      BY DEF Range
    <3> QED
      BY <3>1
  <2>2. d.items[s[j]].k = d.items[i].k => s[j] = i
    BY DEF Sound
  <2>3. CASE s[j] = i
    BY <2>3 DEF EntryAt
  <2> CASE s[j] # i
    <3>1. EntryAt(e, s[j]) = EntryAt(d, s[j])
      BY DEF EntryAt
    <3>2. m[j].k # d.items[i].k
      BY <2>2
    <3> QED
      BY <3>1, <3>2
  <2> QED
    BY <2>3
<1> HIDE DEF w
<1>20. Along(e, s) = Assign(m, w)
  BY <1>17, <1>18, <1>19
<1> QED
  BY <1>14, <1>20 DEF m, w, IsValued

\* A sequence without its j-th element.
Without(s, j) == [l \in 1 .. Len(s) - 1 |-> IF l < j THEN s[l] ELSE s[l + 1]]

\* Where its elements were.
Was(j, l) == IF l < j THEN l ELSE l + 1

\* Places before and after one element is gone.
LEMMA WasIs ==
  ASSUME NEW L \in Nat, NEW j \in 1 .. L
  PROVE  /\ L - 1 \in Nat
         /\ \A l \in 1 .. L - 1 : Was(j, l) \in 1 .. L /\ Was(j, l) # j
         /\ \A l, m \in 1 .. L - 1 : Was(j, l) = Was(j, m) => l = m
         /\ \A q \in 1 .. L : q # j => \E l \in 1 .. L - 1 : Was(j, l) = q
<1>1. \A q \in 1 .. L : q # j => (IF q < j THEN q ELSE q - 1) \in 1 .. L - 1
                                 /\ Was(j, IF q < j THEN q ELSE q - 1) = q
  BY SMT DEF Was
<1>2. \A q \in 1 .. L : q # j => \E l \in 1 .. L - 1 : Was(j, l) = q
  BY <1>1
<1>3. /\ L - 1 \in Nat
      /\ \A l \in 1 .. L - 1 : Was(j, l) \in 1 .. L /\ Was(j, l) # j
      /\ \A l, m \in 1 .. L - 1 : Was(j, l) = Was(j, m) => l = m
  BY SMT DEF Was
<1> QED
  BY <1>2, <1>3

\* The places next to a place.
Beside(L, j, q) ==
  /\ (q + 1 = j <=> q = j - 1) /\ (q - 1 = j <=> q = j + 1)
  /\ (j # 1 => j - 1 \in 1 .. L) /\ (j # L => j + 1 \in 1 .. L) /\ (j = 1 => q # j - 1)
  /\ (j = L => q # j + 1)

\* The places next to a place, by number.
LEMMA NextTo ==
  ASSUME NEW L \in Nat, NEW j \in 1 .. L, NEW q \in 1 .. L
  PROVE  Beside(L, j, q)
BY SMT DEF Beside

\* The last place without place j.
LEMMA LastWas ==
  ASSUME NEW L \in Nat, L # 1, NEW j \in 1 .. L
  PROVE  /\ L - 1 \in 1 .. L - 1 /\ L - 1 # 0 /\ Was(j, L - 1) = (IF j = L THEN L - 1 ELSE L)
         /\ (j = L => j # 1 /\ j - 1 = L - 1)
BY SMT DEF Was

\* The elements of a sequence without one.
LEMMA WithoutSeq ==
  ASSUME NEW S, NEW s \in Seq(S), NEW j \in 1 .. Len(s)
  PROVE  /\ Without(s, j) \in Seq(S) /\ Len(Without(s, j)) = Len(s) - 1
         /\ DOMAIN Without(s, j) = 1 .. Len(s) - 1
         /\ \A l \in 1 .. Len(s) - 1 : Without(s, j)[l] = s[Was(j, l)]
<1> DEFINE L == Len(s)
           t == Without(s, j)
<1>1. L \in Nat /\ \A l \in 1 .. L : s[l] \in S
  BY SMT
<1>2. L - 1 \in Nat /\ \A l \in 1 .. L - 1 : Was(j, l) \in 1 .. L
  BY <1>1, WasIs
<1>3. t = [l \in 1 .. L - 1 |-> s[Was(j, l)]]
  <2>1. \A l \in 1 .. L - 1 : (IF l < j THEN s[l] ELSE s[l + 1]) = s[Was(j, l)]
    BY SMT DEF Was
  <2> QED
    BY <2>1 DEF Without
<1> HIDE DEF t
<1>4. t \in Seq(S) /\ Len(t) = L - 1 /\ DOMAIN t = 1 .. L - 1
  BY <1>1, <1>2, <1>3, SMT
<1>5. \A l \in 1 .. L - 1 : t[l] = s[Was(j, l)]
  BY <1>3
<1> QED
  BY <1>4, <1>5 DEF t

\* Its neighbours.
LinkedWithout(s, t, j, l) ==
  /\ Nx(t, l) = IF Was(j, l) + 1 = j THEN Nx(s, j) ELSE Nx(s, Was(j, l))
  /\ Pv(t, l) = IF Was(j, l) - 1 = j THEN Pv(s, j) ELSE Pv(s, Was(j, l))

\* Their neighbours: those of the element that is gone are now neighbours.
LEMMA WithoutLinks ==
  ASSUME NEW s, Len(s) \in Nat, NEW j \in 1 .. Len(s), NEW t, Len(t) = Len(s) - 1,
         \A m \in 1 .. Len(s) - 1 : t[m] = s[Was(j, m)], NEW l \in 1 .. Len(s) - 1
  PROVE  LinkedWithout(s, t, j, l)
<1>0. PICK L \in Nat : L = Len(s)
  OBVIOUS
<1>1. Nx(t, l) = IF l = L - 1 THEN Null ELSE s[Was(j, l + 1)]
  <2>1. l # L - 1 => l + 1 \in 1 .. L - 1
    BY <1>0, SMT
  <2> QED
    BY <1>0, <2>1 DEF Nx
<1>2. Pv(t, l) = IF l = 1 THEN Null ELSE s[Was(j, l - 1)]
  <2>1. l # 1 => l - 1 \in 1 .. L - 1
    BY <1>0, SMT
  <2> QED
    BY <1>0, <2>1 DEF Pv
<1>3. (IF l = L - 1 THEN Null ELSE s[Was(j, l + 1)])
        = IF Was(j, l) + 1 = j THEN Nx(s, j) ELSE Nx(s, Was(j, l))
  <2>1. CASE l < j
    BY <1>0, <2>1, SMT DEF Nx, Was
  <2>2. CASE ~ (l < j)
    BY <1>0, <2>2, SMT DEF Nx, Was
  <2> QED
    BY <2>1, <2>2
<1>4. (IF l = 1 THEN Null ELSE s[Was(j, l - 1)])
        = IF Was(j, l) - 1 = j THEN Pv(s, j) ELSE Pv(s, Was(j, l))
  <2>1. CASE l < j
    BY <1>0, <2>1, SMT DEF Pv, Was
  <2>2. CASE ~ (l < j)
    BY <1>0, <2>2, SMT DEF Pv, Was
  <2> QED
    BY <2>1, <2>2
<1> QED
  BY <1>1, <1>2, <1>3, <1>4, SMT DEF LinkedWithout

IsShorter(n, s, t, j) ==
  /\ t \in Seq(Spots(n)) /\ IsInjective(t) /\ Range(t) = Range(s) \ {s[j]}
  /\ Len(t) = Len(s) - 1
  /\ \A l \in 1 .. Len(s) - 1 :
       /\ t[l] = s[Was(j, l)]
       /\ Nx(t, l) = IF s[Was(j, l)] = Pv(s, j) THEN Nx(s, j) ELSE Nx(s, Was(j, l))
       /\ Pv(t, l) = IF s[Was(j, l)] = Nx(s, j) THEN Pv(s, j) ELSE Pv(s, Was(j, l))
  /\ (IF t = <<>> THEN Null ELSE t[Len(t)]) = IF Nx(s, j) = Null THEN Pv(s, j) ELSE s[Len(s)]

\* A list without one slot is a list again.
LEMMA ShorterIs ==
  ASSUME NEW n \in Nat, NEW s \in Seq(Spots(n)), IsInjective(s), NEW j \in 1 .. Len(s)
  PROVE  IsShorter(n, s, Without(s, j), j)
<1> DEFINE L == Len(s)
           t == Without(s, j)
<1>1. Linked(n, s)
  BY Neighbours
<1>2. /\ L \in Nat /\ DOMAIN s = 1 .. L
      /\ \A a \in 1 .. L : s[a] \in Spots(n) /\ s[a] # Null
      /\ \A a, b \in 1 .. L : s[a] = s[b] => a = b
      /\ \A a \in 1 .. L : Nx(s, a) = Null <=> a = L
  BY <1>1 DEF Linked
<1>3. /\ L - 1 \in Nat
      /\ \A l \in 1 .. L - 1 : Was(j, l) \in 1 .. L /\ Was(j, l) # j
      /\ \A l, m \in 1 .. L - 1 : Was(j, l) = Was(j, m) => l = m
      /\ \A q \in 1 .. L : q # j => \E l \in 1 .. L - 1 : Was(j, l) = q
  BY <1>2, WasIs
<1>4. /\ t \in Seq(Spots(n)) /\ Len(t) = L - 1 /\ DOMAIN t = 1 .. L - 1
      /\ \A l \in 1 .. L - 1 : t[l] = s[Was(j, l)]
  BY WithoutSeq
<1> HIDE DEF t
<1>5. IsInjective(t)
  <2>1. ASSUME NEW l \in 1 .. L - 1, NEW m \in 1 .. L - 1, t[l] = t[m]
        PROVE  l = m
    <3>1. s[Was(j, l)] = s[Was(j, m)]
      BY <2>1, <1>4
    <3>2. Was(j, l) = Was(j, m)
      BY <3>1, <1>2, <1>3
    <3> QED
      BY <3>2, <1>3
  <2> QED
    BY <2>1, <1>4 DEF IsInjective
<1>6. Range(t) = Range(s) \ {s[j]}
  <2>1. \A x : x \in Range(t) <=> \E l \in 1 .. L - 1 : t[l] = x
    BY <1>4 DEF Range
  <2>2. \A x : x \in Range(s) <=> \E a \in 1 .. L : s[a] = x
    BY <1>2 DEF Range
  <2>3. \A x : x \in Range(t) => x \in Range(s) /\ x # s[j]
    <3> SUFFICES ASSUME NEW l \in 1 .. L - 1
                 PROVE  t[l] \in Range(s) /\ t[l] # s[j]
      BY <2>1
    <3>1. t[l] = s[Was(j, l)] /\ Was(j, l) \in 1 .. L /\ Was(j, l) # j
      BY <1>3, <1>4
    <3> QED
      BY <3>1, <2>2, <1>2
  <2>4. \A x : x \in Range(s) /\ x # s[j] => x \in Range(t)
    <3> SUFFICES ASSUME NEW a \in 1 .. L, s[a] # s[j]
                 PROVE  s[a] \in Range(t)
      BY <2>2
    <3>1. a # j
      BY SMT
    <3>2. PICK l \in 1 .. L - 1 : Was(j, l) = a
      BY <3>1, <1>3
    <3> QED
      BY <3>2, <2>1, <1>4
  <2> QED
    BY <2>3, <2>4
<1>7. \A qt \in 1 .. L : qt # j => /\ qt + 1 = j <=> s[qt] = Pv(s, j)
                                   /\ qt - 1 = j <=> s[qt] = Nx(s, j)
  <2> SUFFICES ASSUME NEW q \in 1 .. L, q # j
               PROVE  /\ q + 1 = j <=> s[q] = Pv(s, j)
                      /\ q - 1 = j <=> s[q] = Nx(s, j)
    OBVIOUS
  <2>0. Beside(L, j, q)
    BY <1>2, NextTo
  <2>1. (q + 1 = j <=> q = j - 1) /\ (q - 1 = j <=> q = j + 1)
    BY <2>0 DEF Beside
  <2>2. (j # 1 => j - 1 \in 1 .. L) /\ (j # L => j + 1 \in 1 .. L) /\ (j = 1 => q # j - 1)
        /\ (j = L => q # j + 1)
    BY <2>0 DEF Beside
  <2>3. s[q] = Pv(s, j) <=> q = j - 1
    <3>1. CASE j = 1
      BY <3>1, <2>2, <1>2 DEF Pv
    <3>2. CASE j # 1
      <4>1. Pv(s, j) = s[j - 1]
        BY <3>2 DEF Pv
      <4> QED
        BY <4>1, <3>2, <2>2, <1>2
    <3> QED
      BY <3>1, <3>2
  <2>4. s[q] = Nx(s, j) <=> q = j + 1
    <3>1. CASE j = L
      BY <3>1, <2>2, <1>2 DEF Nx
    <3>2. CASE j # L
      <4>1. Nx(s, j) = s[j + 1]
        BY <3>2 DEF Nx
      <4> QED
        BY <4>1, <3>2, <2>2, <1>2
    <3> QED
      BY <3>1, <3>2
  <2> QED
    BY <2>1, <2>3, <2>4
<1>8. \A l \in 1 .. L - 1 :
        /\ Nx(t, l) = IF s[Was(j, l)] = Pv(s, j) THEN Nx(s, j) ELSE Nx(s, Was(j, l))
        /\ Pv(t, l) = IF s[Was(j, l)] = Nx(s, j) THEN Pv(s, j) ELSE Pv(s, Was(j, l))
  <2> SUFFICES ASSUME NEW l \in 1 .. L - 1
               PROVE  /\ Nx(t, l) = IF s[Was(j, l)] = Pv(s, j) THEN Nx(s, j) ELSE Nx(s, Was(j, l))
                      /\ Pv(t, l) = IF s[Was(j, l)] = Nx(s, j) THEN Pv(s, j) ELSE Pv(s, Was(j, l))
    OBVIOUS
  <2>1. /\ Nx(t, l) = IF Was(j, l) + 1 = j THEN Nx(s, j) ELSE Nx(s, Was(j, l))
        /\ Pv(t, l) = IF Was(j, l) - 1 = j THEN Pv(s, j) ELSE Pv(s, Was(j, l))
    <3>1. LinkedWithout(s, t, j, l)
      BY <1>2, <1>4, WithoutLinks
    <3> QED
      BY <3>1 DEF LinkedWithout
  <2>2. /\ Was(j, l) + 1 = j <=> s[Was(j, l)] = Pv(s, j)
        /\ Was(j, l) - 1 = j <=> s[Was(j, l)] = Nx(s, j)
    BY <1>3, <1>7
  <2> QED
    BY <2>1, <2>2
<1>9. (IF t = <<>> THEN Null ELSE t[Len(t)]) = IF Nx(s, j) = Null THEN Pv(s, j) ELSE s[L]
  <2>1. t = <<>> <=> L - 1 = 0
    BY <1>4, SeqIs
  <2>2. Nx(s, j) = Null <=> j = L
    BY <1>2
  <2>3. (IF L - 1 = 0 THEN Null ELSE t[L - 1]) = IF j = L THEN Pv(s, j) ELSE s[L]
    <3>1. CASE L = 1
      <4>1. j = 1 /\ L - 1 = 0
        BY <3>1, SMT
      <4> QED
        BY <3>1, <4>1 DEF Pv
    <3>2. CASE L # 1
      <4>1. L - 1 \in 1 .. L - 1 /\ L - 1 # 0 /\ Was(j, L - 1) = (IF j = L THEN L - 1 ELSE L)
            /\ (j = L => j # 1 /\ j - 1 = L - 1)
        BY <3>2, <1>2, LastWas
      <4>2. t[L - 1] = s[Was(j, L - 1)]
        BY <4>1, <1>4
      <4> QED
        BY <4>1, <4>2 DEF Pv
    <3> QED
      BY <3>1, <3>2
  <2> QED
    BY <2>1, <2>2, <2>3, <1>4
<1> QED
  BY <1>4, <1>5, <1>6, <1>8, <1>9 DEF IsShorter, t

\* One link of one entry changes.
IsRelinked(d, e, n, p, a, q, b) ==
  /\ e \in Tables(n) /\ e.last = d.last /\ e.count = d.count /\ e.tombs = d.tombs
  /\ \A x \in Spots(n) :
       /\ e.items[x].k = d.items[x].k /\ e.items[x].v = d.items[x].v /\ e.items[x].h = d.items[x].h
       /\ e.items[x].prev = IF x = p THEN a ELSE d.items[x].prev
       /\ e.items[x].next = IF x = q THEN b ELSE d.items[x].next

\* A prev link is replaced.
LEMMA PrevSet ==
  ASSUME NEW n \in Nat, NEW d \in Tables(n), NEW y \in Spots(n), NEW a \in Link0(n)
  PROVE  IsRelinked(d, [d EXCEPT !.items[y].prev = a], n, y, a, Null, a)
<1> DEFINE w == [d.items[y] EXCEPT !.prev = a]
           e == [d EXCEPT !.items[y] = w]
<1>1. d.items[y] \in Item(n) /\ d.items \in [Spots(n) -> Item(n)]
  BY TableFacts
<1>2. /\ w \in Item(n) /\ w.k = d.items[y].k /\ w.v = d.items[y].v /\ w.h = d.items[y].h
      /\ w.prev = a /\ w.next = d.items[y].next
  BY <1>1, SMT DEF Item
<1>3. [d EXCEPT !.items[y].prev = a] = e
  BY SMT
<1> HIDE DEF w
<1>4. IsItemSet(d, e, n, y, w)
  BY <1>2, ItemSet
<1> HIDE DEF e
<1>5. \A x \in Spots(n) : x # Null
  BY SMT DEF Spots, Null
<1>6. \A x \in Spots(n) : e.items[x] = IF x = y THEN w ELSE d.items[x]
  BY <1>4 DEF IsItemSet
<1>7. \A x \in Spots(n) :
       /\ e.items[x].k = d.items[x].k /\ e.items[x].v = d.items[x].v /\ e.items[x].h = d.items[x].h
       /\ e.items[x].prev = IF x = y THEN a ELSE d.items[x].prev
       /\ e.items[x].next = IF x = Null THEN a ELSE d.items[x].next
  <2> SUFFICES ASSUME NEW x \in Spots(n)
               PROVE  /\ e.items[x].k = d.items[x].k /\ e.items[x].v = d.items[x].v
                      /\ e.items[x].h = d.items[x].h
                      /\ e.items[x].prev = IF x = y THEN a ELSE d.items[x].prev
                      /\ e.items[x].next = IF x = Null THEN a ELSE d.items[x].next
    OBVIOUS
  <2>1. CASE x = y
    BY <2>1, <1>2, <1>5, <1>6
  <2>2. CASE x # y
    BY <2>2, <1>5, <1>6
  <2> QED
    BY <2>1, <2>2
<1>8. IsRelinked(d, e, n, y, a, Null, a)
  BY <1>4, <1>7 DEF IsItemSet, IsRelinked
<1> QED
  BY <1>3, <1>8

\* A next link is replaced.
LEMMA NextSet ==
  ASSUME NEW n \in Nat, NEW d \in Tables(n), NEW y \in Spots(n), NEW b \in Link0(n)
  PROVE  IsRelinked(d, [d EXCEPT !.items[y].next = b], n, Null, b, y, b)
<1> DEFINE w == [d.items[y] EXCEPT !.next = b]
           e == [d EXCEPT !.items[y] = w]
<1>1. d.items[y] \in Item(n) /\ d.items \in [Spots(n) -> Item(n)]
  BY TableFacts
<1>2. /\ w \in Item(n) /\ w.k = d.items[y].k /\ w.v = d.items[y].v /\ w.h = d.items[y].h
      /\ w.prev = d.items[y].prev /\ w.next = b
  BY <1>1, SMT DEF Item
<1>3. [d EXCEPT !.items[y].next = b] = e
  BY SMT
<1> HIDE DEF w
<1>4. IsItemSet(d, e, n, y, w)
  BY <1>2, ItemSet
<1> HIDE DEF e
<1>5. \A x \in Spots(n) : x # Null
  BY SMT DEF Spots, Null
<1>6. \A x \in Spots(n) : e.items[x] = IF x = y THEN w ELSE d.items[x]
  BY <1>4 DEF IsItemSet
<1>7. \A x \in Spots(n) :
       /\ e.items[x].k = d.items[x].k /\ e.items[x].v = d.items[x].v /\ e.items[x].h = d.items[x].h
       /\ e.items[x].prev = IF x = Null THEN b ELSE d.items[x].prev
       /\ e.items[x].next = IF x = y THEN b ELSE d.items[x].next
  <2> SUFFICES ASSUME NEW x \in Spots(n)
               PROVE  /\ e.items[x].k = d.items[x].k /\ e.items[x].v = d.items[x].v
                      /\ e.items[x].h = d.items[x].h
                      /\ e.items[x].prev = IF x = Null THEN b ELSE d.items[x].prev
                      /\ e.items[x].next = IF x = y THEN b ELSE d.items[x].next
    OBVIOUS
  <2>1. CASE x = y
    BY <2>1, <1>2, <1>5, <1>6
  <2>2. CASE x # y
    BY <2>2, <1>5, <1>6
  <2> QED
    BY <2>1, <2>2
<1>8. IsRelinked(d, e, n, Null, b, y, b)
  BY <1>4, <1>7 DEF IsItemSet, IsRelinked
<1> QED
  BY <1>3, <1>8

\* What Unlink makes of a table.
IsUnlinked(d, e, n, i, u, p, q) ==
  /\ e \in Tables(n) /\ e.last = (IF q = Null THEN p ELSE d.last)
  /\ e.count = d.count - 1 /\ e.tombs = d.tombs /\ e.items[i] = u
  /\ \A x \in Spots(n) : x # i =>
       /\ e.items[x].k = d.items[x].k /\ e.items[x].v = d.items[x].v /\ e.items[x].h = d.items[x].h
       /\ e.items[x].prev = IF x = q THEN p ELSE d.items[x].prev
       /\ e.items[x].next = IF x = p THEN q ELSE d.items[x].next

\* Unlink makes the neighbours of an entry neighbours, and puts u into its slot.
LEMMA UnlinkIs ==
  ASSUME NEW n \in Nat, NEW d \in Tables(n), NEW i \in Spots(n), NEW u \in Item(n)
  PROVE  IsUnlinked(d, Unlink(d, i, u), n, i, u, d.items[i].prev, d.items[i].next)
<1> DEFINE q == d.items[i].next
           p == d.items[i].prev
           b == IF q # Null THEN [d EXCEPT !.items[q].prev = p] ELSE [d EXCEPT !.last = p]
           c == IF p # Null THEN [b EXCEPT !.items[p].next = q] ELSE b
           e == [c EXCEPT !.items[i] = u]
           f == [c EXCEPT !.items[i] = u, !.count = @ - 1]
<1>1. Unlink(d, i, u) = f
  BY SMT DEF Unlink
<1>2. /\ p \in Link0(n) /\ q \in Link0(n) /\ (p # Null => p \in Spots(n)) /\ (q # Null => q \in Spots(n))
      /\ \A x \in Spots(n) : x # Null
  <2>1. \A x \in Spots(n) : x # Null
    BY SMT DEF Spots, Null
  <2> QED
    BY <2>1, TableFacts DEF Link0
<1> HIDE DEF p, q
<1>3. /\ b \in Tables(n) /\ b.last = (IF q = Null THEN p ELSE d.last)
      /\ b.count = d.count /\ b.tombs = d.tombs
      /\ \A x \in Spots(n) :
           /\ b.items[x].k = d.items[x].k /\ b.items[x].v = d.items[x].v /\ b.items[x].h = d.items[x].h
           /\ b.items[x].prev = IF x = q THEN p ELSE d.items[x].prev
           /\ b.items[x].next = d.items[x].next
  <2>1. CASE q = Null
    <3>1. b = [d EXCEPT !.last = p]
      BY <2>1
    <3> HIDE DEF b
    <3>2. b \in Tables(n) /\ b.last = p /\ b.count = d.count /\ b.tombs = d.tombs /\ b.items = d.items
      BY <3>1, <1>2, SMT DEF Tables
    <3> QED
      BY <2>1, <3>2, <1>2
  <2>2. CASE q # Null
    <3>1. IsRelinked(d, b, n, q, p, Null, p)
      BY <2>2, <1>2, PrevSet
    <3> HIDE DEF b
    <3> QED
      BY <2>2, <3>1, <1>2 DEF IsRelinked
  <2> QED
    BY <2>1, <2>2
<1> HIDE DEF b
<1>4. /\ c \in Tables(n) /\ c.last = b.last /\ c.count = d.count /\ c.tombs = d.tombs
      /\ \A x \in Spots(n) :
           /\ c.items[x].k = d.items[x].k /\ c.items[x].v = d.items[x].v /\ c.items[x].h = d.items[x].h
           /\ c.items[x].prev = IF x = q THEN p ELSE d.items[x].prev
           /\ c.items[x].next = IF x = p THEN q ELSE d.items[x].next
  <2>1. CASE p = Null
    BY <2>1, <1>2, <1>3
  <2>2. CASE p # Null
    <3>1. IsRelinked(b, c, n, Null, q, p, q)
      BY <2>2, <1>2, <1>3, NextSet
    <3> HIDE DEF c
    <3>2. /\ c \in Tables(n) /\ c.last = b.last /\ c.count = b.count /\ c.tombs = b.tombs
          /\ \A x \in Spots(n) :
               /\ c.items[x].k = b.items[x].k /\ c.items[x].v = b.items[x].v /\ c.items[x].h = b.items[x].h
               /\ c.items[x].prev = b.items[x].prev
               /\ c.items[x].next = IF x = p THEN q ELSE b.items[x].next
      BY <3>1, <1>2 DEF IsRelinked
    <3>3. c.count = d.count /\ c.tombs = d.tombs
      BY <3>2, <1>3
    <3> SUFFICES ASSUME NEW x \in Spots(n)
                 PROVE  /\ c.items[x].k = d.items[x].k /\ c.items[x].v = d.items[x].v
                        /\ c.items[x].h = d.items[x].h
                        /\ c.items[x].prev = IF x = q THEN p ELSE d.items[x].prev
                        /\ c.items[x].next = IF x = p THEN q ELSE d.items[x].next
      BY <3>2, <3>3
    <3>4. /\ c.items[x].k = b.items[x].k /\ c.items[x].v = b.items[x].v /\ c.items[x].h = b.items[x].h
          /\ c.items[x].prev = b.items[x].prev
          /\ c.items[x].next = IF x = p THEN q ELSE b.items[x].next
      BY <3>2
    <3>5. /\ b.items[x].k = d.items[x].k /\ b.items[x].v = d.items[x].v /\ b.items[x].h = d.items[x].h
          /\ b.items[x].prev = IF x = q THEN p ELSE d.items[x].prev
          /\ b.items[x].next = d.items[x].next
      BY <1>3
    <3> QED
      BY <3>4, <3>5
  <2> QED
    BY <2>1, <2>2
<1>5. IsItemSet(c, e, n, i, u)
  BY <1>4, ItemSet
<1>6. f = [e EXCEPT !.count = c.count - 1]
  BY <1>4, SMT DEF Tables
<1> HIDE DEF c, e, f
<1>7. e \in Tables(n) /\ e.last = c.last /\ e.tombs = c.tombs
      /\ \A x \in Spots(n) : e.items[x] = IF x = i THEN u ELSE c.items[x]
  BY <1>5 DEF IsItemSet
<1>8. c.count \in Int
  BY <1>4, TableFacts
<1>9. f \in Tables(n) /\ f.last = e.last /\ f.tombs = e.tombs /\ f.count = c.count - 1 /\ f.items = e.items
  BY <1>6, <1>7, <1>8, SMT DEF Tables
<1>10. f.items[i] = u /\ \A x \in Spots(n) : x # i => f.items[x] = c.items[x]
  BY <1>7, <1>9
<1>11. f.last = (IF q = Null THEN p ELSE d.last) /\ f.count = d.count - 1 /\ f.tombs = d.tombs
  BY <1>3, <1>4, <1>7, <1>9
<1>12. \A x \in Spots(n) : x # i =>
       /\ f.items[x].k = d.items[x].k /\ f.items[x].v = d.items[x].v /\ f.items[x].h = d.items[x].h
       /\ f.items[x].prev = IF x = q THEN p ELSE d.items[x].prev
       /\ f.items[x].next = IF x = p THEN q ELSE d.items[x].next
  <2> SUFFICES ASSUME NEW x \in Spots(n), x # i
               PROVE  /\ f.items[x].k = d.items[x].k /\ f.items[x].v = d.items[x].v
                      /\ f.items[x].h = d.items[x].h
                      /\ f.items[x].prev = IF x = q THEN p ELSE d.items[x].prev
                      /\ f.items[x].next = IF x = p THEN q ELSE d.items[x].next
    OBVIOUS
  <2>1. f.items[x] = c.items[x]
    BY <1>10
  <2>2. /\ c.items[x].k = d.items[x].k /\ c.items[x].v = d.items[x].v /\ c.items[x].h = d.items[x].h
        /\ c.items[x].prev = IF x = q THEN p ELSE d.items[x].prev
        /\ c.items[x].next = IF x = p THEN q ELSE d.items[x].next
    BY <1>4
  <2> QED
    BY <2>1, <2>2
<1>13. IsUnlinked(d, f, n, i, u, p, q)
  BY <1>9, <1>10, <1>11, <1>12 DEF IsUnlinked
<1> QED
  BY <1>1, <1>13 DEF p, q

\* What a removal makes of a table and of its list.
IsDeleted(d, e, n, s, j) ==
  /\ Rep(e, n, Without(s, j)) /\ Along(e, Without(s, j)) = Without(Along(d, s), j)
  /\ Full(e) = Full(d) \ {s[j]} /\ Graves(e) = Graves(d) \cup {s[j]} /\ Free(e) = Free(d)
  /\ e.count = d.count - 1 /\ e.tombs = d.tombs + 1
  /\ \A x \in Full(e) : e.items[x].k = d.items[x].k

\* delete takes one entry out of the list and leaves a tombstone in its slot.
LEMMA DeleteIs ==
  ASSUME NEW n, NEW d, NEW s, Rep(d, n, s), NEW j \in 1 .. Len(s)
  PROVE  IsDeleted(d, Delete(d, s[j]), n, s, j)
<1> DEFINE i == s[j]
           L == Len(s)
           t == Without(s, j)
           u == [Zero EXCEPT !.k = Tombstone]
           c == Unlink(d, i, u)
           e == [c EXCEPT !.tombs = @ + 1]
           p == Pv(s, j)
           q == Nx(s, j)
<1>1. n \in Nat /\ n > 0 /\ d \in Tables(n) /\ Sound(d, n) /\ ListOf(d, n, s)
  BY DEF Rep
<1>2. /\ s \in Seq(Spots(n)) /\ IsInjective(s) /\ Range(s) = Full(d)
      /\ d.last = (IF s = <<>> THEN Null ELSE s[L])
      /\ \A l \in 1 .. L : d.items[s[l]].next = Nx(s, l) /\ d.items[s[l]].prev = Pv(s, l)
  BY <1>1 DEF ListOf
<1>3. /\ L \in Nat /\ DOMAIN s = 1 .. L /\ \A l \in 1 .. L : s[l] \in Spots(n)
      /\ \A l, m \in 1 .. L : s[l] = s[m] => l = m
  <2>1. Linked(n, s)
    BY <1>1, <1>2, Neighbours
  <2> QED
    BY <2>1 DEF Linked
<1>4. /\ u \in Item(n) /\ u.k = Tombstone
  <2>1. Null \in Link0(n) /\ NoKey \in Val /\ Tombstone \in Keys \cup {NoKey, Tombstone} /\ 0 \in Nat
    BY SMT DEF Link0, Val
  <2> QED
    BY <2>1, SMT DEF Zero, Item
<1> HIDE DEF u
<1>5. i \in Spots(n) /\ i \in Full(d) /\ d.items[i].prev = p /\ d.items[i].next = q
  <2>1. s[j] \in Range(s)
    BY <1>3 DEF Range
  <2> QED
    BY <2>1, <1>2, <1>3
<1>6. IsUnlinked(d, c, n, i, u, d.items[i].prev, d.items[i].next)
  BY <1>1, <1>4, <1>5, UnlinkIs
<1>7. Delete(d, i) = e
  BY DEF Delete, u
<1> HIDE DEF c
<1>8. /\ c \in Tables(n) /\ c.last = (IF q = Null THEN p ELSE d.last)
      /\ c.count = d.count - 1 /\ c.tombs = d.tombs /\ c.items[i] = u
      /\ \A x \in Spots(n) : x # i =>
           /\ c.items[x].k = d.items[x].k /\ c.items[x].v = d.items[x].v /\ c.items[x].h = d.items[x].h
           /\ c.items[x].prev = IF x = q THEN p ELSE d.items[x].prev
           /\ c.items[x].next = IF x = p THEN q ELSE d.items[x].next
  <2>1. IsUnlinked(d, c, n, i, u, p, q)
    BY <1>5, <1>6
  <2> HIDE DEF p, q
  <2> QED
    BY <2>1 DEF IsUnlinked
<1>9. d.tombs \in Int /\ c.tombs \in Int
  BY <1>1, <1>8, TableFacts
<1>10. e \in Tables(n) /\ e.items = c.items /\ e.last = c.last /\ e.count = c.count /\ e.tombs = c.tombs + 1
  BY <1>8, <1>9, SMT DEF Tables
<1> HIDE DEF e
<1>11. /\ e.items[i].k = Tombstone
       /\ \A x \in Spots(n) : x # i =>
           /\ e.items[x].k = d.items[x].k /\ e.items[x].v = d.items[x].v /\ e.items[x].h = d.items[x].h
           /\ e.items[x].prev = IF x = q THEN p ELSE d.items[x].prev
           /\ e.items[x].next = IF x = p THEN q ELSE d.items[x].next
  <2> HIDE DEF p, q
  <2>1. e.items[i].k = Tombstone
    BY <1>4, <1>8, <1>10
  <2>2. ASSUME NEW x \in Spots(n), x # i
        PROVE  /\ e.items[x].k = d.items[x].k /\ e.items[x].v = d.items[x].v /\ e.items[x].h = d.items[x].h
               /\ e.items[x].prev = IF x = q THEN p ELSE d.items[x].prev
               /\ e.items[x].next = IF x = p THEN q ELSE d.items[x].next
    <3>1. e.items[x] = c.items[x]
      BY <1>10
    <3>2. /\ c.items[x].k = d.items[x].k /\ c.items[x].v = d.items[x].v /\ c.items[x].h = d.items[x].h
          /\ c.items[x].prev = IF x = q THEN p ELSE d.items[x].prev
          /\ c.items[x].next = IF x = p THEN q ELSE d.items[x].next
      BY <2>2, <1>8
    <3> QED
      BY <3>1, <3>2
  <2> QED
    BY <2>1, <2>2
<1>12. Full(e) = Full(d) \ {i} /\ Graves(e) = Graves(d) \cup {i} /\ Free(e) = Free(d)
  <2>0. e.items[i].k = Tombstone /\ \A x \in Spots(n) : x # i => e.items[x].k = d.items[x].k
    BY <1>11
  <2>1. /\ \A x : x \in Full(d) <=> x \in Spots(n) /\ d.items[x].k \notin {NoKey, Tombstone}
        /\ \A x : x \in Graves(d) <=> x \in Spots(n) /\ d.items[x].k = Tombstone
        /\ \A x : x \in Free(d) <=> x \in Spots(n) /\ d.items[x].k = NoKey
        /\ NoKey # Tombstone
    BY <1>1, FullFacts
  <2>2. /\ \A x : x \in Full(e) <=> x \in Spots(n) /\ e.items[x].k \notin {NoKey, Tombstone}
        /\ \A x : x \in Graves(e) <=> x \in Spots(n) /\ e.items[x].k = Tombstone
        /\ \A x : x \in Free(e) <=> x \in Spots(n) /\ e.items[x].k = NoKey
    BY <1>1, <1>10, FullFacts
  <2>3. \A x : x \in Full(e) <=> x \in Full(d) /\ x # i
    BY <2>0, <2>1, <2>2, <1>5
  <2>4. \A x : x \in Graves(e) <=> x \in Graves(d) \/ x = i
    <3> SUFFICES ASSUME NEW x
                 PROVE  x \in Graves(e) <=> x \in Graves(d) \/ x = i
      OBVIOUS
    <3>1. CASE x = i
      <4>1. x \in Spots(n) /\ e.items[x].k = Tombstone /\ d.items[x].k # NoKey
        BY <3>1, <2>0, <2>1, <1>5
      <4> QED
        BY <4>1, <3>1, <2>1, <2>2
    <3>2. CASE x # i
      <4>1. x \in Graves(e) <=> x \in Graves(d)
        <5>1. x \in Spots(n) => e.items[x].k = d.items[x].k
          BY <3>2, <2>0
        <5> QED
          BY <5>1, <2>1, <2>2
      <4> QED
        BY <4>1, <3>2
    <3> QED
      BY <3>1, <3>2
  <2>5. \A x : x \in Free(e) <=> x \in Free(d)
    <3> SUFFICES ASSUME NEW x
                 PROVE  x \in Free(e) <=> x \in Free(d)
      OBVIOUS
    <3>1. CASE x = i
      <4>1. x \in Spots(n) /\ e.items[x].k = Tombstone /\ d.items[x].k # NoKey
        BY <3>1, <2>0, <2>1, <1>5
      <4> QED
        BY <4>1, <3>1, <2>1, <2>2
    <3>2. CASE x # i
      <4>1. x \in Spots(n) => e.items[x].k = d.items[x].k
        BY <3>2, <2>0
      <4> QED
        BY <4>1, <2>1, <2>2
    <3> QED
      BY <3>1, <3>2
  <2> QED
    BY <2>3, <2>4, <2>5
<1>13. \A x \in Full(e) : /\ x \in Full(d) /\ x \in Spots(n) /\ x # i
                          /\ e.items[x].k = d.items[x].k /\ e.items[x].h = d.items[x].h
  <2>1. \A x \in Full(d) : x \in Spots(n)
    BY <1>1, FullFacts
  <2> QED
    BY <2>1, <1>11, <1>12
<1>14. Sound(e, n)
  <2>1. \A x \in Full(e) : e.items[x].h = Hash[e.items[x].k] /\ Reach(e, n, x)
    <3> SUFFICES ASSUME NEW x \in Full(e)
                 PROVE  e.items[x].h = Hash[e.items[x].k] /\ Reach(e, n, x)
      OBVIOUS
    <3>1. d.items[x].h = Hash[d.items[x].k] /\ Reach(d, n, x)
      BY <1>1, <1>13 DEF Sound
    <3>2. Path(d, n, d.items[x].h, x)
      BY <3>1, <1>1, <1>13, ReachIsPath
    <3>3. Path(e, n, d.items[x].h, x)
      BY <3>2, <1>12 DEF Path
    <3>4. Reach(e, n, x)
      BY <3>3, <1>1, <1>10, <1>13, ReachIsPath
    <3> QED
      BY <3>1, <3>4, <1>13
  <2>2. \A x, y \in Full(e) : e.items[x].k = e.items[y].k => x = y
    <3> SUFFICES ASSUME NEW x \in Full(e), NEW y \in Full(e), e.items[x].k = e.items[y].k
                 PROVE  x = y
      OBVIOUS
    <3>1. d.items[x].k = d.items[y].k /\ x \in Full(d) /\ y \in Full(d)
      BY <1>13
    <3> QED
      BY <3>1, <1>1 DEF Sound
  <2> QED
    BY <2>1, <2>2 DEF Sound
<1>15. IsShorter(n, s, t, j)
  BY <1>1, <1>2, ShorterIs
<1> HIDE DEF t
<1>16. /\ t \in Seq(Spots(n)) /\ IsInjective(t) /\ Range(t) = Range(s) \ {s[j]}
       /\ Len(t) = L - 1
       /\ \A l \in 1 .. L - 1 :
            /\ t[l] = s[Was(j, l)]
            /\ Nx(t, l) = IF s[Was(j, l)] = p THEN q ELSE Nx(s, Was(j, l))
            /\ Pv(t, l) = IF s[Was(j, l)] = q THEN p ELSE Pv(s, Was(j, l))
       /\ (IF t = <<>> THEN Null ELSE t[Len(t)]) = IF q = Null THEN p ELSE s[L]
  BY <1>15 DEF IsShorter
<1>17. /\ L - 1 \in Nat
       /\ \A l \in 1 .. L - 1 : Was(j, l) \in 1 .. L /\ Was(j, l) # j
  BY <1>3, WasIs
<1>18. \A l \in 1 .. L - 1 : s[Was(j, l)] \in Spots(n) /\ s[Was(j, l)] # i
  BY <1>3, <1>17
<1>19. ListOf(e, n, t)
  <2>1. \A l \in 1 .. Len(t) : e.items[t[l]].next = Nx(t, l) /\ e.items[t[l]].prev = Pv(t, l)
    <3> SUFFICES ASSUME NEW l \in 1 .. L - 1
                 PROVE  e.items[t[l]].next = Nx(t, l) /\ e.items[t[l]].prev = Pv(t, l)
      BY <1>16
    <3> DEFINE a == Was(j, l)
    <3>1. t[l] = s[a] /\ s[a] \in Spots(n) /\ s[a] # i /\ a \in 1 .. L
      BY <1>16, <1>17, <1>18
    <3>2. /\ e.items[s[a]].prev = (IF s[a] = q THEN p ELSE d.items[s[a]].prev)
          /\ e.items[s[a]].next = IF s[a] = p THEN q ELSE d.items[s[a]].next
      BY <3>1, <1>11
    <3>3. d.items[s[a]].next = Nx(s, a) /\ d.items[s[a]].prev = Pv(s, a)
      BY <3>1, <1>2
    <3>4. /\ Nx(t, l) = (IF s[a] = p THEN q ELSE Nx(s, a))
          /\ Pv(t, l) = IF s[a] = q THEN p ELSE Pv(s, a)
      BY <1>16
    <3> HIDE DEF a, p, q
    <3> QED
      BY <3>1, <3>2, <3>3, <3>4
  <2>2. s # <<>>
    <3>1. L # 0
      BY <1>3, SMT
    <3> QED
      BY <3>1, <1>2, SeqIs
  <2>3. e.last = IF q = Null THEN p ELSE s[L]
    BY <2>2, <1>2, <1>8, <1>10
  <2>4. e.last = IF t = <<>> THEN Null ELSE t[Len(t)]
    BY <2>3, <1>16
  <2>5. Range(t) = Full(e)
    BY <1>2, <1>12, <1>16
  <2> QED
    BY <2>1, <2>4, <2>5, <1>16 DEF ListOf
<1>20. Rep(e, n, t)
  BY <1>1, <1>10, <1>14, <1>19 DEF Rep
<1> DEFINE m == Along(d, s)
<1>21. m \in Seq(Pair) /\ Len(m) = L /\ \A l \in 1 .. L : m[l] = EntryAt(d, s[l])
  <2>1. IsAlong(d, s, m)
    BY AlongIs
  <2> QED
    BY <2>1 DEF IsAlong
<1>22. Along(e, t) = [l \in 1 .. L - 1 |-> EntryAt(e, t[l])]
  BY <1>16 DEF Along
<1> HIDE DEF m
<1>23. Without(m, j) = [l \in 1 .. L - 1 |-> IF l < j THEN m[l] ELSE m[l + 1]]
  BY <1>21 DEF Without
<1>24. \A l \in 1 .. L - 1 : EntryAt(e, t[l]) = IF l < j THEN m[l] ELSE m[l + 1]
  <2> SUFFICES ASSUME NEW l \in 1 .. L - 1
               PROVE  EntryAt(e, t[l]) = IF l < j THEN m[l] ELSE m[l + 1]
    OBVIOUS
  <2>1. (IF l < j THEN m[l] ELSE m[l + 1]) = m[Was(j, l)]
    BY DEF Was
  <2>2. m[Was(j, l)] = EntryAt(d, s[Was(j, l)])
    BY <1>17, <1>21
  <2>3. EntryAt(e, s[Was(j, l)]) = EntryAt(d, s[Was(j, l)])
    BY <1>11, <1>18 DEF EntryAt
  <2> QED
    BY <2>1, <2>2, <2>3, <1>16
<1>25. Along(e, t) = Without(m, j)
  BY <1>22, <1>23, <1>24
<1>26. e.count = d.count - 1 /\ e.tombs = d.tombs + 1
  BY <1>8, <1>10
<1>27. IsDeleted(d, e, n, s, j)
  BY <1>12, <1>13, <1>20, <1>25, <1>26 DEF IsDeleted, t, m
<1> QED
  BY <1>7, <1>27

-----------------------------------------------------------------------------
(* Counting *)

IsCount(d, n, s) ==
  /\ IsFiniteSet(Full(d)) /\ Cardinality(Full(d)) = Len(s) /\ Len(s) \in Nat
  /\ IsFiniteSet(Graves(d)) /\ Cardinality(Graves(d)) \in Nat
  /\ Len(s) + Cardinality(Graves(d)) < n => Free(d) # {}

\* The list counts the entries; a table with fewer entries and tombstones than slots
\* has an empty slot.
LEMMA CountIs ==
  ASSUME NEW n, NEW d, NEW s, Rep(d, n, s)
  PROVE  IsCount(d, n, s)
<1> n \in Nat /\ n > 0 /\ d \in Tables(n) /\ ListOf(d, n, s)
  BY DEF Rep
<1> s \in Seq(Spots(n)) /\ IsInjective(s) /\ Range(s) = Full(d)
  BY DEF ListOf
<1> PICK L \in Nat : L = Len(s) /\ DOMAIN s = 1 .. L /\ s \in [1 .. L -> Spots(n)]
  BY SMT
<1>4. \A x : x \in Full(d) <=> \E j \in 1 .. L : s[j] = x
  BY DEF Range
<1>5. s \in [1 .. L -> Full(d)]
  BY <1>4
<1>6. s \in Bijection(1 .. L, Full(d))
  <2>1. \A a, b \in 1 .. L : s[a] = s[b] => a = b
    BY DEF IsInjective
  <2> QED
    BY <2>1, <1>4, <1>5 DEF Bijection, Injection, Surjection, IsInjective
<1>7. IsFiniteSet(1 .. L) /\ Cardinality(1 .. L) = L
  <2>1. 1 \in Int /\ L \in Int
    BY SMT
  <2>2. IsFiniteSet(1 .. L) /\ Cardinality(1 .. L) = IF 1 > L THEN 0 ELSE L - 1 + 1
    BY <2>1, FS_Interval
  <2> QED
    BY <2>2, SMT
<1> IsFiniteSet(Full(d)) /\ Cardinality(Full(d)) = L
  <2>1. ExistsBijection(1 .. L, Full(d))
    BY <1>6 DEF ExistsBijection
  <2> QED
    BY <2>1, <1>7, FS_Bijection
<1>9. IsFiniteSet(Spots(n)) /\ Cardinality(Spots(n)) = n
  <2>1. 0 \in Int /\ n - 1 \in Int
    BY SMT
  <2>2. IsFiniteSet(0 .. n - 1) /\ Cardinality(0 .. n - 1) = IF 0 > n - 1 THEN 0 ELSE (n - 1) - 0 + 1
    BY <2>1, FS_Interval
  <2> QED
    BY <2>2, SMT DEF Spots
<1>10. /\ \A x : x \in Full(d) <=> x \in Spots(n) /\ d.items[x].k \notin {NoKey, Tombstone}
       /\ \A x : x \in Graves(d) <=> x \in Spots(n) /\ d.items[x].k = Tombstone
       /\ \A x : x \in Free(d) <=> x \in Spots(n) /\ d.items[x].k = NoKey
  BY FullFacts
<1> IsFiniteSet(Graves(d)) /\ Cardinality(Graves(d)) \in Nat
  <2>1. Graves(d) \in SUBSET Spots(n)
    BY <1>10
  <2> QED
    BY <2>1, <1>9, FS_Subset, FS_CardinalityType
<1>12. ASSUME L + Cardinality(Graves(d)) < n
       PROVE  Free(d) # {}
  <2> SUFFICES ASSUME Free(d) = {}
               PROVE  FALSE
    OBVIOUS
  <2>1. Full(d) \cup Graves(d) = Spots(n) /\ Full(d) \cap Graves(d) = {}
    BY <1>10
  <2>2. Cardinality(Full(d) \cup Graves(d)) =
          Cardinality(Full(d)) + Cardinality(Graves(d)) - Cardinality(Full(d) \cap Graves(d))
    BY FS_Union
  <2>3. Cardinality({}) = 0
    BY FS_EmptySet
  <2>4. n = L + Cardinality(Graves(d)) - 0
    BY <2>1, <2>2, <2>3, <1>9
  <2> QED
    BY <2>4, <1>12, SMT
<1> QED
  BY <1>12 DEF IsCount

\* A table that has the entries m, in a list through the slots s.
Holds(d, n, s, m) ==
  /\ Rep(d, n, s) /\ Along(d, s) = m /\ n >= 4
  /\ d.count = Len(s) /\ d.tombs = Cardinality(Graves(d))
  /\ 4 * (d.count + d.tombs) < (3 * n) + 4

\* The counters are right, and there is an empty slot.
LEMMA HoldsFacts ==
  ASSUME NEW n, NEW d, NEW s, NEW m, Holds(d, n, s, m)
  PROVE  /\ n \in Nat /\ n > 0 /\ d \in Tables(n) /\ Sound(d, n) /\ ListOf(d, n, s)
         /\ Free(d) # {} /\ IsAlong(d, s, m) /\ d.count \in Nat /\ d.tombs \in Nat
         /\ d.count = Len(m) /\ d.count = Cardinality(Full(d)) /\ d.count < n
<1> Rep(d, n, s) /\ n \in Nat /\ n > 0 /\ d \in Tables(n) /\ Sound(d, n) /\ ListOf(d, n, s)
  BY DEF Rep, Holds
<1>2. IsCount(d, n, s)
  BY CountIs
<1>3. IsAlong(d, s, m)
  <2>1. IsAlong(d, s, Along(d, s))
    BY AlongIs
  <2> QED
    BY <2>1 DEF Holds
<1>4. Len(m) = Len(s)
  BY <1>3 DEF IsAlong
<1>5. d.count \in Nat /\ d.tombs \in Nat /\ d.count = Len(m) /\ d.count = Cardinality(Full(d))
  BY <1>2, <1>4 DEF Holds, IsCount
<1>6. d.count + d.tombs < n /\ d.count < n
  <2>1. n >= 4 /\ 4 * (d.count + d.tombs) < (3 * n) + 4
    BY DEF Holds
  <2> QED
    BY <2>1, <1>5, SMT
<1>7. Free(d) # {}
  BY <1>2, <1>6 DEF IsCount, Holds
<1> QED
  BY <1>3, <1>5, <1>6, <1>7

-----------------------------------------------------------------------------
(* The empty table, and the walks along the list *)

\* A new table has no entries.
LEMMA EmptyIs ==
  ASSUME NEW n \in Nat, n >= 4
  PROVE  Holds(EmptyTable(n), n, <<>>, <<>>) /\ Full(EmptyTable(n)) = {} /\ Graves(EmptyTable(n)) = {}
<1> DEFINE d == EmptyTable(n)
<1>1. Zero \in Item(n) /\ Zero.k = NoKey
  <2>1. Null \in Link0(n) /\ NoKey \in Val /\ NoKey \in Keys \cup {NoKey, Tombstone} /\ 0 \in Nat
    BY SMT DEF Link0, Val
  <2> QED
    BY <2>1, SMT DEF Zero, Item
<1> /\ d.items = [i \in Spots(n) |-> Zero] /\ d.last = Null /\ d.count = 0 /\ d.tombs = 0
  BY SMT DEF EmptyTable, Spots
<1>3. d \in Tables(n)
  <2>1. [i \in Spots(n) |-> Zero] \in [Spots(n) -> Item(n)] /\ Null \in Link0(n) /\ 0 \in Int
    BY <1>1, SMT DEF Link0
  <2> QED
    BY <2>1, SMT DEF EmptyTable, Tables, Spots
<1> HIDE DEF d
<1>4. \A x \in Spots(n) : d.items[x].k = NoKey
  BY <1>1
<1> Full(d) = {} /\ Graves(d) = {}
  <2> /\ \A x : x \in Full(d) <=> x \in Spots(n) /\ d.items[x].k \notin {NoKey, Tombstone}
      /\ \A x : x \in Graves(d) <=> x \in Spots(n) /\ d.items[x].k = Tombstone
      /\ NoKey # Tombstone
    BY <1>3, FullFacts
  <2>2. \A x : x \notin Full(d)
    BY <1>4
  <2>3. \A x : x \notin Graves(d)
    <3> SUFFICES ASSUME NEW x, x \in Graves(d)
                 PROVE  FALSE
      OBVIOUS
    <3>1. d.items[x].k = Tombstone /\ d.items[x].k = NoKey
      BY <1>4
    <3> QED
      BY <3>1
  <2> QED
    BY <2>2, <2>3
<1>6. Sound(d, n)
  BY DEF Sound
<1>7. /\ <<>> \in Seq(Spots(n)) /\ Len(<<>>) = 0 /\ DOMAIN <<>> = {} /\ 1 .. 0 = {}
  BY SMT
<1>8. ListOf(d, n, <<>>)
  BY <1>7 DEF ListOf, IsInjective, Range
<1>9. Rep(d, n, <<>>)
  <2>1. n > 0
    BY SMT
  <2> QED
    BY <2>1, <1>3, <1>6, <1>8 DEF Rep
<1>10. Along(d, <<>>) = <<>>
  BY SMT DEF Along
<1>11. Cardinality(Graves(d)) = 0
  BY FS_EmptySet
<1>12. 4 * (d.count + d.tombs) < (3 * n) + 4
  BY SMT
<1> QED
  BY <1>7, <1>9, <1>10, <1>11, <1>12 DEF Holds, d

\* Where a list begins.
Start(r) == IF Len(r) = 0 THEN Null ELSE r[1]

\* A walk along links that go through the slots r, in this order, gives r.
LEMMA WalkIs ==
  ASSUME NEW n \in Nat, NEW d \in Tables(n), NEW way, NEW r \in Seq(Spots(n)), Len(r) <= n,
         NEW i, i = Start(r),
         \A j \in 1 .. Len(r) : d.items[r[j]][way] = Nx(r, j)
  PROVE  Walk(d, i, way) = r
<1> DEFINE L == Len(r)
           step == [j \in Spots(n) \cup {Null} |-> IF j = Null THEN Null ELSE d.items[j][way]]
           val(m) == IF m < L THEN r[m + 1] ELSE Null
           f == [m \in 0 .. n |-> val(m)]
           Solves(w) == w = [m \in 0 .. n |-> IF m = 0 THEN i ELSE step[w[m - 1]]]
           S == [m \in 0 .. n |-> {val(m)}]
           T(w) == {m \in 0 .. n : w[m] # Null}
           Gone(w) == [m \in 1 .. Cardinality(T(w)) |-> w[m - 1]]
           after == CHOOSE w : Solves(w)
<1>1. DOMAIN d.items = Spots(n) /\ Size(d) = n
  BY TableFacts
<1>2. Walk(d, i, way) = Gone(after)
  BY <1>1, SMT DEF Walk
<1> /\ L \in Nat /\ (\A j \in 1 .. L : r[j] \in Spots(n)) /\ r = [m \in 1 .. L |-> r[m]]
    /\ \A x \in Spots(n) : x # Null
  BY SMT DEF Spots, Null
<1> HIDE DEF L
<1>4. \A m \in 1 .. n : step[val(m - 1)] = val(m)
  <2> SUFFICES ASSUME NEW m \in 1 .. n
               PROVE  step[val(m - 1)] = val(m)
    OBVIOUS
  <2> CASE m <= L
    <3> m - 1 < L /\ (m - 1) + 1 = m /\ m \in 1 .. L
      BY SMT
    <3>2. val(m - 1) = r[m]
      OBVIOUS
    <3>3. step[r[m]] = d.items[r[m]][way]
      OBVIOUS
    <3>4. d.items[r[m]][way] = Nx(r, m)
      BY DEF L
    <3>5. Nx(r, m) = val(m)
      <4>1. m = L <=> ~ (m < L)
        BY SMT
      <4> QED
        BY <4>1 DEF Nx, L
    <3> QED
      BY <3>2, <3>3, <3>4, <3>5
  <2>2. CASE ~ (m <= L)
    <3>1. ~ (m - 1 < L) /\ ~ (m < L)
      BY <2>2, SMT
    <3>2. val(m - 1) = Null /\ val(m) = Null
      BY <3>1
    <3> QED
      BY <3>2
  <2> QED
    BY <2>2
<1>5. i = val(0)
  <2>1. (L = 0 <=> ~ (0 < L)) /\ 0 + 1 = 1
    BY SMT
  <2> QED
    BY <2>1 DEF L, Start
<1> HIDE DEF step
<1> /\ 0 \in 0 .. n /\ \A m \in 0 .. n : m # 0 => m \in 1 .. n /\ m - 1 \in 0 .. n
    /\ \A m \in 1 .. n : m \in 0 .. n /\ m - 1 \in 0 .. n /\ m # 0
  BY SMT
<1> HIDE DEF val
<1>7. Solves(f)
  <2>1. \A m \in 0 .. n : f[m] = val(m)
    OBVIOUS
  <2>2. \A m \in 0 .. n : val(m) = IF m = 0 THEN i ELSE step[f[m - 1]]
    BY <2>1, <1>4, <1>5
  <2> QED
    BY <2>2
<1>8. Solves(after)
  BY <1>7
<1> HIDE DEF after
<1>9. \A m \in 0 .. n : after[m] \in S[m]
  <2>1. after[0] = i /\ \A m \in 1 .. n : after[m] = step[after[m - 1]]
    BY <1>8
  <2>2. after[0] \in S[0]
    BY <2>1, <1>5
  <2>3. \A m \in 1 .. n : after[m - 1] \in S[m - 1] => after[m] \in S[m]
    BY <2>1, <1>4
  <2> HIDE DEF S
  <2> QED
    BY <2>2, <2>3, LoopInvariant
<1>10. \A m \in 0 .. n : after[m] = val(m)
  BY <1>9
<1>11. T(after) = 0 .. L - 1
  <2>1. \A m \in 0 .. n : val(m) # Null <=> m < L
    <3> SUFFICES ASSUME NEW m \in 0 .. n
                 PROVE  val(m) # Null <=> m < L
      OBVIOUS
    <3>1. m < L => m + 1 \in 1 .. L
      BY SMT
    <3> QED
      BY <3>1 DEF val
  <2>2. \A m : m \in 0 .. L - 1 <=> m \in 0 .. n /\ m < L
    BY SMT DEF L
  <2> QED
    BY <2>1, <2>2, <1>10
<1>12. Cardinality(0 .. L - 1) = L
  <2>1. 0 \in Int /\ L - 1 \in Int
    BY SMT
  <2>2. Cardinality(0 .. L - 1) = IF 0 > L - 1 THEN 0 ELSE (L - 1) - 0 + 1
    BY <2>1, FS_Interval
  <2> QED
    BY <2>2, SMT
<1>13. Gone(after) = [m \in 1 .. L |-> after[m - 1]]
  BY <1>11, <1>12
<1>14. \A m \in 1 .. L : after[m - 1] = r[m]
  <2> SUFFICES ASSUME NEW m \in 1 .. L
               PROVE  after[m - 1] = r[m]
    OBVIOUS
  <2>1. m - 1 \in 0 .. n /\ m - 1 < L /\ (m - 1) + 1 = m
    BY SMT DEF L
  <2> QED
    BY <2>1, <1>10 DEF val
<1>15. Gone(after) = [m \in 1 .. L |-> r[m]]
  BY <1>13, <1>14
<1> QED
  BY <1>2, <1>15

\* A sequence from its end.
Rev(s) == [j \in 1 .. Len(s) |-> s[Len(s) - j + 1]]

\* A list from its end has next and prev exchanged.
LEMMA RevIs ==
  ASSUME NEW S, NEW s \in Seq(S)
  PROVE  /\ Rev(s) \in Seq(S) /\ Len(Rev(s)) = Len(s)
         /\ \A j \in 1 .. Len(s) : /\ Len(s) - j + 1 \in 1 .. Len(s) /\ Rev(s)[j] = s[Len(s) - j + 1]
                                   /\ Nx(Rev(s), j) = Pv(s, Len(s) - j + 1)
<1> DEFINE r == Rev(s)
<1> PICK L \in Nat : L = Len(s) /\ \A j \in 1 .. L : s[j] \in S
  BY SMT
<1>2. \A j \in 1 .. L : L - j + 1 \in 1 .. L
  BY SMT
<1>3. r = [j \in 1 .. L |-> s[L - j + 1]]
  BY DEF Rev
<1> HIDE DEF r
<1>4. r \in Seq(S) /\ Len(r) = L
  BY <1>2, <1>3, SMT
<1>5. \A j \in 1 .. L : r[j] = s[L - j + 1]
  BY <1>3
<1>6. \A j \in 1 .. L : Nx(r, j) = Pv(s, L - j + 1)
  <2> SUFFICES ASSUME NEW j \in 1 .. L
               PROVE  Nx(r, j) = Pv(s, L - j + 1)
    OBVIOUS
  <2>1. (j = L <=> L - j + 1 = 1) /\ (j # L => j + 1 \in 1 .. L /\ L - (j + 1) + 1 = (L - j + 1) - 1)
    BY SMT
  <2>2. j # L => r[j + 1] = s[(L - j + 1) - 1]
    BY <2>1, <1>5
  <2> QED
    BY <2>1, <2>2, <1>4 DEF Nx, Pv
<1> QED
  BY <1>2, <1>4, <1>5, <1>6 DEF r

IsWalked(d, s, m) == Slots(d) = s /\ Backwards(d) = Rev(s) /\ Entries(d) = m

\* The walks of a table go through its list, and rehash and the iterations see its entries.
LEMMA SlotsAre ==
  ASSUME NEW n, NEW d, NEW s, NEW m, Holds(d, n, s, m)
  PROVE  IsWalked(d, s, m)
<1> DEFINE L == Len(s)
           r == Rev(s)
<1>1. /\ n \in Nat /\ n > 0 /\ d \in Tables(n) /\ ListOf(d, n, s) /\ d.count < n /\ d.count = L
  <2>1. d.count = Len(s)
    BY DEF Holds
  <2> QED
    BY <2>1, HoldsFacts
<1>2. /\ s \in Seq(Spots(n)) /\ d.last = (IF s = <<>> THEN Null ELSE s[L])
      /\ \A j \in 1 .. L : d.items[s[j]].next = Nx(s, j) /\ d.items[s[j]].prev = Pv(s, j)
  BY <1>1 DEF ListOf
<1>3. L \in Nat /\ L <= n /\ (s = <<>> <=> L = 0) /\ \A j \in 1 .. L : s[j] \in Spots(n)
  <2>1. s = <<>> <=> L = 0
    BY <1>2, SeqIs
  <2>2. L \in Nat /\ \A j \in 1 .. L : s[j] \in Spots(n)
    BY <1>2, SMT
  <2>3. L <= n
    BY <2>2, <1>1, SMT
  <2> QED
    BY <2>1, <2>2, <2>3
<1>4. r \in Seq(Spots(n)) /\ Len(r) = L
      /\ \A j \in 1 .. L : /\ L - j + 1 \in 1 .. L /\ r[j] = s[L - j + 1]
                           /\ Nx(r, j) = Pv(s, L - j + 1)
  BY <1>2, RevIs
<1> HIDE DEF r
<1>5. Backwards(d) = r
  <2>1. d.last = IF L = 0 THEN Null ELSE r[1]
    <3>1. L # 0 => 1 \in 1 .. L /\ L - 1 + 1 = L
      BY <1>3, SMT
    <3> QED
      BY <3>1, <1>2, <1>3, <1>4
  <2>2. \A j \in 1 .. L : d.items[r[j]].prev = Nx(r, j)
    <3> TAKE j \in 1 .. L
    <3>1. L - j + 1 \in 1 .. L /\ r[j] = s[L - j + 1] /\ Nx(r, j) = Pv(s, L - j + 1)
      BY <1>4
    <3>2. d.items[s[L - j + 1]].prev = Pv(s, L - j + 1)
      BY <3>1, <1>2
    <3> QED
      BY <3>1, <3>2
  <2>3. \A j \in 1 .. L : d.items[r[j]]["prev"] = Nx(r, j)
    BY <2>2
  <2>4. Walk(d, d.last, "prev") = r
    <3>1. /\ Len(r) <= n /\ d.last = Start(r)
          /\ \A j \in 1 .. Len(r) : d.items[r[j]]["prev"] = Nx(r, j)
      BY <2>1, <2>3, <1>3, <1>4 DEF Start
    <3>2. PICK i : i = d.last
      OBVIOUS
    <3>3. Walk(d, i, "prev") = r
      BY <3>1, <3>2, <1>1, <1>4, WalkIs, SMT
    <3> QED
      BY <3>2, <3>3
  <2> QED
    BY <2>4 DEF Backwards
<1>6. Slots(d) = s
  <2>1. CASE L = 0
    <3>1. d.last = Null /\ s = <<>>
      BY <2>1, <1>2, <1>3
    <3> QED
      BY <3>1 DEF Slots
  <2>2. CASE L # 0
    <3>1. L \in 1 .. L /\ L - L + 1 = 1
      BY <2>2, <1>3, SMT
    <3>2. r[Len(r)] = s[1]
      BY <3>1, <1>4
    <3>3. d.last # Null
      <4>1. \A x \in Spots(n) : x # Null
        BY SMT DEF Spots, Null
      <4> QED
        BY <2>2, <3>1, <4>1, <1>2, <1>3
    <3>4. Slots(d) = Walk(d, s[1], "next")
      BY <3>2, <3>3, <1>5 DEF Slots
    <3>5. \A j \in 1 .. L : d.items[s[j]]["next"] = Nx(s, j)
      BY <1>2
    <3>6. Walk(d, s[1], "next") = s
      <4>1. PICK i : i = s[1]
        OBVIOUS
      <4>2. Len(s) <= n /\ i = Start(s)
        BY <2>2, <4>1, <1>3 DEF Start
      <4>3. Walk(d, i, "next") = s
        BY <3>5, <4>2, <1>1, <1>2, WalkIs, SMT
      <4> QED
        BY <4>1, <4>3
    <3> QED
      BY <3>4, <3>6
  <2> QED
    BY <2>1, <2>2
<1>7. Entries(d) = m
  <2>1. m = Along(d, s)
    BY DEF Holds
  <2> QED
    BY <2>1, <1>6 DEF Entries, Along
<1> QED
  BY <1>5, <1>6, <1>7 DEF IsWalked, r

=============================================================================
