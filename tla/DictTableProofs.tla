-------------------------- MODULE DictTableProofs ---------------------------
(***************************************************************************)
(* The methods of a Dict on its table and on the ordered map.              *)
(*                                                                         *)
(* IsDict(d, m): d has no table yet and m is empty, or d holds m.  Every   *)
(* method takes IsDict(d, m) to IsDict of the results of dict.c and of     *)
(* OrderedMap; the loops by induction over their steps.                    *)
(***************************************************************************)
EXTENDS DictSlotProofs

\* Zenon proves every step that does not name another prover.
USE Zenon

-----------------------------------------------------------------------------
(* rehash *)

\* The first j entries.
Front(es, j) == [l \in 1 .. j |-> es[l]]

\* The first j entries are the first j - 1 and one more.
LEMMA FrontIs ==
  ASSUME NEW S, NEW es \in Seq(S), NEW j \in 1 .. Len(es)
  PROVE  Append(Front(es, j - 1), es[j]) = Front(es, j) /\ Front(es, j) \in Seq(S) /\ Len(Front(es, j)) = j
<1> DEFINE A == Front(es, j - 1)
           B == Front(es, j)
<1> Len(es) \in Nat /\ j \in Nat /\ j - 1 \in Nat /\ (\A l \in 1 .. j : es[l] \in S) /\ es[j] \in S
  BY SMT
<1> A = [l \in 1 .. j - 1 |-> es[l]] /\ B = [l \in 1 .. j |-> es[l]]
  BY DEF Front
<1> HIDE DEF A, B
<1>3. A \in Seq(S) /\ Len(A) = j - 1
  BY SMT
<1>4. B \in Seq(S) /\ Len(B) = j
  BY SMT
<1>5. Append(A, es[j]) = [l \in 1 .. Len(A) + 1 |-> IF l = Len(A) + 1 THEN es[j] ELSE A[l]]
  BY <1>3, AppendValue, SMT
<1>6. (j - 1) + 1 = j /\ \A l \in 1 .. j : l # j => l \in 1 .. j - 1
  BY SMT
<1>7. Append(A, es[j]) = [l \in 1 .. j |-> IF l = j THEN es[j] ELSE A[l]]
  BY <1>3, <1>5, <1>6
<1>8. \A l \in 1 .. j : (IF l = j THEN es[j] ELSE A[l]) = es[l]
  BY <1>6
<1>9. Append(A, es[j]) = B
  BY <1>7, <1>8
<1> QED
  BY <1>4, <1>9 DEF A, B

\* A table with the entries m and no tombstone.
Fresh(e, n, t, m) == Rep(e, n, t) /\ Along(e, t) = m /\ Graves(e) = {} /\ e.tombs = 0

\* One more entry.
LEMMA FreshPut ==
  ASSUME NEW n, NEW e, NEW t, NEW m, Fresh(e, n, t, m), Len(m) < n, NEW x \in Pair, x.k \notin KeysOf(m)
  PROVE  \E u : Fresh(Place(e, FindSpot(e, x.k), x.k, x.v), n, u, Append(m, x))
<1> DEFINE k == x.k
           v == x.v
           i == FindSpot(e, k)
           c == Place(e, i, k, v)
<1> /\ Rep(e, n, t) /\ Along(e, t) = m /\ Graves(e) = {} /\ e.tombs = 0
    /\ n \in Nat /\ n > 0 /\ e \in Tables(n) /\ Sound(e, n)
  BY DEF Fresh, Rep
<1> k \in Keys /\ v \in Val /\ [k |-> k, v |-> v] = x
  BY SMT DEF Pair
<1>3. IsAlong(e, t, m)
  BY AlongIs
<1>4. Len(m) = Len(t) /\ \A y : y \in KeysOf(m) <=> \E z \in Full(e) : e.items[z].k = y
  BY <1>3 DEF IsAlong
<1>5. Free(e) # {}
  <2>1. IsCount(e, n, t)
    BY CountIs
  <2>2. Cardinality(Graves(e)) = 0 /\ Len(t) \in Nat
    BY <2>1, FS_EmptySet DEF IsCount
  <2>3. Len(t) + Cardinality(Graves(e)) < n
    BY <2>2, <1>4, SMT
  <2> QED
    BY <2>1, <2>3 DEF IsCount
<1> HIDE DEF k, v
<1>6. \A z \in Full(e) : e.items[z].k # k
  BY <1>4 DEF k
<1>7. Vacant(e, n, k, i)
  BY <1>5, <1>6, FindSpotIs
<1> HIDE DEF i, c
<1>8. c = Place(e, i, k, v)
  BY DEF c
<1>9. /\ Rep(c, n, Append(t, i)) /\ Along(c, Append(t, i)) = Append(Along(e, t), [k |-> k, v |-> v])
      /\ Graves(c) = Graves(e) \ {i} /\ c.tombs = e.tombs
  <2>1. IsAdded(e, c, n, t, i, k, v)
    BY <1>6, <1>7, <1>8, PlaceRep
  <2> QED
    BY <2>1 DEF IsAdded
<1>10. Graves(c) = {}
  BY <1>9
<1>11. Fresh(c, n, Append(t, i), Append(m, x))
  BY <1>9, <1>10 DEF Fresh
<1> QED
  BY <1>11 DEF c, i, k, v

\* rehash moves the entries of a list, in its order, into a larger table.
LEMMA TableIs ==
  ASSUME NEW d, d.count \in Int, NEW n \in Nat, n >= 4, NEW es \in Seq(Pair), Len(es) < n,
         \A j, l \in 1 .. Len(es) : es[j].k = es[l].k => j = l
  PROVE  \E t : Fresh(Table(d, es, n), n, t, es) /\ Table(d, es, n).count = d.count
<1> DEFINE L == Len(es)
           Good(e, j) == \E t : Fresh(e, n, t, Front(es, j))
           S == [j \in 0 .. L |-> {e \in Tables(n) : Good(e, j)}]
           Next1(e, j) == Place(e, FindSpot(e, es[j].k), es[j].k, es[j].v)
           g == [p \in (1 .. L) \X Tables(n) |-> Next1(p[2], p[1])]
           Solves(f) == f = [j \in 0 .. L |-> IF j = 0 THEN EmptyTable(n) ELSE Next1(f[j - 1], j)]
           after == CHOOSE f : Solves(f)
           e == after[L]
<1>1. Table(d, es, n) = [e EXCEPT !.count = d.count]
  BY SMT DEF Table
<1> HIDE DEF after
<1>2. /\ L \in Nat /\ (\A j \in 1 .. L : es[j] \in Pair) /\ L < n /\ es = Front(es, L)
  BY SMT DEF Front
<1>3. /\ 0 \in 0 .. L /\ L \in 0 .. L /\ (\A j \in 0 .. L : j # 0 => j \in 1 .. L)
      /\ \A j \in 1 .. L : j \in 0 .. L /\ j - 1 \in 0 .. L /\ j # 0
  BY <1>2, SMT
<1>4. EmptyTable(n) \in S[0]
  <2>1. Holds(EmptyTable(n), n, <<>>, <<>>) /\ Graves(EmptyTable(n)) = {}
    BY EmptyIs
  <2>2. Front(es, 0) = <<>> /\ EmptyTable(n).tombs = 0
    BY SMT DEF Front, EmptyTable
  <2>3. Rep(EmptyTable(n), n, <<>>) /\ Along(EmptyTable(n), <<>>) = <<>>
    BY <2>1 DEF Holds
  <2>4. Fresh(EmptyTable(n), n, <<>>, Front(es, 0))
    BY <2>1, <2>2, <2>3 DEF Fresh
  <2>5. EmptyTable(n) \in Tables(n)
    BY <2>3 DEF Rep
  <2> QED
    BY <2>4, <2>5, <1>3
<1>5. \A j \in 1 .. L : \A c \in S[j - 1] : Next1(c, j) \in S[j]
  <2> SUFFICES ASSUME NEW j \in 1 .. L, NEW c, c \in S[j - 1]
               PROVE  Next1(c, j) \in S[j]
    OBVIOUS
  <2>1. Good(c, j - 1)
    BY <1>3
  <2>2. PICK t : Fresh(c, n, t, Front(es, j - 1))
    BY <2>1
  <2> DEFINE m == Front(es, j - 1)
  <2>3. Len(m) < n /\ DOMAIN m = 1 .. j - 1
    <3>1. m = [l \in 1 .. j - 1 |-> es[l]] /\ j - 1 \in Nat /\ j - 1 < n
      BY <1>2, <1>3, SMT DEF Front
    <3> HIDE DEF m
    <3>2. m \in Seq(Pair) /\ Len(m) = j - 1
      BY <3>1, <1>2, SMT
    <3> QED
      BY <3>1, <3>2
  <2>4. es[j].k \notin KeysOf(m)
    <3> SUFFICES ASSUME NEW l \in 1 .. j - 1, es[l].k = es[j].k
                 PROVE  FALSE
      BY <2>3 DEF KeysOf, Front
    <3>1. l \in 1 .. L /\ l # j
      BY <1>2, SMT
    <3> QED
      BY <3>1
  <2>5. es[j] \in Pair
    BY <1>2
  <2>6. \E u : Fresh(Next1(c, j), n, u, Append(m, es[j]))
    <3> HIDE DEF m
    <3>1. Fresh(c, n, t, m)
      BY <2>2 DEF m
    <3> QED
      BY <3>1, <2>3, <2>4, <2>5, FreshPut
  <2>7. Append(m, es[j]) = Front(es, j)
    BY FrontIs
  <2>8. PICK u : Fresh(Next1(c, j), n, u, Front(es, j))
    BY <2>6, <2>7
  <2>9. Next1(c, j) \in Tables(n)
    BY <2>8 DEF Fresh, Rep
  <2> QED
    BY <2>8, <2>9, <1>3
<1>6. \A j \in 0 .. L : S[j] \subseteq Tables(n)
  OBVIOUS
<1> HIDE DEF S, Next1, L
<1>7. \E f : Solves(f)
  <2>1. \A j \in 1 .. L : \A c \in S[j - 1] : g[<<j, c>>] = Next1(c, j)
    <3> SUFFICES ASSUME NEW j \in 1 .. L, NEW c, c \in S[j - 1]
                 PROVE  g[<<j, c>>] = Next1(c, j)
      OBVIOUS
    <3>1. c \in Tables(n)
      BY <1>3, <1>6
    <3> QED
      BY <3>1
  <2> HIDE DEF g
  <2>2. \A j \in 1 .. L : \A c \in S[j - 1] : g[<<j, c>>] \in S[j]
    BY <2>1, <1>5
  <2>3. PICK f : IsLoop(f, L, EmptyTable(n), g) /\ \A j \in 0 .. L : f[j] \in S[j]
    BY <1>2, <1>4, <2>2, LoopRuns
  <2>4. f = [j \in 0 .. L |-> IF j = 0 THEN EmptyTable(n) ELSE g[<<j, f[j - 1]>>]]
    BY <2>3 DEF IsLoop
  <2>5. \A j \in 0 .. L : j # 0 => g[<<j, f[j - 1]>>] = Next1(f[j - 1], j)
    BY <2>1, <2>3, <1>3
  <2>6. \A j \in 0 .. L : (IF j = 0 THEN EmptyTable(n) ELSE g[<<j, f[j - 1]>>])
                            = IF j = 0 THEN EmptyTable(n) ELSE Next1(f[j - 1], j)
    BY <2>5
  <2>7. Solves(f)
    BY <2>4, <2>6
  <2> QED
    BY <2>7
<1>8. Solves(after)
  BY <1>7 DEF after
<1>9. after[0] = EmptyTable(n) /\ \A j \in 1 .. L : after[j] = Next1(after[j - 1], j)
  BY <1>3, <1>8
<1>10. \A j \in 0 .. L : after[j] \in S[j]
  <2>1. after[0] \in S[0] /\ \A j \in 1 .. L : after[j - 1] \in S[j - 1] => after[j] \in S[j]
    BY <1>4, <1>5, <1>9
  <2>2. L \in Nat
    BY <1>2
  <2> QED
    BY <2>1, <2>2, LoopInvariant
<1>11. PICK t : Fresh(e, n, t, es)
  <2>1. Good(e, L)
    BY <1>3, <1>10 DEF S
  <2> QED
    BY <2>1, <1>2
<1> DEFINE w == [e EXCEPT !.count = d.count]
<1>12. /\ Rep(e, n, t) /\ Along(e, t) = es /\ Graves(e) = {} /\ e.tombs = 0 /\ e \in Tables(n)
  BY <1>11 DEF Fresh, Rep
<1> HIDE DEF e
<1>13. w = [e EXCEPT !.count = d.count, !.tombs = 0]
  BY <1>12 DEF Tables
<1> HIDE DEF w
<1>14. Rep(w, n, t) /\ Along(w, t) = es /\ w.count = d.count /\ w.tombs = 0 /\ Graves(w) = {}
  <2>1. 0 \in Int
    BY SMT
  <2>2. Rep(w, n, t) /\ Along(w, t) = Along(e, t) /\ w.count = d.count /\ w.tombs = 0 /\ Graves(w) = Graves(e)
    <3>1. IsRecounted(e, w, n, t, d.count, 0)
      BY <2>1, <1>12, <1>13, RecountIs
    <3> QED
      BY <3>1 DEF IsRecounted
  <2> QED
    BY <2>2, <1>12
<1>15. Fresh(w, n, t, es)
  BY <1>14 DEF Fresh
<1> QED
  BY <1>1, <1>14, <1>15 DEF w

\* A table that is replaced by one of twice the size keeps its entries and their order.
LEMMA RehashIs ==
  ASSUME NEW n, NEW d, NEW s, NEW m, Holds(d, n, s, m)
  PROVE  \E t : Holds(Rehash(d, 2 * n), 2 * n, t, m) /\ Rehash(d, 2 * n).tombs = 0
<1> DEFINE e == Rehash(d, 2 * n)
<1> n \in Nat /\ d.count \in Nat /\ d.count = Len(m) /\ d.count < n /\ IsAlong(d, s, m) /\ n >= 4
  BY HoldsFacts DEF Holds
<1>2. IsWalked(d, s, m)
  BY SlotsAre
<1>3. e = Table(d, m, 2 * n)
  BY <1>2 DEF IsWalked, Rehash
<1>4. m \in Seq(Pair) /\ \A j, l \in 1 .. Len(m) : m[j].k = m[l].k => j = l
  BY DEF IsAlong
<1>5. 2 * n \in Nat /\ 2 * n >= 4 /\ d.count \in Int /\ Len(m) < 2 * n /\ 4 * (d.count + 0) < (3 * (2 * n)) + 4
  BY SMT
<1>6. PICK t : Fresh(Table(d, m, 2 * n), 2 * n, t, m) /\ Table(d, m, 2 * n).count = d.count
  BY <1>4, <1>5, TableIs
<1>7. Fresh(e, 2 * n, t, m) /\ e.count = d.count
  BY <1>3, <1>6
<1> HIDE DEF e
<1> Rep(e, 2 * n, t) /\ Along(e, t) = m /\ Graves(e) = {} /\ e.tombs = 0
  BY <1>7 DEF Fresh
<1>9. Len(m) = Len(t)
  <2>1. IsAlong(e, t, m)
    BY AlongIs
  <2> QED
    BY <2>1 DEF IsAlong
<1>10. Cardinality(Graves(e)) = 0
  BY FS_EmptySet
<1>11. Holds(e, 2 * n, t, m)
  BY <1>5, <1>7, <1>9, <1>10 DEF Holds
<1> QED
  BY <1>11 DEF e

-----------------------------------------------------------------------------
(* put *)

\* The table and the counters before robinhood.
Added(d, i, k, v) ==
  [Place(d, i, k, v) EXCEPT !.count = @ + 1, !.tombs = IF d.items[i].k = Tombstone THEN @ - 1 ELSE @]

IsCounted(d, w, n, s, m, i, x) ==
  /\ Holds(w, n, Append(s, i), Append(m, x)) /\ Full(w) = Full(d) \cup {i} /\ i \in Full(w)
  /\ \A l \in 0 .. Away(w, i) : Spot(n, w.items[i].h, l) \in Full(w)

\* A new entry goes to the end of the list, in its vacant slot; the counters follow.
LEMMA AddedIs ==
  ASSUME NEW n, NEW d, NEW s, NEW m, Holds(d, n, s, m), 4 * (d.count + d.tombs) < 3 * n,
         NEW k \in Keys, NEW v \in Val, NEW i, Vacant(d, n, k, i), k \notin KeysOf(m)
  PROVE  IsCounted(d, Added(d, i, k, v), n, s, m, i, [k |-> k, v |-> v])
<1> DEFINE c == Place(d, i, k, v)
           w == Added(d, i, k, v)
           b == IF d.items[i].k = Tombstone THEN d.tombs - 1 ELSE d.tombs
           t == Append(s, i)
<1> /\ Rep(d, n, s) /\ n \in Nat /\ n > 0 /\ d \in Tables(n) /\ IsAlong(d, s, m)
    /\ d.count \in Nat /\ d.tombs \in Nat /\ Along(d, s) = m
  BY HoldsFacts DEF Holds
<1>2. \A x \in Full(d) : d.items[x].k # k
  BY DEF IsAlong
<1>3. IsAdded(d, c, n, s, i, k, v)
  BY <1>2, PlaceRep
<1> HIDE DEF c
<1> /\ Rep(c, n, t) /\ Along(c, t) = Append(Along(d, s), [k |-> k, v |-> v])
    /\ Full(c) = Full(d) \cup {i} /\ Graves(c) = Graves(d) \ {i}
    /\ c.count = d.count /\ c.tombs = d.tombs /\ i \in Full(c) /\ c.items[i].h = Hash[k]
    /\ \A l \in 0 .. Away(c, i) : Spot(n, Hash[k], l) \in Full(c)
  BY <1>3 DEF IsAdded
<1>5. c \in Tables(n)
  BY DEF Rep
<1>6. b \in Int /\ d.count + 1 \in Int
  BY SMT
<1>7. w = [c EXCEPT !.count = d.count + 1, !.tombs = b]
  BY <1>5, SMT DEF Added, Tables, c
<1> HIDE DEF w, b
<1>8. IsRecounted(c, w, n, t, d.count + 1, b)
  BY <1>6, <1>7, RecountIs
<1> /\ Rep(w, n, t) /\ Along(w, t) = Along(c, t) /\ w.count = d.count + 1 /\ w.tombs = b
    /\ Full(w) = Full(c) /\ Graves(w) = Graves(c) /\ w.items = c.items
  BY <1>8 DEF IsRecounted
<1>10. Len(t) = Len(s) + 1 /\ Len(s) = d.count
  <2>1. ListOf(d, n, s) /\ Len(s) = d.count
    BY DEF Rep, Holds
  <2>2. s \in Seq(Spots(n)) /\ i \in Spots(n)
    BY <2>1 DEF ListOf, Vacant
  <2> QED
    BY <2>1, <2>2, SMT
<1>11. b = Cardinality(Graves(w))
  <2>1. IsFiniteSet(Graves(d)) /\ d.tombs = Cardinality(Graves(d))
    <3>1. IsCount(d, n, s)
      BY CountIs
    <3> QED
      BY <3>1 DEF IsCount, Holds
  <2>2. Cardinality(Graves(d) \ {i}) =
          IF i \in Graves(d) THEN Cardinality(Graves(d)) - 1 ELSE Cardinality(Graves(d))
    BY <2>1, FS_RemoveElement
  <2>3. i \in Graves(d) <=> d.items[i].k = Tombstone
    <3>1. i \in Spots(n)
      BY DEF Vacant
    <3> QED
      BY <3>1, FullFacts
  <2> QED
    BY <2>1, <2>2, <2>3 DEF b
<1>12. 4 * (w.count + w.tombs) < (3 * n) + 4
  <2>1. b <= d.tombs /\ b \in Int
    BY SMT DEF b
  <2> QED
    BY <2>1, SMT
<1>13. Holds(w, n, t, Append(m, [k |-> k, v |-> v]))
  <2>1. n >= 4
    BY DEF Holds
  <2>2. Along(w, t) = Append(m, [k |-> k, v |-> v])
    OBVIOUS
  <2>3. w.count = Len(t)
    BY <1>10
  <2> QED
    BY <2>1, <2>2, <2>3, <1>11, <1>12 DEF Holds
<1>14. Away(w, i) = Away(c, i) /\ w.items[i].h = Hash[k]
  BY DEF Away, Size
<1>15. Full(w) = Full(d) \cup {i} /\ i \in Full(w) /\ \A l \in 0 .. Away(w, i) : Spot(n, w.items[i].h, l) \in Full(w)
  BY <1>14
<1> QED
  BY <1>13, <1>15 DEF w, IsCounted

\* put on a table that need not be replaced.
IsHere(d, e, n, i, m, x) == \E t : Holds(e, n, t, Append(m, x)) /\ Full(e) = Full(d) \cup {i}

\* put without a rehash: the new entry comes last, and robin-hood moves no other in the list.
LEMMA PutHere ==
  ASSUME NEW n, NEW d, NEW s, NEW m, Holds(d, n, s, m), 4 * (d.count + d.tombs) < 3 * n,
         NEW k \in Keys, NEW v \in Val, NEW i, Vacant(d, n, k, i), k \notin KeysOf(m)
  PROVE  IsHere(d, RobinHood(Added(d, i, k, v), i), n, i, m, [k |-> k, v |-> v])
<1> DEFINE w == Added(d, i, k, v)
           u == Append(s, i)
           M == Append(m, [k |-> k, v |-> v])
           e == RobinHood(w, i)
<1> /\ Holds(w, n, u, M) /\ Full(w) = Full(d) \cup {i} /\ i \in Full(w)
    /\ \A l \in 0 .. Away(w, i) : Spot(n, w.items[i].h, l) \in Full(w)
  <2>1. IsCounted(d, w, n, s, m, i, [k |-> k, v |-> v])
    BY AddedIs
  <2> QED
    BY <2>1 DEF IsCounted
<1> HIDE DEF w, u, M
<1>2. Rep(w, n, u) /\ Free(w) # {}
  BY HoldsFacts DEF Holds
<1>3. PICK t : Rep(e, n, t) /\ Alike(w, u, e, t)
  BY <1>2, RobinHoodIs
<1> HIDE DEF e
<1>4. Holds(e, n, t, M) /\ Full(e) = Full(w)
  BY <1>3 DEF Holds, Alike
<1> QED
  BY <1>4 DEF e, w, M, IsHere

\* What put makes of a table that exists.
IsPut(d, e, n, k, v, i, m) ==
  IF ShouldRehash(d) THEN \E t : Holds(e, 2 * n, t, Append(m, [k |-> k, v |-> v]))
  ELSE IsHere(d, e, n, i, m, [k |-> k, v |-> v])

\* put, with a rehash or without one: the new entry comes last.
LEMMA PutIs ==
  ASSUME NEW n, NEW d, NEW s, NEW m, Holds(d, n, s, m), NEW k \in Keys, NEW v \in Val,
         NEW i, Vacant(d, n, k, i), k \notin KeysOf(m)
  PROVE  IsPut(d, Put(d, i, k, v), n, k, v, i, m)
<1>1. n \in Nat /\ n > 0 /\ d \in Tables(n) /\ d.count \in Nat /\ d.tombs \in Nat
  BY HoldsFacts
<1>2. Size(d) = n /\ n # 0 /\ Ensure(d) = d
  <2>1. Size(d) = n
    BY <1>1, TableFacts
  <2>2. n # 0
    BY <1>1, SMT
  <2> QED
    BY <2>1, <2>2 DEF Ensure
<1>3. CASE ~ ShouldRehash(d)
  <2>1. Grown(d) = d /\ Put(d, i, k, v) = RobinHood(Added(d, i, k, v), i)
    BY <1>2, <1>3 DEF Put, Grown, Added
  <2>2. 4 * (d.count + d.tombs) < 3 * n
    BY <1>1, <1>2, <1>3, SMT DEF ShouldRehash
  <2> QED
    <3>1. IsHere(d, RobinHood(Added(d, i, k, v), i), n, i, m, [k |-> k, v |-> v])
      BY <2>2, PutHere
    <3> QED
      BY <1>3, <2>1, <3>1 DEF IsPut
<1>4. CASE ShouldRehash(d)
  <2> DEFINE c == Rehash(d, 2 * n)
             j == FindSpot(c, k)
  <2>1. Grown(d) = c /\ Put(d, i, k, v) = RobinHood(Added(c, j, k, v), j)
    BY <1>2, <1>4 DEF Put, Grown, Added
  <2>2. PICK t : Holds(c, 2 * n, t, m) /\ c.tombs = 0
    BY RehashIs
  <2> HIDE DEF c
  <2>3. 2 * n \in Nat /\ 2 * n > 0 /\ c \in Tables(2 * n) /\ Sound(c, 2 * n) /\ Free(c) # {} /\ IsAlong(c, t, m) /\ c.count \in Nat
    BY <2>2, HoldsFacts
  <2>4. \A x \in Full(c) : c.items[x].k # k
    BY <2>3 DEF IsAlong
  <2>5. Vacant(c, 2 * n, k, j)
    BY <2>3, <2>4, FindSpotIs
  <2>6. 4 * (c.count + c.tombs) < 3 * (2 * n)
    <3>1. c.count = d.count /\ d.count < n
      <4>1. d.count = Len(m) /\ d.count < n
        BY HoldsFacts
      <4>2. c.count = Len(m)
        BY <2>2, HoldsFacts
      <4> QED
        BY <4>1, <4>2
    <3> QED
      BY <3>1, <2>2, <1>1, SMT
  <2> HIDE DEF j
  <2>7. \E u : Holds(RobinHood(Added(c, j, k, v), j), 2 * n, u, Append(m, [k |-> k, v |-> v]))
    <3>1. IsHere(c, RobinHood(Added(c, j, k, v), j), 2 * n, j, m, [k |-> k, v |-> v])
      BY <2>2, <2>5, <2>6, PutHere
    <3> QED
      BY <3>1 DEF IsHere
  <2> QED
    BY <1>4, <2>1, <2>7 DEF IsPut
<1> QED
  BY <1>3, <1>4

-----------------------------------------------------------------------------
(* The ordered map *)

\* Induction up to n.
LEMMA Induct ==
  ASSUME NEW n \in Nat, NEW T, 0 \in T, \A i \in 1 .. n : i - 1 \in T => i \in T
  PROVE  \A i \in 0 .. n : i \in T
<1> DEFINE f == [i \in 0 .. n |-> i]
           S == [i \in 0 .. n |-> T]
<1>1. /\ 0 \in 0 .. n /\ \A i \in 1 .. n : i \in 0 .. n /\ i - 1 \in 0 .. n
  BY SMT
<1> \A i \in 0 .. n : f[i] = i /\ S[i] = T
  OBVIOUS
<1> HIDE DEF f, S
<1>3. f[0] \in S[0]
  <2>1. f[0] = 0 /\ S[0] = T
    BY <1>1
  <2> QED
    BY <2>1
<1>4. \A i \in 1 .. n : f[i - 1] \in S[i - 1] => f[i] \in S[i]
  <2> SUFFICES ASSUME NEW i \in 1 .. n, f[i - 1] \in S[i - 1]
               PROVE  f[i] \in S[i]
    OBVIOUS
  <2>1. f[i - 1] = i - 1 /\ S[i - 1] = T /\ f[i] = i /\ S[i] = T
    BY <1>1
  <2> QED
    BY <2>1
<1>5. \A i \in 0 .. n : f[i] \in S[i]
  BY <1>3, <1>4, LoopInvariant
<1> QED
  BY <1>5

\* The loop of Except.
KeepOr(K, t, x) == IF x.k \in K THEN t ELSE Append(t, x)
Kept(m, K, f) == f = [i \in 0 .. Len(m) |-> IF i = 0 THEN <<>> ELSE KeepOr(K, f[i - 1], m[i])]

\* Except is the end of its loop.
LEMMA ExceptIs ==
  ASSUME NEW m, NEW K
  PROVE  Except(m, K) = (CHOOSE f : Kept(m, K, f))[Len(m)]
BY SMT DEF Except, Kept, KeepOr

\* The loop of Except has its states.
LEMMA KeptExists ==
  ASSUME NEW m \in Seq(Pair), NEW K
  PROVE  \E f : Kept(m, K, f) /\ \A i \in 0 .. Len(m) : f[i] \in Seq(Pair)
<1> DEFINE U == Seq(Pair)
           S == [i \in 0 .. Len(m) |-> U]
           g == [p \in (1 .. Len(m)) \X U |-> KeepOr(K, p[2], m[p[1]])]
<1>1. PICK L \in Nat : L = Len(m) /\ \A i \in 1 .. L : m[i] \in Pair
  BY SMT
<1>2. /\ 0 \in 0 .. L /\ (\A i \in 0 .. L : i # 0 => i \in 1 .. L)
      /\ \A i \in 1 .. L : i \in 0 .. L /\ i - 1 \in 0 .. L /\ i # 0
  BY <1>1, SMT
<1>3. \A i \in 0 .. L : S[i] = U
  BY <1>1
<1>4. <<>> \in S[0]
  <2>1. <<>> \in U
    BY SMT
  <2> QED
    BY <2>1, <1>2, <1>3
<1>5. \A i \in 1 .. L : \A t \in U : g[<<i, t>>] = KeepOr(K, t, m[i]) /\ KeepOr(K, t, m[i]) \in U
  <2> SUFFICES ASSUME NEW i \in 1 .. L, NEW t \in U
               PROVE  g[<<i, t>>] = KeepOr(K, t, m[i]) /\ KeepOr(K, t, m[i]) \in U
    OBVIOUS
  <2>1. g[<<i, t>>] = KeepOr(K, t, m[i])
    BY <1>1
  <2>2. m[i] \in Pair
    BY <1>1
  <2>3. Append(t, m[i]) \in U
    BY <2>2, SMT
  <2> QED
    BY <2>1, <2>3 DEF KeepOr
<1> HIDE DEF g, S, U
<1>6. \A i \in 1 .. L : \A t \in S[i - 1] : g[<<i, t>>] \in S[i]
  BY <1>2, <1>3, <1>5
<1>7. PICK f : IsLoop(f, L, <<>>, g) /\ \A i \in 0 .. L : f[i] \in S[i]
  BY <1>4, <1>6, LoopRuns
<1>8. f = [i \in 0 .. L |-> IF i = 0 THEN <<>> ELSE g[<<i, f[i - 1]>>]]
  BY <1>7 DEF IsLoop
<1>9. \A i \in 0 .. L : f[i] \in U
  BY <1>3, <1>7
<1>10. \A i \in 0 .. L : (IF i = 0 THEN <<>> ELSE g[<<i, f[i - 1]>>]) = IF i = 0 THEN <<>> ELSE KeepOr(K, f[i - 1], m[i])
  BY <1>2, <1>5, <1>9
<1>11. f = [i \in 0 .. L |-> IF i = 0 THEN <<>> ELSE KeepOr(K, f[i - 1], m[i])]
  BY <1>8, <1>10
<1> QED
  BY <1>1, <1>9, <1>11 DEF Kept, U

\* The loop on the first i entries is the beginning of the loop.
LEMMA KeptAgree ==
  ASSUME NEW m \in Seq(Pair), NEW K, NEW i \in 0 .. Len(m), NEW f, Kept(m, K, f),
         NEW h, Kept(Front(m, i), K, h)
  PROVE  h[i] = f[i]
<1> PICK L \in Nat : L = Len(m)
  BY SMT
<1> i \in Nat /\ i \in 0 .. i /\ 0 \in 0 .. i /\ \A j \in 0 .. i : j \in 0 .. L
  BY SMT
<1> \A j \in 1 .. i : j \in 0 .. i /\ j \in 0 .. L /\ j - 1 \in 0 .. i /\ j # 0
  BY SMT
<1>4. Len(Front(m, i)) = i /\ \A j \in 1 .. i : Front(m, i)[j] = m[j]
  <2>1. Front(m, i) = [j \in 1 .. i |-> m[j]] /\ \A j \in 1 .. i : m[j] \in Pair
    BY SMT DEF Front
  <2>2. Front(m, i) \in Seq(Pair) /\ Len(Front(m, i)) = i
    BY <2>1, SMT
  <2> QED
    BY <2>1, <2>2
<1>5. f[0] = <<>> /\ \A j \in 1 .. i : f[j] = KeepOr(K, f[j - 1], m[j])
  <2>1. f = [j \in 0 .. L |-> IF j = 0 THEN <<>> ELSE KeepOr(K, f[j - 1], m[j])]
    BY DEF Kept
  <2> QED
    BY <2>1
<1>6. h[0] = <<>> /\ \A j \in 1 .. i : h[j] = KeepOr(K, h[j - 1], m[j])
  <2>1. h = [j \in 0 .. i |-> IF j = 0 THEN <<>> ELSE KeepOr(K, h[j - 1], Front(m, i)[j])]
    BY <1>4 DEF Kept
  <2> QED
    BY <2>1, <1>4
<1> DEFINE T == {j \in 0 .. i : h[j] = f[j]}
<1>7. 0 \in T
  BY <1>5, <1>6
<1>8. \A j \in 1 .. i : j - 1 \in T => j \in T
  <2> SUFFICES ASSUME NEW j \in 1 .. i, j - 1 \in T
               PROVE  j \in T
    OBVIOUS
  <2>1. h[j - 1] = f[j - 1]
    OBVIOUS
  <2>2. h[j] = f[j]
    BY <2>1, <1>5, <1>6
  <2> QED
    BY <2>2
<1> HIDE DEF T
<1>9. \A j \in 0 .. i : j \in T
  BY <1>7, <1>8, Induct
<1> QED
  BY <1>9 DEF T

\* Except one entry at a time.
ExceptRuns(m, K) ==
  /\ Except(Front(m, 0), K) = <<>> /\ Except(Front(m, Len(m)), K) = Except(m, K)
  /\ \A i \in 0 .. Len(m) : Except(Front(m, i), K) \in Seq(Pair)
  /\ \A i \in 1 .. Len(m) : Except(Front(m, i), K) = KeepOr(K, Except(Front(m, i - 1), K), m[i])

\* Except of one entry more.
LEMMA ExceptSteps ==
  ASSUME NEW m \in Seq(Pair), NEW K
  PROVE  ExceptRuns(m, K)
<1>1. PICK L \in Nat : L = Len(m) /\ Front(m, L) = m
  BY SMT DEF Front
<1>2. PICK f : Kept(m, K, f) /\ \A i \in 0 .. L : f[i] \in Seq(Pair)
  BY <1>1, KeptExists
<1>3. \A i \in 0 .. L : Except(Front(m, i), K) = f[i]
  <2> SUFFICES ASSUME NEW i \in 0 .. L
               PROVE  Except(Front(m, i), K) = f[i]
    OBVIOUS
  <2>1. Front(m, i) \in Seq(Pair) /\ Len(Front(m, i)) = i
    <3>1. Front(m, i) = [j \in 1 .. i |-> m[j]] /\ i \in Nat /\ \A j \in 1 .. i : m[j] \in Pair
      BY <1>1, SMT DEF Front
    <3> QED
      BY <3>1, SMT
  <2> DEFINE h == CHOOSE w : Kept(Front(m, i), K, w)
  <2>2. \E w : Kept(Front(m, i), K, w)
    BY <2>1, KeptExists
  <2>3. Kept(Front(m, i), K, h)
    BY <2>2
  <2>4. Except(Front(m, i), K) = h[i]
    BY <2>1, ExceptIs
  <2> HIDE DEF h
  <2>5. h[i] = f[i]
    <3>1. i \in 0 .. Len(m)
      BY <1>1
    <3>2. Kept(m, K, f)
      BY <1>2
    <3> HIDE <1>2
    <3> QED
      BY <2>3, <3>1, <3>2, KeptAgree, SMT
  <2> QED
    BY <2>4, <2>5
<1>4. /\ 0 \in 0 .. L /\ L \in 0 .. L
      /\ \A i \in 1 .. L : i \in 0 .. L /\ i - 1 \in 0 .. L /\ i # 0
  BY <1>1, SMT
<1>5. f[0] = <<>> /\ \A j \in 1 .. L : f[j] = KeepOr(K, f[j - 1], m[j])
  <2>1. f = [j \in 0 .. L |-> IF j = 0 THEN <<>> ELSE KeepOr(K, f[j - 1], m[j])]
    BY <1>1, <1>2 DEF Kept
  <2> QED
    BY <2>1, <1>4
<1>6. \A i \in 1 .. L : Except(Front(m, i), K) = KeepOr(K, Except(Front(m, i - 1), K), m[i])
  BY <1>3, <1>4, <1>5
<1>7. \A i \in 0 .. L : Except(Front(m, i), K) \in Seq(Pair)
  BY <1>2, <1>3
<1> QED
  BY <1>1, <1>3, <1>4, <1>5, <1>6, <1>7 DEF ExceptRuns

\* Except and a further entry.
LEMMA ExceptAppend ==
  ASSUME NEW t \in Seq(Pair), NEW x \in Pair, NEW K
  PROVE  Except(Append(t, x), K) = KeepOr(K, Except(t, K), x)
<1> DEFINE w == Append(t, x)
<1> PICK L \in Nat : L = Len(t) /\ t = Front(t, L)
  BY SMT DEF Front
<1> /\ w = [l \in 1 .. L + 1 |-> IF l = L + 1 THEN x ELSE t[l]]
    /\ w \in Seq(Pair) /\ Len(w) = L + 1
  BY AppendValue, SMT
<1> HIDE DEF w
<1> /\ L + 1 \in 1 .. L + 1 /\ (L + 1) - 1 = L
    /\ \A l \in 1 .. L : l \in 1 .. L + 1 /\ l # L + 1
  BY SMT
<1>4. w[L + 1] = x /\ Front(w, L) = t
  <2>1. w[L + 1] = x /\ \A l \in 1 .. L : w[l] = t[l]
    OBVIOUS
  <2>2. Front(w, L) = Front(t, L)
    BY <2>1 DEF Front
  <2> QED
    BY <2>1, <2>2
<1>5. ExceptRuns(w, K)
  BY ExceptSteps
<1>6. /\ Except(Front(w, L + 1), K) = Except(w, K)
      /\ Except(Front(w, L + 1), K) = KeepOr(K, Except(Front(w, (L + 1) - 1), K), w[L + 1])
  BY <1>5 DEF ExceptRuns
<1> QED
  BY <1>4, <1>6 DEF w

\* The beginnings of a sequence of entries.
Fronts(m, L) ==
  /\ L \in Nat /\ L = Len(m) /\ Front(m, L) = m /\ Front(m, 0) = <<>> /\ DOMAIN m = 1 .. L
  /\ \A i \in 0 .. L : Front(m, i) \in Seq(Pair)
  /\ \A i \in 1 .. L : /\ m[i] \in Pair /\ Append(Front(m, i - 1), m[i]) = Front(m, i)
                       /\ i - 1 \in 0 .. L /\ i \in 0 .. L /\ i # 0
  /\ 0 \in 0 .. L /\ L \in 0 .. L

\* The beginnings of a sequence of entries.
LEMMA FrontsAre ==
  ASSUME NEW m \in Seq(Pair)
  PROVE  Fronts(m, Len(m))
<1> PICK L \in Nat : L = Len(m) /\ Front(m, L) = m /\ DOMAIN m = 1 .. L
  BY SMT DEF Front
<1>2. Front(m, 0) = <<>>
  BY SMT DEF Front
<1>3. \A i \in 1 .. L : m[i] \in Pair /\ i - 1 \in 0 .. L /\ i \in 0 .. L /\ i # 0
  BY SMT
<1>4. \A i \in 1 .. L : Append(Front(m, i - 1), m[i]) = Front(m, i)
  BY FrontIs
<1>5. \A i \in 0 .. L : Front(m, i) \in Seq(Pair)
  <2> SUFFICES ASSUME NEW i \in 0 .. L
               PROVE  Front(m, i) \in Seq(Pair)
    OBVIOUS
  <2>1. Front(m, i) = [j \in 1 .. i |-> m[j]] /\ i \in Nat /\ \A j \in 1 .. i : m[j] \in Pair
    BY SMT DEF Front
  <2> QED
    BY <2>1, SMT
<1>6. 0 \in 0 .. L /\ L \in 0 .. L
  BY SMT
<1> QED
  BY <1>2, <1>3, <1>4, <1>5, <1>6 DEF Fronts

\* Except twice.
LEMMA ExceptTwice ==
  ASSUME NEW m \in Seq(Pair), NEW A, NEW B
  PROVE  Except(Except(m, A), B) = Except(m, A \cup B)
<1> DEFINE L == Len(m)
           E(i) == Except(Front(m, i), A)
           F(i) == Except(Front(m, i), A \cup B)
           T == {i \in 0 .. L : Except(E(i), B) = F(i)}
<1>1. Fronts(m, L)
  BY FrontsAre
<1> HIDE DEF L
<1>2. ExceptRuns(m, A) /\ ExceptRuns(m, A \cup B)
  BY ExceptSteps
<1> /\ E(0) = <<>> /\ E(L) = Except(m, A) /\ (\A i \in 0 .. L : E(i) \in Seq(Pair))
    /\ \A i \in 1 .. L : E(i) = KeepOr(A, E(i - 1), m[i])
  BY <1>2 DEF ExceptRuns, L
<1> /\ F(0) = <<>> /\ F(L) = Except(m, A \cup B)
    /\ \A i \in 1 .. L : F(i) = KeepOr(A \cup B, F(i - 1), m[i])
  BY <1>2 DEF ExceptRuns, L
<1>5. Except(<<>>, B) = <<>>
  <2>1. ExceptRuns(m, B) /\ Front(m, 0) = <<>>
    BY <1>1, ExceptSteps DEF Fronts
  <2> QED
    BY <2>1 DEF ExceptRuns
<1> /\ L \in Nat /\ 0 \in 0 .. L /\ L \in 0 .. L
    /\ \A i \in 1 .. L : m[i] \in Pair /\ i - 1 \in 0 .. L /\ i \in 0 .. L
  BY <1>1 DEF Fronts
<1> HIDE DEF E, F
<1>7. 0 \in T
  BY <1>5
<1>8. \A i \in 1 .. L : i - 1 \in T => i \in T
  <2> SUFFICES ASSUME NEW i \in 1 .. L, i - 1 \in T
               PROVE  Except(E(i), B) = F(i)
    OBVIOUS
  <2> Except(E(i - 1), B) = F(i - 1) /\ E(i - 1) \in Seq(Pair)
    OBVIOUS
  <2> E(i) = KeepOr(A, E(i - 1), m[i]) /\ F(i) = KeepOr(A \cup B, F(i - 1), m[i])
    OBVIOUS
  <2>3. Except(Append(E(i - 1), m[i]), B) = KeepOr(B, Except(E(i - 1), B), m[i])
    BY ExceptAppend
  <2>4. CASE m[i].k \in A
    <3>1. E(i) = E(i - 1) /\ F(i) = F(i - 1)
      BY <2>4 DEF KeepOr
    <3> QED
      BY <3>1
  <2> CASE m[i].k \notin A
    <3>1. E(i) = Append(E(i - 1), m[i])
      BY DEF KeepOr
    <3>2. F(i) = KeepOr(B, F(i - 1), m[i])
      BY DEF KeepOr
    <3> QED
      BY <3>1, <3>2, <2>3
  <2> QED
    BY <2>4
<1> HIDE DEF T
<1>9. \A i \in 0 .. L : i \in T
  BY <1>7, <1>8, Induct
<1>10. Except(E(L), B) = F(L)
  BY <1>9 DEF T
<1> QED
  BY <1>10

\* Except keys that are not there.
LEMMA ExceptAbsent ==
  ASSUME NEW m \in Seq(Pair), NEW K, \A k \in K : k \notin KeysOf(m)
  PROVE  Except(m, K) = m
<1> DEFINE L == Len(m)
           E(i) == Except(Front(m, i), K)
           T == {i \in 0 .. L : E(i) = Front(m, i)}
<1>1. Fronts(m, L)
  BY FrontsAre
<1>2. ExceptRuns(m, K)
  BY ExceptSteps
<1> HIDE DEF L
<1> /\ E(0) = <<>> /\ E(L) = Except(m, K) /\ \A i \in 1 .. L : E(i) = KeepOr(K, E(i - 1), m[i])
  BY <1>2 DEF ExceptRuns, L
<1> /\ L \in Nat /\ 0 \in 0 .. L /\ L \in 0 .. L /\ Front(m, 0) = <<>> /\ Front(m, L) = m
    /\ \A i \in 1 .. L : i - 1 \in 0 .. L /\ i \in 0 .. L /\ Append(Front(m, i - 1), m[i]) = Front(m, i)
  BY <1>1 DEF Fronts
<1>5. \A i \in 1 .. L : m[i].k \notin K
  <2>1. DOMAIN m = 1 .. L
    BY <1>1 DEF Fronts
  <2> QED
    BY <2>1 DEF KeysOf
<1> HIDE DEF E
<1>6. 0 \in T
  OBVIOUS
<1>7. \A i \in 1 .. L : i - 1 \in T => i \in T
  <2> SUFFICES ASSUME NEW i \in 1 .. L, i - 1 \in T
               PROVE  E(i) = Front(m, i)
    OBVIOUS
  <2>1. E(i - 1) = Front(m, i - 1)
    OBVIOUS
  <2>2. E(i) = Append(E(i - 1), m[i])
    BY <1>5 DEF KeepOr
  <2> QED
    BY <2>1, <2>2
<1> HIDE DEF T
<1>8. \A i \in 0 .. L : i \in T
  BY <1>6, <1>7, Induct
<1>9. E(L) = Front(m, L)
  BY <1>8 DEF T
<1> QED
  BY <1>9

\* The first i entries without entry j.
Cut(m, i, j) == [l \in 1 .. i - 1 |-> m[Was(j, l)]]

\* The beginnings of a sequence of entries without one.
LEMMA CutIs ==
  ASSUME NEW m \in Seq(Pair), NEW j \in 1 .. Len(m)
  PROVE  /\ Cut(m, j, j) = Front(m, j - 1) /\ Cut(m, Len(m), j) = Without(m, j)
         /\ \A i \in 1 .. Len(m) : j < i => Append(Cut(m, i - 1, j), m[i]) = Cut(m, i, j)
<1> PICK L \in Nat : L = Len(m) /\ \A l \in 1 .. L : m[l] \in Pair
  BY SMT
<1>2. Cut(m, j, j) = Front(m, j - 1)
  <2>1. \A l \in 1 .. j - 1 : Was(j, l) = l
    BY SMT DEF Was
  <2> QED
    BY <2>1 DEF Cut, Front
<1>3. Cut(m, L, j) = Without(m, j)
  <2>1. \A l \in 1 .. L - 1 : m[Was(j, l)] = IF l < j THEN m[l] ELSE m[l + 1]
    BY DEF Was
  <2> QED
    BY <2>1 DEF Cut, Without
<1>4. ASSUME NEW i \in 1 .. L, j < i
      PROVE  Append(Cut(m, i - 1, j), m[i]) = Cut(m, i, j)
  <2> DEFINE A == Cut(m, i - 1, j)
             M == i - 2
  <2> /\ M \in Nat /\ (i - 1) - 1 = M /\ i - 1 = M + 1 /\ Was(j, M + 1) = i
      /\ \A l \in 1 .. M : Was(j, l) \in 1 .. L
      /\ \A l \in 1 .. M + 1 : l # M + 1 => l \in 1 .. M
    BY <1>4, SMT DEF Was
  <2> HIDE DEF M
  <2>2. A = [l \in 1 .. M |-> m[Was(j, l)]]
    BY DEF Cut
  <2> HIDE DEF A
  <2>3. A \in Seq(Pair) /\ Len(A) = M
    BY <2>2, SMT
  <2>4. Append(A, m[i]) = [l \in 1 .. Len(A) + 1 |-> IF l = Len(A) + 1 THEN m[i] ELSE A[l]]
    <3>1. m[i] \in Pair
      OBVIOUS
    <3> QED
      BY <3>1, <2>3, AppendValue, SMT
  <2>5. Append(A, m[i]) = [l \in 1 .. M + 1 |-> IF l = M + 1 THEN m[i] ELSE A[l]]
    BY <2>3, <2>4
  <2>6. \A l \in 1 .. M + 1 : (IF l = M + 1 THEN m[i] ELSE A[l]) = m[Was(j, l)]
    BY <2>2
  <2>7. Cut(m, i, j) = [l \in 1 .. M + 1 |-> m[Was(j, l)]]
    BY DEF Cut
  <2>8. Append(A, m[i]) = Cut(m, i, j)
    BY <2>5, <2>6, <2>7
  <2> QED
    BY <2>8 DEF A
<1> QED
  BY <1>2, <1>3, <1>4

\* Except a key that one entry has.
LEMMA ExceptOne ==
  ASSUME NEW m \in Seq(Pair), \A j, l \in 1 .. Len(m) : m[j].k = m[l].k => j = l, NEW j \in 1 .. Len(m)
  PROVE  Except(m, {m[j].k}) = Without(m, j)
<1> DEFINE L == Len(m)
           K == {m[j].k}
           E(i) == Except(Front(m, i), K)
           T == {i \in 0 .. L : E(i) = IF i < j THEN Front(m, i) ELSE Cut(m, i, j)}
<1>1. Fronts(m, L)
  BY FrontsAre
<1>2. ExceptRuns(m, K)
  BY ExceptSteps
<1> /\ Cut(m, j, j) = Front(m, j - 1) /\ Cut(m, L, j) = Without(m, j)
    /\ \A i \in 1 .. L : j < i => Append(Cut(m, i - 1, j), m[i]) = Cut(m, i, j)
  BY CutIs
<1> HIDE DEF L
<1> /\ E(0) = <<>> /\ E(L) = Except(m, K) /\ \A i \in 1 .. L : E(i) = KeepOr(K, E(i - 1), m[i])
  BY <1>2 DEF ExceptRuns, L
<1> /\ L \in Nat /\ 0 \in 0 .. L /\ L \in 0 .. L /\ Front(m, 0) = <<>> /\ Front(m, L) = m
    /\ \A i \in 1 .. L : i - 1 \in 0 .. L /\ i \in 0 .. L /\ Append(Front(m, i - 1), m[i]) = Front(m, i)
  BY <1>1 DEF Fronts
<1>6. j \in 1 .. L /\ \A i \in 1 .. L : m[i].k \in K <=> i = j
  BY DEF L
<1> /\ 0 < j /\ ~ (L < j)
    /\ \A i \in 1 .. L : /\ i < j => i - 1 < j /\ i # j
                         /\ i = j => i - 1 < j /\ ~ (i < j) /\ i - 1 = j - 1
                         /\ ~ (i < j) /\ i # j => ~ (i - 1 < j) /\ j < i
  BY <1>6, SMT
<1> HIDE DEF E, K
<1>8. 0 \in T
  OBVIOUS
<1>9. \A i \in 1 .. L : i - 1 \in T => i \in T
  <2> SUFFICES ASSUME NEW i \in 1 .. L, i - 1 \in T
               PROVE  E(i) = IF i < j THEN Front(m, i) ELSE Cut(m, i, j)
    OBVIOUS
  <2> E(i - 1) = IF i - 1 < j THEN Front(m, i - 1) ELSE Cut(m, i - 1, j)
    OBVIOUS
  <2> E(i) = IF i = j THEN E(i - 1) ELSE Append(E(i - 1), m[i])
    BY <1>6 DEF KeepOr
  <2> CASE i < j
    <3>1. E(i - 1) = Front(m, i - 1) /\ E(i) = Append(E(i - 1), m[i])
      OBVIOUS
    <3> QED
      BY <3>1
  <2> CASE i = j
    <3>1. E(i - 1) = Front(m, j - 1) /\ E(i) = E(i - 1) /\ ~ (i < j)
      OBVIOUS
    <3> QED
      BY <3>1
  <2> CASE ~ (i < j) /\ i # j
    <3>1. j < i /\ E(i - 1) = Cut(m, i - 1, j) /\ E(i) = Append(E(i - 1), m[i])
      OBVIOUS
    <3> QED
      BY <3>1
  <2> QED
    OBVIOUS
<1> HIDE DEF T
<1>10. \A i \in 0 .. L : i \in T
  BY <1>8, <1>9, Induct
<1>11. E(L) = Cut(m, L, j)
  BY <1>10 DEF T
<1> QED
  BY <1>11 DEF K

\* The keys of the first i entries.
LEMMA KeysFront ==
  ASSUME NEW m \in Seq(Pair)
  PROVE  /\ KeysOf(Front(m, 0)) = {} /\ KeysOf(Front(m, Len(m))) = KeysOf(m)
         /\ \A i \in 1 .. Len(m) : KeysOf(Front(m, i)) = KeysOf(Front(m, i - 1)) \cup {m[i].k}
<1>1. PICK L \in Nat : L = Len(m) /\ Front(m, L) = m
  BY SMT DEF Front
<1>2. \A i : \A k : k \in KeysOf(Front(m, i)) <=> \E l \in 1 .. i : m[l].k = k
  BY DEF KeysOf, Front
<1>3. KeysOf(Front(m, 0)) = {}
  <2>1. 1 .. 0 = {}
    BY SMT
  <2> QED
    BY <2>1, <1>2
<1>4. \A i \in 1 .. L : KeysOf(Front(m, i)) = KeysOf(Front(m, i - 1)) \cup {m[i].k}
  <2> SUFFICES ASSUME NEW i \in 1 .. L
               PROVE  KeysOf(Front(m, i)) = KeysOf(Front(m, i - 1)) \cup {m[i].k}
    OBVIOUS
  <2>1. \A l : l \in 1 .. i <=> l \in 1 .. i - 1 \/ l = i
    BY <1>1, SMT
  <2>2. \A k : k \in KeysOf(Front(m, i)) <=> k \in KeysOf(Front(m, i - 1)) \/ k = m[i].k
    BY <2>1, <1>2
  <2> QED
    BY <2>2
<1> QED
  BY <1>1, <1>3, <1>4

-----------------------------------------------------------------------------
(* A Dict and its entries *)

\* The powers of two, by counting the sets of the first numbers.
LEMMA TwoToThe ==
  ASSUME NEW p \in Nat
  PROVE  2^p \in Nat /\ 2^p # 0 /\ 2^(p + 1) = 2 * 2^p
<1> DEFINE A == SUBSET (1 .. p)
           B == {x \cup {p + 1} : x \in A}
           f == [x \in A |-> x \cup {p + 1}]
<1>1. IsFiniteSet(A) /\ Cardinality(A) = 2^p
  <2>1. IsFiniteSet(1 .. p) /\ Cardinality(1 .. p) = p
    BY FS_Interval, SMT
  <2> QED
    BY <2>1, FS_SUBSET
<1>2. Cardinality(SUBSET (1 .. p + 1)) = 2^(p + 1)
  <2>1. IsFiniteSet(1 .. p + 1) /\ Cardinality(1 .. p + 1) = p + 1
    BY FS_Interval, SMT
  <2> QED
    BY <2>1, FS_SUBSET
<1>3. IsFiniteSet(B) /\ Cardinality(B) = Cardinality(A)
  <2>1. p + 1 \notin 1 .. p
    BY SMT
  <2>2. ASSUME NEW x \in A, NEW y \in A, x \cup {p + 1} = y \cup {p + 1}
        PROVE  x = y
    <3>1. p + 1 \notin x /\ p + 1 \notin y
      BY <2>1
    <3> HIDE DEF A
    <3>2. x = (x \cup {p + 1}) \ {p + 1} /\ y = (y \cup {p + 1}) \ {p + 1}
      BY <3>1
    <3> QED
      BY <3>2, <2>2
  <2>3. f \in [A -> B] /\ (\A x \in A : f[x] = x \cup {p + 1}) /\ (\A y \in B : \E x \in A : f[x] = y)
    BY SMT
  <2> HIDE DEF A, B, f
  <2>4. ASSUME NEW x \in A, NEW y \in A, f[x] = f[y]
        PROVE  x = y
    <3>1. x \cup {p + 1} = y \cup {p + 1}
      BY <2>3, <2>4
    <3> QED
      BY <3>1, <2>2
  <2>5. f \in Bijection(A, B)
    BY <2>3, <2>4, SMT DEF Bijection, Injection, Surjection, IsInjective
  <2> QED
    BY <1>1, <2>5, FS_Bijection DEF ExistsBijection
<1>4. A \cap B = {}
  <2>1. p + 1 \notin 1 .. p
    BY SMT
  <2> QED
    BY <2>1
<1>5. SUBSET (1 .. p + 1) = A \cup B
  <2>1. 1 .. p + 1 = (1 .. p) \cup {p + 1}
    BY SMT
  <2>2. ASSUME NEW x \in SUBSET (1 .. p + 1)
        PROVE  x \in A \cup B
    <3>1. CASE p + 1 \in x
      <4>1. x \ {p + 1} \in A /\ x = (x \ {p + 1}) \cup {p + 1}
        BY <2>1, <3>1
      <4> QED
        BY <4>1
    <3>2. CASE p + 1 \notin x
      BY <2>1, <3>2
    <3> QED
      BY <3>1, <3>2
  <2>3. A \subseteq SUBSET (1 .. p + 1) /\ B \subseteq SUBSET (1 .. p + 1)
    BY <2>1
  <2> QED
    BY <2>2, <2>3
<1>6. Cardinality(A \cup B) = Cardinality(A) + Cardinality(B) - Cardinality(A \cap B)
  BY <1>1, <1>3, FS_Union
<1>7. Cardinality(A) \in Nat /\ Cardinality(A) # 0 /\ Cardinality(A \cap B) = 0
  <2>1. {} \in A
    OBVIOUS
  <2> HIDE DEF A, B
  <2> QED
    BY <2>1, <1>1, <1>4, FS_CardinalityType, FS_EmptySet
<1> HIDE DEF A, B
<1>8. 2^(p + 1) = Cardinality(A) + Cardinality(A) - 0
  BY <1>2, <1>3, <1>5, <1>6, <1>7
<1>9. \A c \in Nat : c + c - 0 = 2 * c
  BY SMT
<1> QED
  BY <1>1, <1>7, <1>8, <1>9

\* The sizes of its tables.
Sizes == {n \in Nat : \E p \in Nat : p <= n /\ n = INITIAL_SIZE * 2^p}

\* Sizes are at least four, and a table twice the size has one of them.
LEMMA SizesAre ==
  /\ INITIAL_SIZE \in Sizes
  /\ \A n \in Sizes : n \in Nat /\ n >= 4 /\ n > 0 /\ n # 0 /\ 2 * n \in Sizes /\ n < 2 * n
<1> DEFINE I == INITIAL_SIZE
<1> I \in Nat /\ I >= 4
  BY DictAssumption
<1> HIDE DEF I
<1>2. 0 \in Nat /\ 0 <= I /\ I = I * 2^0
  BY SMT
<1> ASSUME NEW n \in Nat, NEW p \in Nat, p <= n, n = I * 2^p
    PROVE  n >= 4 /\ n > 0 /\ n < 2 * n /\ 2 * n \in Nat /\ p + 1 \in Nat /\ p + 1 <= 2 * n /\ 2 * n = I * 2^(p + 1)
  <2> DEFINE t == 2^p
  <2> t \in Nat /\ t # 0 /\ 2^(p + 1) = 2 * t
    BY TwoToThe
  <2>2. n = I * t
    OBVIOUS
  <2> HIDE DEF t
  <2>3. n >= 4
    BY <2>2, SMT
  <2>4. 2 * n = I * (2 * t)
    BY <2>2, SMT
  <2>5. 2 * n = I * 2^(p + 1)
    BY <2>4
  <2> QED
    BY <2>3, <2>5, SMT
<1>4. \A n \in Nat : n > 0 => n # 0
  BY SMT
<1> QED
  BY <1>2, <1>4 DEF Sizes, I

\* A Dict that has the entries m: it has no table yet, or a table that holds them.
IsDict(d, m) == \/ d = EmptyTable(0) /\ m = <<>>
                \/ \E n \in Sizes : \E s : Holds(d, n, s, m)

\* A Dict without a table.
IsNew(d) ==
  /\ d \in Tables(0) /\ Size(d) = 0 /\ Full(d) = {} /\ Graves(d) = {} /\ Free(d) = {} /\ d.last = Null
  /\ d.count = 0 /\ d.tombs = 0 /\ DOMAIN d.items = {}
  /\ Slots(d) = <<>> /\ Backwards(d) = <<>> /\ Entries(d) = <<>>
  /\ \A k : ~ Has(d, k)

\* A Dict without a table has no entries, and finds none.
LEMMA NewIs == IsNew(EmptyTable(0))
<1> DEFINE d == EmptyTable(0)
<1>1. 0 .. 0 - 1 = {} /\ Spots(0) = {} /\ 0 \in Nat /\ 0 \in Int /\ Null \in Link0(0)
  BY SMT DEF Spots, Link0
<1>2. d.items = [i \in {} |-> Zero] /\ d.last = Null /\ d.count = 0 /\ d.tombs = 0
  BY <1>1, SMT DEF EmptyTable
<1>3. d \in Tables(0)
  BY <1>1, SMT DEF EmptyTable, Tables
<1> HIDE DEF d
<1>4. DOMAIN d.items = {} /\ Size(d) = 0
  BY <1>1, <1>3, TableFacts
<1>5. Full(d) = {} /\ Graves(d) = {} /\ Free(d) = {}
  BY <1>4 DEF Full, Graves, Free
<1>6. Slots(d) = <<>>
  BY <1>2 DEF Slots
<1>7. Entries(d) = <<>>
  BY <1>6, SMT DEF Entries
<1>8. Backwards(d) = <<>>
  <2>1. PICK r : r = <<>>
    BY SMT
  <2>2. PICK n \in Nat : n = 0
    BY SMT
  <2>3. PICK i : i = d.last
    BY SMT
  <2>4. r \in Seq(Spots(n)) /\ Len(r) <= n /\ Len(r) = 0 /\ 1 .. Len(r) = {} /\ d \in Tables(n)
    BY <2>1, <2>2, <1>3, SMT
  <2>5. i = Start(r)
    BY <2>3, <2>4, <1>2 DEF Start
  <2>6. \A j \in 1 .. Len(r) : d.items[r[j]]["prev"] = Nx(r, j)
    BY <2>4
  <2>7. r \in Seq(Spots(n)) /\ Len(r) <= n /\ d \in Tables(n)
    BY <2>4
  <2>8. \A way : (\A j \in 1 .. Len(r) : d.items[r[j]][way] = Nx(r, j)) => Walk(d, i, way) = r
    BY <2>5, <2>7, WalkIs, SMT
  <2>9. Walk(d, i, "prev") = r
    BY <2>6, <2>8
  <2> QED
    BY <2>1, <2>3, <2>9 DEF Backwards
<1>9. \A k : ~ Has(d, k)
  BY <1>4 DEF Has, Occupied
<1> QED
  BY <1>2, <1>3, <1>4, <1>5, <1>6, <1>7, <1>8, <1>9 DEF IsNew, d

\* ENSURE_INIT.
IsEnsured(d, e, m) ==
  /\ \E n \in Sizes : \E s : Holds(e, n, s, m)
  /\ Full(e) = Full(d) /\ (Size(d) # 0 => e = d) /\ (\A k \in Keys : Has(e, k) <=> Has(d, k))

\* ENSURE_INIT changes nothing that a method sees.
LEMMA EnsureIs ==
  ASSUME NEW d, NEW m, IsDict(d, m)
  PROVE  IsEnsured(d, Ensure(d), m)
<1> CASE d = EmptyTable(0) /\ m = <<>>
  <2> DEFINE I == INITIAL_SIZE
             e == EmptyTable(I)
  <2> I \in Sizes /\ I \in Nat /\ I >= 4
    BY SizesAre
  <2>2. IsNew(d)
    BY NewIs
  <2>3. Ensure(d) = e
    BY <2>2 DEF IsNew, Ensure
  <2> HIDE DEF I
  <2> Holds(e, I, <<>>, m) /\ Full(e) = {}
    BY EmptyIs
  <2> HIDE DEF e
  <2>5. \A k \in Keys : ~ Has(e, k)
    <3>1. I > 0 /\ e \in Tables(I) /\ Sound(e, I) /\ Free(e) # {}
      BY HoldsFacts
    <3>2. \A k \in Keys : Has(e, k) <=> \E x \in Full(e) : e.items[x].k = k
      BY <3>1, FindSpotIs
    <3> QED
      BY <3>2
  <2> QED
    BY <2>2, <2>3, <2>5 DEF IsEnsured, IsNew
<1>2. CASE \E n \in Sizes : \E s : Holds(d, n, s, m)
  <2> PICK n \in Sizes : \E s : Holds(d, n, s, m)
    BY <1>2
  <2>1. PICK s : Holds(d, n, s, m)
    BY SMT
  <2>2. n \in Nat /\ n # 0 /\ d \in Tables(n)
    BY <2>1, SizesAre, HoldsFacts
  <2>3. Size(d) = n
    BY <2>2, TableFacts
  <2>4. Ensure(d) = d
    BY <2>2, <2>3 DEF Ensure
  <2> QED
    BY <2>1, <2>4 DEF IsEnsured
<1> QED
  BY <1>2 DEF IsDict

\* What the methods see of a Dict.
IsRead(d, m) ==
  /\ m \in Seq(Pair) /\ Len(m) \in Nat /\ DOMAIN m = 1 .. Len(m)
  /\ \A j, l \in 1 .. Len(m) : m[j].k = m[l].k => j = l
  /\ \A k : k \in KeysOf(m) <=> \E x \in Full(d) : d.items[x].k = k
  /\ \A k \in Keys : Has(d, k) <=> k \in KeysOf(m)
  /\ \A x \in Full(d) : d.items[x].k \in Keys /\ FindSpot(d, d.items[x].k) = x
  /\ \A k \in Keys : Has(d, k) => FindSpot(d, k) \in Full(d) /\ d.items[FindSpot(d, k)].k = k
  /\ \A k \in Keys : Size(d) # 0 /\ ~ Has(d, k) => Vacant(d, Size(d), k, FindSpot(d, k))
  /\ Size(d) \in Nat /\ d \in Tables(Size(d)) /\ (Size(d) # 0 => Free(d) # {} /\ Size(d) \in Sizes)
  /\ d.count = Len(m) /\ (\A i : Occupied(d, i) <=> i \in Full(d)) /\ Entries(d) = m
  /\ Size(d) = 0 => d = EmptyTable(0) /\ Full(d) = {}

\* What the methods see of a Dict is its sequence of entries.
LEMMA DictReads ==
  ASSUME NEW d, NEW m, IsDict(d, m)
  PROVE  IsRead(d, m)
<1> CASE d = EmptyTable(0) /\ m = <<>>
  <2>1. IsNew(d)
    BY NewIs
  <2> m \in Seq(Pair) /\ Len(m) = 0 /\ 0 \in Nat /\ DOMAIN m = 1 .. Len(m) /\ 1 .. Len(m) = {}
    BY SMT
  <2>3. \A k : k \notin KeysOf(m)
    BY DEF KeysOf
  <2>4. \A i : ~ Occupied(d, i)
    BY <2>1 DEF IsNew, Occupied
  <2>5. \A j, l \in 1 .. Len(m) : m[j].k = m[l].k => j = l
    OBVIOUS
  <2>6. /\ d \in Tables(0) /\ Size(d) = 0 /\ Full(d) = {} /\ d.count = 0 /\ Entries(d) = m
        /\ (\A k : ~ Has(d, k)) /\ d = EmptyTable(0)
    BY <2>1 DEF IsNew
  <2> QED
    BY <2>3, <2>4, <2>5, <2>6 DEF IsRead
<1>2. CASE \E n \in Sizes : \E s : Holds(d, n, s, m)
  <2> PICK n \in Sizes : \E s : Holds(d, n, s, m)
    BY <1>2
  <2>1. PICK s : Holds(d, n, s, m)
    BY SMT
  <2> /\ n \in Nat /\ n > 0 /\ d \in Tables(n) /\ Sound(d, n) /\ Free(d) # {} /\ IsAlong(d, s, m)
      /\ d.count = Len(m)
    BY <2>1, HoldsFacts
  <2>3. Size(d) = n
    BY TableFacts
  <2>4. /\ m \in Seq(Pair) /\ Len(m) \in Nat /\ DOMAIN m = 1 .. Len(m)
        /\ \A j, l \in 1 .. Len(m) : m[j].k = m[l].k => j = l
        /\ \A k : k \in KeysOf(m) <=> \E x \in Full(d) : d.items[x].k = k
    BY DEF IsAlong
  <2>5. /\ \A k \in Keys : \A x \in Full(d) : d.items[x].k = k => FindSpot(d, k) = x
        /\ \A k \in Keys : (\A x \in Full(d) : d.items[x].k # k) => Vacant(d, n, k, FindSpot(d, k))
        /\ \A k \in Keys : Has(d, k) <=> \E x \in Full(d) : d.items[x].k = k
    BY FindSpotIs
  <2>6. \A i : (i \in Full(d) <=> Occupied(d, i)) /\ (i \in Full(d) => d.items[i].k \in Keys)
    BY FullFacts
  <2>7. Entries(d) = m
    <3>1. IsWalked(d, s, m)
      BY <2>1, SlotsAre
    <3> QED
      BY <3>1 DEF IsWalked
  <2>8. /\ \A k \in Keys : Has(d, k) <=> k \in KeysOf(m)
        /\ \A x \in Full(d) : d.items[x].k \in Keys /\ FindSpot(d, d.items[x].k) = x
        /\ \A k \in Keys : ~ Has(d, k) => Vacant(d, n, k, FindSpot(d, k))
    BY <2>4, <2>5, <2>6
  <2>9. \A k \in Keys : Has(d, k) => FindSpot(d, k) \in Full(d) /\ d.items[FindSpot(d, k)].k = k
    BY <2>5
  <2>10. Size(d) \in Nat /\ d \in Tables(Size(d)) /\ Size(d) \in Sizes /\ Size(d) # 0
    BY <2>3, SizesAre
  <2>11. \A k \in Keys : ~ Has(d, k) => Vacant(d, Size(d), k, FindSpot(d, k))
    BY <2>3, <2>8
  <2> HIDE <2>1, <2>5
  <2> QED
    BY <2>4, <2>6, <2>7, <2>8, <2>9, <2>10, <2>11 DEF IsRead
<1> QED
  BY <1>2 DEF IsDict

\* A Dict whose table is of size n.
LEMMA HeldIs ==
  ASSUME NEW n \in Sizes, NEW d, NEW s, NEW m, Holds(d, n, s, m)
  PROVE  IsDict(d, m) /\ Size(d) = n /\ Size(d) # 0 /\ n \in Nat /\ Ensure(d) = d
<1>1. n \in Nat /\ n # 0 /\ d \in Tables(n)
  BY SizesAre, HoldsFacts
<1>2. Size(d) = n
  BY <1>1, TableFacts
<1> QED
  BY <1>1, <1>2 DEF IsDict, Ensure

\* A removal leaves the other entries in their order and in their slots.
IsErased(d, e, n, s, m, j) ==
  /\ Holds(e, n, Without(s, j), Without(m, j)) /\ Without(m, j) = Except(m, {d.items[s[j]].k})
  /\ Full(e) = Full(d) \ {s[j]} /\ \A x \in Full(e) : e.items[x].k = d.items[x].k

\* delete on the j-th entry.
LEMMA DeleteHolds ==
  ASSUME NEW n, NEW d, NEW s, NEW m, Holds(d, n, s, m), NEW j \in 1 .. Len(s)
  PROVE  IsErased(d, Delete(d, s[j]), n, s, m, j)
<1> DEFINE e == Delete(d, s[j])
           x == s[j]
<1>1. /\ Rep(d, n, s) /\ Along(d, s) = m /\ n >= 4 /\ d.count = Len(s)
      /\ d.tombs = Cardinality(Graves(d)) /\ 4 * (d.count + d.tombs) < (3 * n) + 4
  BY DEF Holds
<1>2. IsDeleted(d, e, n, s, j)
  BY <1>1, DeleteIs
<1>3. /\ n \in Nat /\ d \in Tables(n) /\ ListOf(d, n, s) /\ IsAlong(d, s, m)
      /\ d.count \in Nat /\ d.tombs \in Nat
  BY HoldsFacts
<1>4. /\ Rep(e, n, Without(s, j)) /\ Along(e, Without(s, j)) = Without(m, j)
      /\ Full(e) = Full(d) \ {x} /\ Graves(e) = Graves(d) \cup {x}
      /\ e.count = d.count - 1 /\ e.tombs = d.tombs + 1
      /\ \A y \in Full(e) : e.items[y].k = d.items[y].k
  BY <1>1, <1>2 DEF IsDeleted
<1> HIDE DEF e
<1>5. Len(Without(s, j)) = Len(s) - 1
  <2>1. s \in Seq(Spots(n))
    BY <1>3 DEF ListOf
  <2> QED
    BY <2>1, WithoutSeq
<1>6. Cardinality(Graves(e)) = Cardinality(Graves(d)) + 1
  <2>1. x \in Full(d)
    <3>1. s \in Seq(Spots(n)) /\ Range(s) = Full(d)
      BY <1>3 DEF ListOf
    <3>2. DOMAIN s = 1 .. Len(s)
      BY <3>1, SMT
    <3> QED
      BY <3>1, <3>2 DEF Range
  <2>2. x \notin Graves(d)
    BY <2>1, <1>3, FullApart
  <2>3. IsFiniteSet(Graves(d))
    <3>1. IsCount(d, n, s)
      BY <1>1, CountIs
    <3> QED
      BY <3>1 DEF IsCount
  <2> QED
    BY <2>2, <2>3, <1>4, FS_AddElement
<1>7. /\ e.count = Len(Without(s, j)) /\ e.tombs = Cardinality(Graves(e))
      /\ 4 * (e.count + e.tombs) < (3 * n) + 4
  <2>1. e.count + e.tombs = d.count + d.tombs
    <3>1. /\ d.count \in Nat /\ d.tombs \in Nat
          /\ e.count = d.count - 1 /\ e.tombs = d.tombs + 1
      BY <1>3, <1>4
    <3> QED
      BY <3>1, SMT
  <2> QED
    BY <2>1, <1>1, <1>4, <1>5, <1>6
<1>8. Holds(e, n, Without(s, j), Without(m, j))
  BY <1>1, <1>4, <1>7 DEF Holds
<1>9. Without(m, j) = Except(m, {d.items[x].k})
  <2>1. /\ m \in Seq(Pair) /\ j \in 1 .. Len(m) /\ m[j].k = d.items[x].k
        /\ \A a, b \in 1 .. Len(m) : m[a].k = m[b].k => a = b
    BY <1>3 DEF IsAlong
  <2>2. Except(m, {m[j].k}) = Without(m, j)
    BY <2>1, ExceptOne
  <2> QED
    BY <2>1, <2>2
<1> QED
  BY <1>4, <1>8, <1>9 DEF IsErased, e

\* Any entry can be removed.
IsGone(d, e, m, i) ==
  /\ IsDict(e, Except(m, {d.items[i].k})) /\ Size(e) = Size(d)
  /\ Full(e) = Full(d) \ {i} /\ \A x \in Full(e) : e.items[x].k = d.items[x].k

\* delete on an occupied slot removes its entry and no other.
LEMMA DeleteAny ==
  ASSUME NEW d, NEW m, IsDict(d, m), NEW i \in Full(d)
  PROVE  IsGone(d, Delete(d, i), m, i)
<1>1. \E n \in Sizes : \E s : Holds(d, n, s, m)
  <2>1. d # EmptyTable(0)
    BY NewIs DEF IsNew
  <2> QED
    BY <2>1 DEF IsDict
<1> PICK n \in Sizes : \E s : Holds(d, n, s, m)
  BY <1>1
<1> PICK s : Holds(d, n, s, m)
  BY SMT
<1>3. PICK j \in 1 .. Len(s) : s[j] = i
  <2>1. ListOf(d, n, s)
    BY HoldsFacts
  <2>2. s \in Seq(Spots(n)) /\ Range(s) = Full(d)
    BY <2>1 DEF ListOf
  <2>3. DOMAIN s = 1 .. Len(s)
    BY <2>2, SMT
  <2> QED
    BY <2>2, <2>3 DEF Range
<1> DEFINE e == Delete(d, i)
<1>4. IsErased(d, e, n, s, m, j)
  <2>1. IsErased(d, Delete(d, s[j]), n, s, m, j)
    BY DeleteHolds
  <2> QED
    BY <2>1, <1>3
<1> HIDE DEF e
<1>5. /\ Holds(e, n, Without(s, j), Except(m, {d.items[i].k})) /\ Full(e) = Full(d) \ {i}
      /\ \A x \in Full(e) : e.items[x].k = d.items[x].k
  BY <1>3, <1>4 DEF IsErased
<1>6. Size(d) = n
  BY HeldIs
<1>7. IsDict(e, Except(m, {d.items[i].k})) /\ Size(e) = n
  BY <1>5, HeldIs
<1> QED
  BY <1>5, <1>6, <1>7 DEF IsGone, e

\* dict_remove.
LEMMA RemoveKeyIs ==
  ASSUME NEW d, NEW m, IsDict(d, m), NEW k \in Keys
  PROVE  IsDict(RemoveKey(d, k), Except(m, {k})) /\ Size(RemoveKey(d, k)) = Size(d)
<1>1. IsRead(d, m)
  BY DictReads
<1> CASE Has(d, k)
  <2>1. FindSpot(d, k) \in Full(d) /\ d.items[FindSpot(d, k)].k = k
    BY <1>1 DEF IsRead
  <2>2. IsGone(d, Delete(d, FindSpot(d, k)), m, FindSpot(d, k))
    BY <2>1, DeleteAny
  <2>3. RemoveKey(d, k) = Delete(d, FindSpot(d, k))
    BY DEF RemoveKey
  <2> QED
    BY <2>1, <2>2, <2>3 DEF IsGone
<1> CASE ~ Has(d, k)
  <2>1. k \notin KeysOf(m) /\ m \in Seq(Pair)
    BY <1>1 DEF IsRead
  <2>2. Except(m, {k}) = m
    BY <2>1, ExceptAbsent
  <2> QED
    BY <2>2 DEF RemoveKey
<1> QED
  OBVIOUS

\* What dict_put_value makes of a Dict: an entry that is there changes its value; a new
\* one goes to the end, into the slot where find_spot stopped or into a larger table.
IsAssigned(d, e, m, k, v) ==
  /\ IsDict(e, Assign(m, [k |-> k, v |-> v])) /\ Size(d) <= Size(e)
  /\ Room(d) /\ Size(d) <= MaxSize => Size(e) <= MaxSize
  /\ Size(d) # 0 /\ Size(e) = Size(d) => Full(d) \subseteq Full(e) /\ FindSpot(d, k) \in Full(e)
  /\ Has(d, k) => Size(e) = Size(d) /\ Full(e) = Full(d) /\ \A x \in Full(d) : e.items[x].k = d.items[x].k

\* The same for a table that exists.
IsAssignedHere(d, e, n, m, k, v) ==
  /\ IsDict(e, Assign(m, [k |-> k, v |-> v]))
  /\ Size(e) = IF Has(d, k) \/ ~ ShouldRehash(d) THEN n ELSE 2 * n
  /\ Size(e) = n => Full(d) \subseteq Full(e) /\ FindSpot(d, k) \in Full(e)
  /\ Has(d, k) => Full(e) = Full(d) /\ \A x \in Full(d) : e.items[x].k = d.items[x].k

\* dict_put_value on a table that exists.
LEMMA PutValueHere ==
  ASSUME NEW n \in Sizes, NEW d, NEW s, NEW m, Holds(d, n, s, m), NEW k \in Keys, NEW v \in Val
  PROVE  IsAssignedHere(d, PutValue(d, k, v), n, m, k, v)
<1> DEFINE i == FindSpot(d, k)
           e == PutValue(d, k, v)
           x == [k |-> k, v |-> v]
<1> IsDict(d, m) /\ Size(d) = n /\ n # 0 /\ n \in Nat /\ Ensure(d) = d
  BY HeldIs
<1>2. IsRead(d, m)
  BY DictReads
<1>3. Has(d, k) <=> Occupied(d, i)
  BY DEF Has
<1>4. e = IF Has(d, k) THEN SetValue(d, i, v) ELSE Put(d, i, k, v)
  BY <1>3 DEF PutValue
<1>5. x.k = k
  OBVIOUS
<1> HIDE DEF e, i, x
<1> CASE Has(d, k)
  <2> i \in Full(d) /\ d.items[i].k = k /\ e = SetValue(d, i, v) /\ d \in Tables(n) /\ DOMAIN d.items = Spots(n)
    <3>1. d \in Tables(n) /\ i \in Full(d) /\ d.items[i].k = k
      BY <1>2 DEF IsRead, i
    <3> QED
      BY <3>1, <1>4, TableFacts
  <2>2. Rep(d, n, s) /\ Along(d, s) = m
    BY DEF Holds
  <2> /\ Rep(e, n, s) /\ Along(e, s) = Assign(m, x)
      /\ Full(e) = Full(d) /\ Graves(e) = Graves(d) /\ e.count = d.count /\ e.tombs = d.tombs
      /\ \A y \in Spots(n) : e.items[y].k = d.items[y].k
    <3>1. /\ Rep(e, n, s) /\ Along(e, s) = Assign(Along(d, s), [k |-> d.items[i].k, v |-> v])
          /\ Full(e) = Full(d) /\ Graves(e) = Graves(d) /\ e.count = d.count /\ e.tombs = d.tombs
          /\ \A y \in Spots(n) : e.items[y].k = d.items[y].k
      <4>1. IsValued(d, e, n, s, i, v)
        BY <2>2, SetValueIs
      <4> QED
        BY <4>1 DEF IsValued
    <3> QED
      BY <3>1, <2>2 DEF x
  <2>4. Holds(e, n, s, Assign(m, x))
    BY DEF Holds
  <2>5. IsDict(e, Assign(m, x)) /\ Size(e) = n
    BY <2>4, HeldIs
  <2>6. \A y \in Full(d) : e.items[y].k = d.items[y].k
    BY DEF Full
  <2> QED
    BY <2>5, <2>6 DEF IsAssignedHere, e, i, x
<1> CASE ~ Has(d, k)
  <2>1. Vacant(d, n, k, i) /\ k \notin KeysOf(m) /\ e = Put(d, i, k, v)
    BY <1>2, <1>4 DEF IsRead, i
  <2>2. Assign(m, x) = Append(m, x)
    BY <2>1, <1>5 DEF Assign
  <2>3. IsPut(d, e, n, k, v, i, m)
    BY <2>1, PutIs
  <2> CASE ShouldRehash(d)
    <3>1. PICK t : Holds(e, 2 * n, t, Append(m, x))
      BY <2>3 DEF IsPut, x
    <3>2. 2 * n \in Sizes /\ n < 2 * n
      BY SizesAre
    <3>3. IsDict(e, Append(m, x)) /\ Size(e) = 2 * n
      BY <3>1, <3>2, HeldIs
    <3>4. 2 * n # n
      BY <3>2, SMT
    <3> QED
      BY <2>2, <3>3, <3>4 DEF IsAssignedHere, e, i, x
  <2> CASE ~ ShouldRehash(d)
    <3>1. PICK t : Holds(e, n, t, Append(m, x)) /\ Full(e) = Full(d) \cup {i}
      BY <2>3 DEF IsPut, IsHere, x
    <3>2. IsDict(e, Append(m, x)) /\ Size(e) = n
      BY <3>1, HeldIs
    <3> QED
      BY <2>2, <3>1, <3>2 DEF IsAssignedHere, e, i, x
  <2> QED
    OBVIOUS
<1> QED
  OBVIOUS

\* dict_put_value assigns to the key.
LEMMA PutValueIs ==
  ASSUME NEW d, NEW m, IsDict(d, m), NEW k \in Keys, NEW v \in Val
  PROVE  IsAssigned(d, PutValue(d, k, v), m, k, v)
<1> DEFINE c == Ensure(d)
           e == PutValue(d, k, v)
<1>1. IsEnsured(d, c, m)
  BY EnsureIs
<1>2. IsRead(d, m)
  BY DictReads
<1>3. Size(d) = 0 => c = EmptyTable(INITIAL_SIZE)
  BY DEF Ensure
<1> HIDE DEF c
<1> PICK n \in Sizes : \E s : Holds(c, n, s, m)
  BY <1>1 DEF IsEnsured
<1>4. PICK s : Holds(c, n, s, m)
  BY SMT
<1> Size(c) = n /\ n # 0 /\ n \in Nat /\ Ensure(c) = c
  BY <1>4, HeldIs
<1>6. e = PutValue(c, k, v)
  BY DEF PutValue, c
<1>7. IsAssignedHere(c, e, n, m, k, v)
  <2>1. IsAssignedHere(c, PutValue(c, k, v), n, m, k, v)
    BY <1>4, PutValueHere
  <2> QED
    BY <2>1, <1>6
<1> HIDE DEF e
<1> /\ IsDict(e, Assign(m, [k |-> k, v |-> v]))
    /\ (Size(e) = IF Has(c, k) \/ ~ ShouldRehash(c) THEN n ELSE 2 * n)
    /\ Size(e) = n => Full(c) \subseteq Full(e) /\ FindSpot(c, k) \in Full(e)
    /\ Has(c, k) => Full(e) = Full(c) /\ \A x \in Full(c) : e.items[x].k = c.items[x].k
  BY <1>7 DEF IsAssignedHere
<1> Size(d) \in Nat /\ (Size(d) # 0 => c = d /\ Size(d) = n) /\ (Has(c, k) <=> Has(d, k)) /\ (Has(d, k) => Size(d) # 0)
  BY <1>1, <1>2 DEF IsRead, IsEnsured
<1>10. Size(d) <= n /\ n <= 2 * n /\ n <= n /\ 2 * n \in Nat
  BY SMT
<1>11. Size(d) <= Size(e)
  <2>1. CASE Size(e) = n
    BY <2>1, <1>10
  <2>2. CASE Size(e) = 2 * n
    BY <2>2, <1>10, SMT
  <2> QED
    BY <2>1, <2>2
<1> ASSUME Room(d), Size(d) <= MaxSize
    PROVE  Size(e) <= MaxSize
  <2>1. n <= MaxSize
    <3>1. CASE Size(d) # 0
      BY <3>1
    <3>2. CASE Size(d) = 0
      <4>1. INITIAL_SIZE \in Nat /\ INITIAL_SIZE >= 4 /\ INITIAL_SIZE <= MaxSize
        BY DictAssumption
      <4>2. Holds(EmptyTable(INITIAL_SIZE), INITIAL_SIZE, <<>>, <<>>) /\ INITIAL_SIZE \in Sizes
        BY <4>1, EmptyIs, SizesAre
      <4>3. Size(EmptyTable(INITIAL_SIZE)) = INITIAL_SIZE
        BY <4>2, HeldIs
      <4> QED
        BY <3>2, <4>1, <4>3, <1>3
    <3> QED
      BY <3>1, <3>2
  <2>2. ShouldRehash(c) => 2 * n <= MaxSize
    BY DEF Room, c
  <2> QED
    BY <2>1, <2>2
<1>13. Size(d) # 0 /\ Size(e) = Size(d) => Full(d) \subseteq Full(e) /\ FindSpot(d, k) \in Full(e)
  OBVIOUS
<1>14. Has(d, k) => Size(e) = Size(d) /\ Full(e) = Full(d) /\ \A x \in Full(d) : e.items[x].k = d.items[x].k
  OBVIOUS
<1> QED
  BY <1>11, <1>13, <1>14 DEF IsAssigned, e

-----------------------------------------------------------------------------
(* The loops over another dict and over the slots *)

\* An entry.
LEMMA PairIs ==
  ASSUME NEW x \in Pair
  PROVE  x.k \in Keys /\ x.v \in Val /\ x = [k |-> x.k, v |-> x.v]
BY SMT DEF Pair

\* The keys after an assignment, and its result.
LEMMA AssignIs ==
  ASSUME NEW m \in Seq(Pair), NEW x \in Pair
  PROVE  Assign(m, x) \in Seq(Pair) /\ KeysOf(Assign(m, x)) = KeysOf(m) \cup {x.k}
<1> PICK L \in Nat : L = Len(m) /\ DOMAIN m = 1 .. L /\ \A j \in 1 .. L : m[j] \in Pair
  BY SMT
<1> CASE x.k \in KeysOf(m)
  <2> DEFINE t == [i \in 1 .. L |-> IF m[i].k = x.k THEN x ELSE m[i]]
  <2>1. Assign(m, x) = t
    BY DEF Assign
  <2>2. t \in Seq(Pair) /\ DOMAIN t = 1 .. L
    <3>1. \A i \in 1 .. L : (IF m[i].k = x.k THEN x ELSE m[i]) \in Pair
      OBVIOUS
    <3> QED
      BY <3>1, SMT
  <2>3. \A i \in 1 .. L : t[i].k = m[i].k
    OBVIOUS
  <2> HIDE DEF t
  <2>4. KeysOf(t) = KeysOf(m)
    BY <2>2, <2>3 DEF KeysOf
  <2> QED
    BY <2>1, <2>2, <2>4
<1>3. CASE x.k \notin KeysOf(m)
  <2> DEFINE t == Append(m, x)
  <2>1. Assign(m, x) = t
    BY <1>3 DEF Assign
  <2>2. t = [l \in 1 .. L + 1 |-> IF l = L + 1 THEN x ELSE m[l]] /\ t \in Seq(Pair)
    BY AppendValue, SMT
  <2> L + 1 \in 1 .. L + 1 /\ (\A l : l \in 1 .. L + 1 <=> l \in 1 .. L \/ l = L + 1) /\ L + 1 \notin 1 .. L
    BY SMT
  <2> HIDE DEF t
  <2>4. \A k : k \in KeysOf(m) <=> \E l \in 1 .. L : m[l].k = k
    BY DEF KeysOf
  <2> DOMAIN t = 1 .. L + 1 /\ t[L + 1] = x /\ \A l \in 1 .. L : t[l] = m[l]
    BY <2>2
  <2>6. \A k : k \in KeysOf(t) <=> \E l \in 1 .. L + 1 : t[l].k = k
    BY DEF KeysOf
  <2>7. \A k : k \in KeysOf(t) <=> k \in KeysOf(m) \/ k = x.k
    <3> SUFFICES ASSUME NEW k
                 PROVE  (\E l \in 1 .. L + 1 : t[l].k = k) <=> (\E l \in 1 .. L : m[l].k = k) \/ k = x.k
      BY <2>4, <2>6
    <3> ASSUME NEW l \in 1 .. L + 1, t[l].k = k
        PROVE  (\E b \in 1 .. L : m[b].k = k) \/ k = x.k
      <4>1. CASE l = L + 1
        BY <4>1
      <4>2. CASE l \in 1 .. L
        BY <4>2
      <4> QED
        BY <4>1, <4>2
    <3>2. ASSUME NEW l \in 1 .. L, m[l].k = k
          PROVE  \E b \in 1 .. L + 1 : t[b].k = k
      BY <3>2
    <3>3. ASSUME k = x.k
          PROVE  \E b \in 1 .. L + 1 : t[b].k = k
      BY <3>3
    <3> QED
      BY <3>2, <3>3
  <2> QED
    BY <2>1, <2>2, <2>7
<1> QED
  BY <1>3

\* The states f of the loop of AssignAll.
AssignRun(m, es, f) ==
  /\ f[0] = m /\ f[Len(es)] = AssignAll(m, es)
  /\ \A i \in 1 .. Len(es) : f[i] = Assign(f[i - 1], es[i])

\* The loop of AssignAll has its states.
LEMMA AssignAllIs ==
  ASSUME NEW m \in Seq(Pair), NEW es \in Seq(Pair)
  PROVE  \E f : AssignRun(m, es, f)
<1> DEFINE L == Len(es)
           S == [j \in 0 .. L |-> Seq(Pair)]
           Next1(c, j) == Assign(c, es[j])
           g == [p \in (1 .. L) \X Seq(Pair) |-> Next1(p[2], p[1])]
           Solves(f) == f = [j \in 0 .. L |-> IF j = 0 THEN m ELSE Next1(f[j - 1], j)]
           after == CHOOSE f : Solves(f)
<1>1. AssignAll(m, es) = after[L]
  BY SMT DEF AssignAll
<1> HIDE DEF after
<1> L \in Nat /\ \A j \in 1 .. L : es[j] \in Pair
  BY SMT
<1> /\ 0 \in 0 .. L /\ L \in 0 .. L /\ (\A j \in 0 .. L : j # 0 => j \in 1 .. L)
    /\ \A j \in 1 .. L : j \in 0 .. L /\ j - 1 \in 0 .. L /\ j # 0
  BY SMT
<1>4. m \in S[0]
  OBVIOUS
<1>5. \A j \in 1 .. L : \A c \in S[j - 1] : Next1(c, j) \in S[j]
  <2>1. \A j \in 1 .. L : \A c \in Seq(Pair) : Next1(c, j) \in Seq(Pair)
    BY AssignIs
  <2> QED
    BY <2>1
<1>6. \A j \in 0 .. L : S[j] \subseteq Seq(Pair)
  OBVIOUS
<1> HIDE DEF S, Next1, L
<1>7. \E f : Solves(f)
  <2>1. \A j \in 1 .. L : \A c \in S[j - 1] : g[<<j, c>>] = Next1(c, j)
    <3> SUFFICES ASSUME NEW j \in 1 .. L, NEW c, c \in S[j - 1]
                 PROVE  g[<<j, c>>] = Next1(c, j)
      OBVIOUS
    <3>1. c \in Seq(Pair)
      BY <1>6
    <3> QED
      BY <3>1
  <2> HIDE DEF g
  <2>2. \A j \in 1 .. L : \A c \in S[j - 1] : g[<<j, c>>] \in S[j]
    BY <2>1, <1>5
  <2>3. PICK f : IsLoop(f, L, m, g) /\ \A j \in 0 .. L : f[j] \in S[j]
    BY <1>4, <2>2, LoopRuns
  <2>4. f = [j \in 0 .. L |-> IF j = 0 THEN m ELSE g[<<j, f[j - 1]>>]]
    BY <2>3 DEF IsLoop
  <2>5. \A j \in 0 .. L : j # 0 => g[<<j, f[j - 1]>>] = Next1(f[j - 1], j)
    BY <2>1, <2>3
  <2>6. \A j \in 0 .. L : (IF j = 0 THEN m ELSE g[<<j, f[j - 1]>>])
                            = IF j = 0 THEN m ELSE Next1(f[j - 1], j)
    BY <2>5
  <2>7. Solves(f)
    BY <2>4, <2>6
  <2> QED
    BY <2>7
<1>8. Solves(after)
  BY <1>7 DEF after
<1>9. after[0] = m /\ \A j \in 1 .. L : after[j] = Next1(after[j - 1], j)
  BY <1>8
<1>10. \A j \in 0 .. L : after[j] \in S[j]
  <2>1. after[0] \in S[0] /\ \A j \in 1 .. L : after[j - 1] \in S[j - 1] => after[j] \in S[j]
    BY <1>4, <1>5, <1>9
  <2>2. L \in Nat
    OBVIOUS
  <2> QED
    BY <2>1, <2>2, LoopInvariant
<1> QED
  BY <1>1, <1>9 DEF AssignRun, L, Next1

\* Every Dict is one of these records.
AnyTable == UNION {Tables(n) : n \in Nat}

\* A Dict is a record of its type.
LEMMA AnyIs ==
  ASSUME NEW d, NEW m, IsDict(d, m)
  PROVE  d \in AnyTable
<1>1. IsRead(d, m)
  BY DictReads
<1>2. Size(d) \in Nat /\ d \in Tables(Size(d))
  BY <1>1 DEF IsRead
<1> QED
  BY <1>2 DEF AnyTable

\* The loop of DictUpdate.
LEMMA PutAllIs ==
  ASSUME NEW d, NEW m, IsDict(d, m), NEW es \in Seq(Pair)
  PROVE  IsDict(PutAll(d, es), AssignAll(m, es))
<1>0. m \in Seq(Pair)
  <2>1. IsRead(d, m)
    BY DictReads
  <2> QED
    BY <2>1 DEF IsRead
<1> PICK h : AssignRun(m, es, h)
  BY <1>0, AssignAllIs
<1> DEFINE L == Len(es)
           S == [j \in 0 .. L |-> {t \in AnyTable : IsDict(t, h[j])}]
           Next1(c, j) == PutValue(c, es[j].k, es[j].v)
           g == [p \in (1 .. L) \X AnyTable |-> Next1(p[2], p[1])]
           Solves(f) == f = [j \in 0 .. L |-> IF j = 0 THEN d ELSE Next1(f[j - 1], j)]
           after == CHOOSE f : Solves(f)
<1>1. PutAll(d, es) = after[L]
  BY SMT DEF PutAll
<1> HIDE DEF after
<1> L \in Nat /\ \A j \in 1 .. L : es[j].k \in Keys /\ es[j].v \in Val /\ es[j] = [k |-> es[j].k, v |-> es[j].v]
  <2>1. L \in Nat /\ \A j \in 1 .. L : es[j] \in Pair
    BY SMT
  <2> QED
    BY <2>1, PairIs
<1> /\ 0 \in 0 .. L /\ L \in 0 .. L /\ (\A j \in 0 .. L : j # 0 => j \in 1 .. L)
    /\ \A j \in 1 .. L : j \in 0 .. L /\ j - 1 \in 0 .. L /\ j # 0
  BY SMT
<1>4. d \in S[0]
  <2>1. d \in AnyTable /\ IsDict(d, h[0])
    BY AnyIs DEF AssignRun
  <2> QED
    BY <2>1
<1>5. \A j \in 1 .. L : \A c \in S[j - 1] : Next1(c, j) \in S[j]
  <2> SUFFICES ASSUME NEW j \in 1 .. L, NEW c, c \in S[j - 1]
               PROVE  Next1(c, j) \in S[j]
    OBVIOUS
  <2>1. IsDict(c, h[j - 1])
    OBVIOUS
  <2>2. es[j].k \in Keys /\ es[j].v \in Val /\ es[j] = [k |-> es[j].k, v |-> es[j].v]
    OBVIOUS
  <2>3. IsAssigned(c, Next1(c, j), h[j - 1], es[j].k, es[j].v)
    BY <2>1, <2>2, PutValueIs
  <2>4. h[j] = Assign(h[j - 1], es[j])
    BY DEF AssignRun
  <2>5. IsDict(Next1(c, j), h[j])
    BY <2>2, <2>3, <2>4 DEF IsAssigned
  <2>6. Next1(c, j) \in AnyTable
    BY <2>5, AnyIs
  <2> QED
    BY <2>5, <2>6
<1>6. \A j \in 0 .. L : S[j] \subseteq AnyTable
  OBVIOUS
<1> HIDE DEF S, Next1, L
<1>7. \E f : Solves(f)
  <2>1. \A j \in 1 .. L : \A c \in S[j - 1] : g[<<j, c>>] = Next1(c, j)
    <3> SUFFICES ASSUME NEW j \in 1 .. L, NEW c, c \in S[j - 1]
                 PROVE  g[<<j, c>>] = Next1(c, j)
      OBVIOUS
    <3>1. c \in AnyTable
      BY <1>6
    <3> QED
      BY <3>1
  <2> HIDE DEF g
  <2>2. \A j \in 1 .. L : \A c \in S[j - 1] : g[<<j, c>>] \in S[j]
    BY <2>1, <1>5
  <2>3. PICK f : IsLoop(f, L, d, g) /\ \A j \in 0 .. L : f[j] \in S[j]
    BY <1>4, <2>2, LoopRuns
  <2>4. f = [j \in 0 .. L |-> IF j = 0 THEN d ELSE g[<<j, f[j - 1]>>]]
    BY <2>3 DEF IsLoop
  <2>5. \A j \in 0 .. L : j # 0 => g[<<j, f[j - 1]>>] = Next1(f[j - 1], j)
    BY <2>1, <2>3
  <2>6. \A j \in 0 .. L : (IF j = 0 THEN d ELSE g[<<j, f[j - 1]>>])
                            = IF j = 0 THEN d ELSE Next1(f[j - 1], j)
    BY <2>5
  <2>7. Solves(f)
    BY <2>4, <2>6
  <2> QED
    BY <2>7
<1>8. Solves(after)
  BY <1>7 DEF after
<1>9. after[0] = d /\ \A j \in 1 .. L : after[j] = Next1(after[j - 1], j)
  BY <1>8
<1>10. \A j \in 0 .. L : after[j] \in S[j]
  <2>1. after[0] \in S[0] /\ \A j \in 1 .. L : after[j - 1] \in S[j - 1] => after[j] \in S[j]
    BY <1>4, <1>5, <1>9
  <2>2. L \in Nat
    OBVIOUS
  <2> QED
    BY <2>1, <2>2, LoopInvariant
<1>11. IsDict(after[L], h[L])
  BY <1>10 DEF S
<1> QED
  BY <1>1, <1>11 DEF AssignRun, L

\* The loop of dict_subtract.
LEMMA RemoveAllIs ==
  ASSUME NEW d, NEW m, IsDict(d, m), NEW es \in Seq(Pair)
  PROVE  IsDict(RemoveAll(d, es), Except(m, KeysOf(es))) /\ Size(RemoveAll(d, es)) = Size(d)
<1> DEFINE L == Len(es)
           M(j) == Except(m, KeysOf(Front(es, j)))
           S == [j \in 0 .. L |-> {t \in AnyTable : IsDict(t, M(j)) /\ Size(t) = Size(d)}]
           Next1(c, j) == RemoveKey(c, es[j].k)
           g == [p \in (1 .. L) \X AnyTable |-> Next1(p[2], p[1])]
           Solves(f) == f = [j \in 0 .. L |-> IF j = 0 THEN d ELSE Next1(f[j - 1], j)]
           after == CHOOSE f : Solves(f)
<1>0. m \in Seq(Pair)
  <2>1. IsRead(d, m)
    BY DictReads
  <2> QED
    BY <2>1 DEF IsRead
<1>1. RemoveAll(d, es) = after[L]
  BY SMT DEF RemoveAll
<1> HIDE DEF after
<1>2. L \in Nat /\ \A j \in 1 .. L : es[j].k \in Keys
  <2>1. L \in Nat /\ \A j \in 1 .. L : es[j] \in Pair
    BY SMT
  <2> QED
    BY <2>1, PairIs
<1>3. /\ 0 \in 0 .. L /\ L \in 0 .. L /\ (\A j \in 0 .. L : j # 0 => j \in 1 .. L)
      /\ \A j \in 1 .. L : j \in 0 .. L /\ j - 1 \in 0 .. L /\ j # 0
  BY <1>2, SMT
<1>f. /\ KeysOf(Front(es, 0)) = {} /\ KeysOf(Front(es, L)) = KeysOf(es)
      /\ \A i \in 1 .. L : KeysOf(Front(es, i)) = KeysOf(Front(es, i - 1)) \cup {es[i].k}
  BY KeysFront
<1>m. M(0) = m /\ \A j \in 1 .. L : M(j) = Except(M(j - 1), {es[j].k})
  <2>1. M(0) = m
    BY <1>0, <1>f, ExceptAbsent
  <2>2. \A j \in 1 .. L : Except(Except(m, KeysOf(Front(es, j - 1))), {es[j].k})
                            = Except(m, KeysOf(Front(es, j - 1)) \cup {es[j].k})
    <3>1. \A A, B : Except(Except(m, A), B) = Except(m, A \cup B)
      BY <1>0, ExceptTwice
    <3> QED
      BY <3>1
  <2> QED
    BY <2>1, <2>2, <1>f
<1>l. M(L) = Except(m, KeysOf(es))
  BY <1>f
<1> HIDE DEF M
<1>4. d \in S[0]
  <2>1. d \in AnyTable /\ IsDict(d, M(0))
    BY <1>m, AnyIs
  <2> QED
    BY <2>1, <1>3
<1>5. \A j \in 1 .. L : \A c \in S[j - 1] : Next1(c, j) \in S[j]
  <2> SUFFICES ASSUME NEW j \in 1 .. L, NEW c, c \in S[j - 1]
               PROVE  Next1(c, j) \in S[j]
    OBVIOUS
  <2>1. IsDict(c, M(j - 1)) /\ Size(c) = Size(d)
    BY <1>3
  <2>2. es[j].k \in Keys
    BY <1>2
  <2>3. IsDict(Next1(c, j), Except(M(j - 1), {es[j].k})) /\ Size(Next1(c, j)) = Size(c)
    BY <2>1, <2>2, RemoveKeyIs
  <2>5. IsDict(Next1(c, j), M(j)) /\ Size(Next1(c, j)) = Size(d)
    BY <2>1, <2>3, <1>m
  <2>6. Next1(c, j) \in AnyTable
    BY <2>5, AnyIs
  <2> QED
    BY <2>5, <2>6, <1>3
<1>6. \A j \in 0 .. L : S[j] \subseteq AnyTable
  OBVIOUS
<1> HIDE DEF S, Next1, L
<1>7. \E f : Solves(f)
  <2>1. \A j \in 1 .. L : \A c \in S[j - 1] : g[<<j, c>>] = Next1(c, j)
    <3> SUFFICES ASSUME NEW j \in 1 .. L, NEW c, c \in S[j - 1]
                 PROVE  g[<<j, c>>] = Next1(c, j)
      OBVIOUS
    <3>1. c \in AnyTable
      BY <1>3, <1>6
    <3> QED
      BY <3>1
  <2> HIDE DEF g
  <2>2. \A j \in 1 .. L : \A c \in S[j - 1] : g[<<j, c>>] \in S[j]
    BY <2>1, <1>5
  <2>3. PICK f : IsLoop(f, L, d, g) /\ \A j \in 0 .. L : f[j] \in S[j]
    BY <1>2, <1>4, <2>2, LoopRuns
  <2>4. f = [j \in 0 .. L |-> IF j = 0 THEN d ELSE g[<<j, f[j - 1]>>]]
    BY <2>3 DEF IsLoop
  <2>5. \A j \in 0 .. L : j # 0 => g[<<j, f[j - 1]>>] = Next1(f[j - 1], j)
    BY <2>1, <2>3, <1>3
  <2>6. \A j \in 0 .. L : (IF j = 0 THEN d ELSE g[<<j, f[j - 1]>>])
                            = IF j = 0 THEN d ELSE Next1(f[j - 1], j)
    BY <2>5
  <2>7. Solves(f)
    BY <2>4, <2>6
  <2> QED
    BY <2>7
<1>8. Solves(after)
  BY <1>7 DEF after
<1>9. after[0] = d /\ \A j \in 1 .. L : after[j] = Next1(after[j - 1], j)
  BY <1>3, <1>8
<1>10. \A j \in 0 .. L : after[j] \in S[j]
  <2>1. after[0] \in S[0] /\ \A j \in 1 .. L : after[j - 1] \in S[j - 1] => after[j] \in S[j]
    BY <1>4, <1>5, <1>9
  <2>2. L \in Nat
    BY <1>2
  <2> QED
    BY <2>1, <2>2, LoopInvariant
<1>11. IsDict(after[L], M(L)) /\ Size(after[L]) = Size(d)
  BY <1>3, <1>10 DEF S
<1> QED
  BY <1>1, <1>11, <1>l

\* The loop over a table gives entries.
LEMMA TabledIs ==
  ASSUME NEW d, NEW m, IsDict(d, m)
  PROVE  Tabled(d) \in Seq(Pair)
<1> DEFINE L == Size(d)
           S == [j \in 0 .. L |-> Seq(Pair)]
           Next1(c, j) == IF Occupied(d, j - 1) THEN Append(c, EntryAt(d, j - 1)) ELSE c
           g == [p \in (1 .. L) \X Seq(Pair) |-> Next1(p[2], p[1])]
           Solves(f) == f = [j \in 0 .. L |-> IF j = 0 THEN <<>> ELSE Next1(f[j - 1], j)]
           after == CHOOSE f : Solves(f)
<1>1. Tabled(d) = after[L]
  BY SMT DEF Tabled
<1> HIDE DEF after
<1> /\ L \in Nat /\ d \in Tables(L) /\ (\A i : Occupied(d, i) <=> i \in Full(d))
    /\ \A x \in Full(d) : d.items[x].k \in Keys
  <2>1. IsRead(d, m)
    BY DictReads
  <2> QED
    BY <2>1 DEF IsRead
<1> /\ 0 \in 0 .. L /\ L \in 0 .. L /\ (\A j \in 0 .. L : j # 0 => j \in 1 .. L)
    /\ \A j \in 1 .. L : j \in 0 .. L /\ j - 1 \in 0 .. L /\ j # 0
  BY SMT
<1>4. <<>> \in S[0]
  <2>1. <<>> \in Seq(Pair)
    BY SMT
  <2> QED
    BY <2>1
<1>5. \A j \in 1 .. L : \A c \in S[j - 1] : Next1(c, j) \in S[j]
  <2> SUFFICES ASSUME NEW j \in 1 .. L, NEW c \in Seq(Pair)
               PROVE  Next1(c, j) \in Seq(Pair)
    OBVIOUS
  <2> CASE Occupied(d, j - 1)
    <3>1. j - 1 \in Full(d) /\ d.items[j - 1].k \in Keys
      OBVIOUS
    <3>2. d.items[j - 1].v \in Val
      <4>1. DOMAIN d.items = Spots(L) /\ \A i \in Spots(L) : d.items[i].v \in Val
        BY TableFacts
      <4> QED
        BY <3>1, <4>1 DEF Full
    <3>3. EntryAt(d, j - 1) \in Pair
      BY <3>1, <3>2, SMT DEF EntryAt, Pair
    <3>4. Append(c, EntryAt(d, j - 1)) \in Seq(Pair)
      BY <3>3, AppendValue
    <3> QED
      BY <3>4
  <2>2. CASE ~ Occupied(d, j - 1)
    BY <2>2
  <2> QED
    BY <2>2
<1>6. \A j \in 0 .. L : S[j] \subseteq Seq(Pair)
  OBVIOUS
<1> HIDE DEF S, Next1, L
<1>7. \E f : Solves(f)
  <2>1. \A j \in 1 .. L : \A c \in S[j - 1] : g[<<j, c>>] = Next1(c, j)
    <3> SUFFICES ASSUME NEW j \in 1 .. L, NEW c, c \in S[j - 1]
                 PROVE  g[<<j, c>>] = Next1(c, j)
      OBVIOUS
    <3>1. c \in Seq(Pair)
      BY <1>6
    <3> QED
      BY <3>1
  <2> HIDE DEF g
  <2>2. \A j \in 1 .. L : \A c \in S[j - 1] : g[<<j, c>>] \in S[j]
    BY <2>1, <1>5
  <2>3. PICK f : IsLoop(f, L, <<>>, g) /\ \A j \in 0 .. L : f[j] \in S[j]
    BY <1>4, <2>2, LoopRuns
  <2>4. f = [j \in 0 .. L |-> IF j = 0 THEN <<>> ELSE g[<<j, f[j - 1]>>]]
    BY <2>3 DEF IsLoop
  <2>5. \A j \in 0 .. L : j # 0 => g[<<j, f[j - 1]>>] = Next1(f[j - 1], j)
    BY <2>1, <2>3
  <2>6. \A j \in 0 .. L : (IF j = 0 THEN <<>> ELSE g[<<j, f[j - 1]>>])
                            = IF j = 0 THEN <<>> ELSE Next1(f[j - 1], j)
    BY <2>5
  <2>7. Solves(f)
    BY <2>4, <2>6
  <2> QED
    BY <2>7
<1>8. Solves(after)
  BY <1>7 DEF after
<1>9. after[0] = <<>> /\ \A j \in 1 .. L : after[j] = Next1(after[j - 1], j)
  BY <1>8
<1>10. \A j \in 0 .. L : after[j] \in S[j]
  <2>1. after[0] \in S[0] /\ \A j \in 1 .. L : after[j - 1] \in S[j - 1] => after[j] \in S[j]
    BY <1>4, <1>5, <1>9
  <2>2. L \in Nat
    OBVIOUS
  <2> QED
    BY <2>1, <2>2, LoopInvariant
<1> QED
  BY <1>1, <1>10 DEF S

\* The entries that the loop of dict_intersect has removed before slot j.
Passed(d, K, j) == {x \in Full(d) : x < j /\ d.items[x].k \notin K}
Dropped(d, K, j) == {d.items[x].k : x \in Passed(d, K, j)}

\* What the loop has removed before one slot more.
LEMMA PassedIs ==
  ASSUME NEW n \in Nat, NEW d \in Tables(n), NEW K
  PROVE  /\ Passed(d, K, 0) = {} /\ \A x \in Full(d) : x \in Passed(d, K, n) <=> d.items[x].k \notin K
         /\ \A j \in 1 .. n : \A x : x \in Passed(d, K, j) <=>
              x \in Passed(d, K, j - 1) \/ (x = j - 1 /\ x \in Full(d) /\ d.items[x].k \notin K)
         /\ \A j \in 1 .. n : j - 1 \notin Passed(d, K, j - 1)
<1> \A x \in Full(d) : x \in Spots(n)
  BY FullFacts
<1> \A x \in Spots(n) : x \in Int /\ ~ (x < 0) /\ x < n /\ ~ (x < x)
  BY SMT DEF Spots
<1>3. \A j \in 1 .. n : \A x \in Spots(n) : x < j <=> x < j - 1 \/ x = j - 1
  BY SMT DEF Spots
<1>4. \A j \in 1 .. n : j - 1 \in Spots(n)
  BY SMT DEF Spots
<1>5. Passed(d, K, 0) = {}
  BY DEF Passed
<1>6. \A x \in Full(d) : x \in Passed(d, K, n) <=> d.items[x].k \notin K
  BY DEF Passed
<1>7. ASSUME NEW j \in 1 .. n, NEW x
      PROVE  x \in Passed(d, K, j) <=>
              x \in Passed(d, K, j - 1) \/ (x = j - 1 /\ x \in Full(d) /\ d.items[x].k \notin K)
  <2> CASE x \in Full(d)
    <3>1. x < j <=> x < j - 1 \/ x = j - 1
      BY <1>3
    <3> QED
      BY <3>1 DEF Passed
  <2>2. CASE x \notin Full(d)
    BY <2>2 DEF Passed
  <2> QED
    BY <2>2
<1>8. \A j \in 1 .. n : j - 1 \notin Passed(d, K, j - 1)
  BY <1>4 DEF Passed
<1> QED
  BY <1>5, <1>6, <1>7, <1>8

\* A step of the loop.
IsSifted(d, e, m, K, j) ==
  /\ IsDict(e, Except(m, Dropped(d, K, j))) /\ Size(e) = Size(d)
  /\ Full(e) = Full(d) \ Passed(d, K, j) /\ \A x \in Full(e) : e.items[x].k = d.items[x].k

\* The loop of dict_intersect comes to slot j - 1.
LEMMA DropIs ==
  ASSUME NEW d, NEW m, IsDict(d, m), NEW K, NEW j \in 1 .. Size(d), NEW c, IsSifted(d, c, m, K, j - 1)
  PROVE  IsSifted(d, Drop(c, j - 1, K), m, K, j)
<1> DEFINE M == Except(m, Dropped(d, K, j - 1))
           i == j - 1
           e == Drop(c, i, K)
<1>1. Size(d) \in Nat /\ d \in Tables(Size(d)) /\ m \in Seq(Pair)
  <2>1. IsRead(d, m)
    BY DictReads
  <2> QED
    BY <2>1 DEF IsRead
<1>2. /\ \A x : x \in Passed(d, K, j) <=>
              x \in Passed(d, K, i) \/ (x = i /\ x \in Full(d) /\ d.items[x].k \notin K)
      /\ i \notin Passed(d, K, i)
  BY <1>1, PassedIs
<1>3. /\ IsDict(c, M) /\ Size(c) = Size(d) /\ Full(c) = Full(d) \ Passed(d, K, i)
      /\ \A x \in Full(c) : c.items[x].k = d.items[x].k
  BY DEF IsSifted
<1> HIDE DEF M, i
<1>4. \A x : Occupied(c, x) <=> x \in Full(c)
  <2>1. IsRead(c, M)
    BY <1>3, DictReads
  <2> QED
    BY <2>1 DEF IsRead
<1>5. i \in Full(c) <=> i \in Full(d)
  BY <1>2, <1>3
<1>6. CASE i \in Full(c) /\ d.items[i].k \notin K
  <2>1. c.items[i].k = d.items[i].k /\ e = Delete(c, i)
    BY <1>3, <1>4, <1>6 DEF Drop
  <2>2. IsGone(c, e, M, i)
    BY <2>1, <1>3, <1>6, DeleteAny
  <2> HIDE DEF e
  <2>3. /\ IsDict(e, Except(M, {d.items[i].k})) /\ Size(e) = Size(c)
        /\ Full(e) = Full(c) \ {i} /\ \A x \in Full(e) : e.items[x].k = c.items[x].k
    BY <2>1, <2>2 DEF IsGone
  <2>4. \A x : x \in Passed(d, K, j) <=> x \in Passed(d, K, i) \/ x = i
    BY <1>2, <1>5, <1>6
  <2>5. Dropped(d, K, j) = Dropped(d, K, i) \cup {d.items[i].k}
    <3>1. \A k : k \in Dropped(d, K, j) <=> \E x : x \in Passed(d, K, j) /\ k = d.items[x].k
      BY DEF Dropped
    <3>2. \A k : k \in Dropped(d, K, i) <=> \E x : x \in Passed(d, K, i) /\ k = d.items[x].k
      BY DEF Dropped
    <3>3. \A k : k \in Dropped(d, K, j) <=> k \in Dropped(d, K, i) \/ k = d.items[i].k
      BY <3>1, <3>2, <2>4
    <3> QED
      BY <3>3
  <2>6. Except(M, {d.items[i].k}) = Except(m, Dropped(d, K, j))
    <3>1. \A A, B : Except(Except(m, A), B) = Except(m, A \cup B)
      BY <1>1, ExceptTwice
    <3>2. Except(M, {d.items[i].k}) = Except(m, Dropped(d, K, i) \cup {d.items[i].k})
      BY <3>1 DEF M, i
    <3> QED
      BY <3>2, <2>5
  <2>7. Full(e) = Full(d) \ Passed(d, K, j)
    <3>1. \A x : x \in Full(e) <=> x \in Full(d) /\ x \notin Passed(d, K, j)
      BY <2>3, <2>4, <1>3
    <3> QED
      BY <3>1
  <2>8. \A x \in Full(e) : e.items[x].k = d.items[x].k
    BY <2>3, <1>3
  <2>9. IsDict(e, Except(m, Dropped(d, K, j))) /\ Size(e) = Size(d)
    BY <2>3, <2>6, <1>3
  <2> QED
    BY <2>7, <2>8, <2>9 DEF IsSifted, e, i
<1>7. CASE ~ (i \in Full(c) /\ d.items[i].k \notin K)
  <2>1. e = c
    BY <1>3, <1>4, <1>7 DEF Drop
  <2>2. \A x : x \in Passed(d, K, j) <=> x \in Passed(d, K, i)
    BY <1>2, <1>5, <1>7
  <2>3. Passed(d, K, j) = Passed(d, K, i)
    BY <2>2
  <2>4. Dropped(d, K, j) = Dropped(d, K, i)
    BY <2>3 DEF Dropped
  <2> HIDE DEF e
  <2>5. IsSifted(d, c, m, K, i)
    BY DEF i
  <2>6. IsSifted(d, e, m, K, j)
    BY <2>1, <2>3, <2>4, <2>5 DEF IsSifted
  <2> QED
    BY <2>6 DEF e, i
<1> QED
  BY <1>6, <1>7

\* The loop of dict_intersect.
LEMMA KeepKeysIs ==
  ASSUME NEW d, NEW m, IsDict(d, m), NEW K
  PROVE  IsDict(KeepKeys(d, K), Only(m, K)) /\ Size(KeepKeys(d, K)) = Size(d)
<1> DEFINE L == Size(d)
           S == [j \in 0 .. L |-> {t \in AnyTable : IsSifted(d, t, m, K, j)}]
           Next1(c, j) == Drop(c, j - 1, K)
           g == [p \in (1 .. L) \X AnyTable |-> Next1(p[2], p[1])]
           Solves(f) == f = [j \in 0 .. L |-> IF j = 0 THEN d ELSE Next1(f[j - 1], j)]
           after == CHOOSE f : Solves(f)
<1>1. KeepKeys(d, K) = after[L]
  BY SMT DEF KeepKeys
<1> HIDE DEF after
<1>2. /\ L \in Nat /\ d \in Tables(L) /\ m \in Seq(Pair)
      /\ \A k : k \in KeysOf(m) <=> \E x \in Full(d) : d.items[x].k = k
  <2>1. IsRead(d, m)
    BY DictReads
  <2> QED
    BY <2>1 DEF IsRead
<1>3. /\ 0 \in 0 .. L /\ L \in 0 .. L /\ (\A j \in 0 .. L : j # 0 => j \in 1 .. L)
      /\ \A j \in 1 .. L : j \in 0 .. L /\ j - 1 \in 0 .. L /\ j # 0
  BY <1>2, SMT
<1>4. d \in S[0]
  <2>1. Passed(d, K, 0) = {}
    BY <1>2, PassedIs
  <2>2. Dropped(d, K, 0) = {}
    BY <2>1 DEF Dropped
  <2>3. Except(m, Dropped(d, K, 0)) = m
    BY <2>2, <1>2, ExceptAbsent
  <2>4. IsSifted(d, d, m, K, 0)
    BY <2>1, <2>3 DEF IsSifted
  <2>5. d \in AnyTable
    BY AnyIs
  <2> QED
    BY <2>4, <2>5, <1>3
<1>5. \A j \in 1 .. L : \A c \in S[j - 1] : Next1(c, j) \in S[j]
  <2> SUFFICES ASSUME NEW j \in 1 .. L, NEW c, c \in S[j - 1]
               PROVE  Next1(c, j) \in S[j]
    OBVIOUS
  <2>1. IsSifted(d, c, m, K, j - 1)
    BY <1>3
  <2>2. IsSifted(d, Next1(c, j), m, K, j)
    BY <2>1, DropIs
  <2>3. IsDict(Next1(c, j), Except(m, Dropped(d, K, j)))
    BY <2>2 DEF IsSifted
  <2>4. Next1(c, j) \in AnyTable
    BY <2>3, AnyIs
  <2> QED
    BY <2>2, <2>4, <1>3
<1>6. \A j \in 0 .. L : S[j] \subseteq AnyTable
  OBVIOUS
<1> HIDE DEF S, Next1, L
<1>7. \E f : Solves(f)
  <2>1. \A j \in 1 .. L : \A c \in S[j - 1] : g[<<j, c>>] = Next1(c, j)
    <3> SUFFICES ASSUME NEW j \in 1 .. L, NEW c, c \in S[j - 1]
                 PROVE  g[<<j, c>>] = Next1(c, j)
      OBVIOUS
    <3>1. c \in AnyTable
      BY <1>3, <1>6
    <3> QED
      BY <3>1
  <2> HIDE DEF g
  <2>2. \A j \in 1 .. L : \A c \in S[j - 1] : g[<<j, c>>] \in S[j]
    BY <2>1, <1>5
  <2>3. PICK f : IsLoop(f, L, d, g) /\ \A j \in 0 .. L : f[j] \in S[j]
    BY <1>2, <1>4, <2>2, LoopRuns
  <2>4. f = [j \in 0 .. L |-> IF j = 0 THEN d ELSE g[<<j, f[j - 1]>>]]
    BY <2>3 DEF IsLoop
  <2>5. \A j \in 0 .. L : j # 0 => g[<<j, f[j - 1]>>] = Next1(f[j - 1], j)
    BY <2>1, <2>3, <1>3
  <2>6. \A j \in 0 .. L : (IF j = 0 THEN d ELSE g[<<j, f[j - 1]>>])
                            = IF j = 0 THEN d ELSE Next1(f[j - 1], j)
    BY <2>5
  <2>7. Solves(f)
    BY <2>4, <2>6
  <2> QED
    BY <2>7
<1>8. Solves(after)
  BY <1>7 DEF after
<1>9. after[0] = d /\ \A j \in 1 .. L : after[j] = Next1(after[j - 1], j)
  BY <1>3, <1>8
<1>10. \A j \in 0 .. L : after[j] \in S[j]
  <2>1. after[0] \in S[0] /\ \A j \in 1 .. L : after[j - 1] \in S[j - 1] => after[j] \in S[j]
    BY <1>4, <1>5, <1>9
  <2>2. L \in Nat
    BY <1>2
  <2> QED
    BY <2>1, <2>2, LoopInvariant
<1>11. IsSifted(d, after[L], m, K, L)
  BY <1>3, <1>10 DEF S
<1>12. Dropped(d, K, L) = KeysOf(m) \ K
  <2>1. \A x \in Full(d) : x \in Passed(d, K, L) <=> d.items[x].k \notin K
    BY <1>2, PassedIs
  <2>2. \A x : x \in Passed(d, K, L) => x \in Full(d)
    BY DEF Passed
  <2>3. \A k : k \in Dropped(d, K, L) <=> k \in KeysOf(m) /\ k \notin K
    <3> SUFFICES ASSUME NEW k
                 PROVE  (\E x \in Passed(d, K, L) : k = d.items[x].k) <=> (\E x \in Full(d) : d.items[x].k = k) /\ k \notin K
      BY <1>2 DEF Dropped
    <3> QED
      BY <2>1, <2>2
  <2> QED
    BY <2>3
<1> QED
  BY <1>1, <1>11, <1>12 DEF IsSifted, Only, L

=============================================================================
