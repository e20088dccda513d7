--------------------------- MODULE ChannelProofs ----------------------------
(***************************************************************************)
(* For any threads, objects, pins and number of sends: an object is on one *)
(* allocation list at most while it is handed from thread to thread, and a *)
(* send does not miss a receiver.                                          *)
(*                                                                         *)
(* The loops of GCForget and of the sweep are recursive functions.  What   *)
(* they leave is shown by induction, in the form that a set of numbers has *)
(* a least element.                                                        *)
(***************************************************************************)
EXTENDS Channel, FiniteSetTheorems, SequenceTheorems, TLAPS

-----------------------------------------------------------------------------
(* Induction and recursion *)

\* A set of natural numbers has a least element.
LEMMA Least ==
  ASSUME NEW T \in SUBSET Nat, T # {}
  PROVE  \E x \in T : \A y \in T : x <= y
<1>1. PICK x \in T : \A y \in T : ~ (<<y, x>> \in OpToRel(<, Nat))
  BY NatLessThanWellFounded, WFMin, Zenon
<1>2. \A y \in T : ~ (y < x)
  BY <1>1 DEF OpToRel
<1>3. \A y \in T : x <= y
  BY <1>2
<1> QED
  BY <1>3, Zenon

\* What each step of a loop preserves holds to its end.
LEMMA LoopInvariant ==
  ASSUME NEW n \in Nat, NEW S, NEW f, f[0] \in S[0],
         \A i \in 1 .. n : f[i - 1] \in S[i - 1] => f[i] \in S[i]
  PROVE  \A i \in 0 .. n : f[i] \in S[i]
<1> DEFINE T == {i \in 0 .. n : f[i] \notin S[i]}
<1>1. ASSUME T # {}
      PROVE  FALSE
  <2>1. T \in SUBSET Nat
    OBVIOUS
  <2>2. PICK x \in T : \A y \in T : x <= y
    BY <1>1, <2>1, Least, Zenon
  <2>3. x \in 0 .. n /\ x # 0
    BY Zenon
  <2>4. x \in 1 .. n /\ x - 1 \in 0 .. n /\ ~ (x <= x - 1)
    BY <2>3
  <2>5. x - 1 \notin T
    BY <2>2, <2>4, Zenon
  <2>6. f[x - 1] \in S[x - 1]
    BY <2>4, <2>5, Zenon
  <2>7. f[x] \in S[x]
    BY <2>4, <2>6, Zenon
  <2> QED
    BY <2>7, Zenon
<1> QED
  BY <1>1, Zenon

\* The states f of a loop over 1 .. n that starts with a and takes a step g.
IsLoop(f, n, a, g) == f = [i \in 0 .. n |-> IF i = 0 THEN a ELSE g[<<i, f[i - 1]>>]]

\* A loop computes something: this recursive definition has a solution.
LEMMA LoopExists ==
  ASSUME NEW n \in Nat, NEW a, NEW g
  PROVE  \E f : IsLoop(f, n, a, g)
<1> DEFINE Solves(f, k) == f = [i \in 0 .. k |-> IF i = 0 THEN a ELSE g[<<i, f[i - 1]>>]]
           T == {k \in 0 .. n : ~ \E f : Solves(f, k)}
<1>1. ASSUME T # {}
      PROVE  FALSE
  <2>1. T \in SUBSET Nat
    OBVIOUS
  <2>2. PICK x \in T : \A y \in T : x <= y
    BY <1>1, <2>1, Least, Zenon
  <2>3. x \in 0 .. n
    BY Zenon
  <2>4. CASE x = 0
    <3>1. Solves([i \in 0 .. 0 |-> a], 0)
      OBVIOUS
    <3> QED
      BY <2>4, <3>1
  <2>5. CASE x # 0
    <3>1. x \in 1 .. n /\ x - 1 \in 0 .. n /\ ~ (x <= x - 1) /\ x \in Nat
      BY <2>3, <2>5
    <3>2. x - 1 \notin T
      BY <2>2, <3>1, Zenon
    <3>3. PICK f : Solves(f, x - 1)
      BY <3>1, <3>2, Zenon
    <3> DEFINE h == [i \in 0 .. x |-> IF i = x THEN g[<<x, f[x - 1]>>] ELSE f[i]]
    <3>4. \A i \in 0 .. x : i # x => i \in 0 .. x - 1
      BY <3>1
    <3>5. \A i \in 0 .. x : i # 0 => h[i - 1] = f[i - 1]
      BY <3>1
    <3>6. \A i \in 0 .. x : h[i] = IF i = 0 THEN a ELSE g[<<i, h[i - 1]>>]
      <4> SUFFICES ASSUME NEW i \in 0 .. x
                   PROVE  h[i] = IF i = 0 THEN a ELSE g[<<i, h[i - 1]>>]
        OBVIOUS
      <4>1. CASE i = x
        BY <4>1, <3>5, <2>5
      <4>2. CASE i # x
        <5>1. f[i] = IF i = 0 THEN a ELSE g[<<i, f[i - 1]>>]
          BY <4>2, <3>3, <3>4, Zenon
        <5> QED
          BY <4>2, <5>1, <3>5, Zenon
      <4> QED
        BY <4>1, <4>2, Zenon
    <3>7. h = [i \in 0 .. x |-> IF i = 0 THEN a ELSE g[<<i, h[i - 1]>>]]
      BY <3>6, Zenon
    <3>8. Solves(h, x)
      BY <3>7, Zenon
    <3> QED
      BY <3>8, Zenon
  <2> QED
    BY <2>4, <2>5, Zenon
<1>2. n \in 0 .. n
  OBVIOUS
<1> QED
  BY <1>1, <1>2, Zenon DEF IsLoop

-----------------------------------------------------------------------------
(* What GCForget and the sweep leave of a list *)

Swapped(s, i, j) == [s EXCEPT ![i] = s[j], ![j] = s[i]]

\* Exchanging two elements keeps the elements.
LEMMA SwapKeeps ==
  ASSUME NEW n \in Nat, NEW s \in [1 .. n -> Object], NEW i \in 1 .. n, NEW j \in 1 .. n
  PROVE  /\ Swapped(s, i, j) \in [1 .. n -> Object] /\ Range(Swapped(s, i, j)) = Range(s)
         /\ IsInjective(s) => IsInjective(Swapped(s, i, j))
<1> DEFINE t == Swapped(s, i, j)
<1>1. t \in [1 .. n -> Object] /\ DOMAIN t = 1 .. n /\ DOMAIN s = 1 .. n
  BY DEF Swapped
<1>2. \A k \in 1 .. n : t[k] = IF k = j THEN s[i] ELSE IF k = i THEN s[j] ELSE s[k]
  BY DEF Swapped
<1> HIDE DEF t
<1>3. \A o : (\E k \in 1 .. n : t[k] = o) <=> (\E k \in 1 .. n : s[k] = o)
  BY <1>2, Zenon
<1>4. Range(t) = Range(s)
  BY <1>1, <1>3, Zenon DEF Range
<1>5. IsInjective(s) => IsInjective(t)
  BY <1>1, <1>2 DEF IsInjective
<1> QED
  BY <1>1, <1>4, <1>5, Zenon DEF t

\* The vectors that GCForget can make of a: its elements in another order.
Vectors(a) ==
  {v \in [items : [1 .. Len(a) -> Object], count : 0 .. Len(a)] :
     Range(v.items) = Range(a) /\ (IsInjective(a) => IsInjective(v.items))}

\* A step of GCForget moves the elements of a vector about and loses none.
LEMMA ForgetAtKeeps ==
  ASSUME NEW a \in Seq(Object), NEW v \in Vectors(a), NEW i \in 1 .. Len(a), NEW m
  PROVE  ForgetAt(v, i, m) \in Vectors(a)
<1>1. /\ v \in [items : [1 .. Len(a) -> Object], count : 0 .. Len(a)]
      /\ Range(v.items) = Range(a) /\ (IsInjective(a) => IsInjective(v.items))
  BY Zenon DEF Vectors
<1>2. v.items \in [1 .. Len(a) -> Object] /\ v.count \in 0 .. Len(a) /\ Len(a) \in Nat
  BY <1>1
<1>3. CASE i <= v.count /\ v.items[i] \in m
  <2> DEFINE t == Swapped(v.items, i, v.count)
  <2>1. v.count \in 1 .. Len(a) /\ v.count - 1 \in 0 .. Len(a)
    BY <1>2, <1>3
  <2>2. /\ t \in [1 .. Len(a) -> Object] /\ Range(t) = Range(v.items)
        /\ IsInjective(v.items) => IsInjective(t)
    BY <1>2, <2>1, SwapKeeps, Zenon
  <2>3. ForgetAt(v, i, m) = [items |-> t, count |-> v.count - 1]
    BY <1>3, Zenon DEF ForgetAt, Swapped
  <2> HIDE DEF t
  <2> QED
    BY <1>1, <2>1, <2>2, <2>3 DEF Vectors
<1>4. CASE ~ (i <= v.count /\ v.items[i] \in m)
  BY <1>4, Zenon DEF ForgetAt
<1> QED
  BY <1>3, <1>4, Zenon

\* GCForget reorders the elements and cuts the vector somewhere.
LEMMA GCForgetResult ==
  ASSUME NEW a \in Seq(Object), NEW m
  PROVE  GCForget(a, m) \in Vectors(a)
<1> DEFINE n == Len(a)
           first == [items |-> a, count |-> Len(a)]
           S == [i \in 0 .. n |-> Vectors(a)]
           g == [p \in (1 .. n) \X Vectors(a) |-> ForgetAt(p[2], p[1], m)]
           Solves(f) == f = [i \in 0 .. n |-> IF i = 0 THEN first ELSE ForgetAt(f[i - 1], i, m)]
<1>1. n \in Nat /\ first \in Vectors(a)
  <2>1. a \in [1 .. Len(a) -> Object] /\ Len(a) \in Nat
    OBVIOUS
  <2> QED
    BY <2>1 DEF Vectors
<1>2. \E f : Solves(f)
  <2>0. \E f : IsLoop(f, n, first, g)
    <3> HIDE DEF n, first, g
    <3> QED
      BY <1>1, LoopExists, Zenon
  <2>1. PICK f : f = [i \in 0 .. n |-> IF i = 0 THEN first ELSE g[<<i, f[i - 1]>>]]
    BY <2>0, Zenon DEF IsLoop
  <2>2. \A i \in 1 .. n : f[i - 1] \in Vectors(a) =>
          f[i] = ForgetAt(f[i - 1], i, m) /\ f[i] \in Vectors(a)
    <3> SUFFICES ASSUME NEW i \in 1 .. n, f[i - 1] \in Vectors(a)
                 PROVE  f[i] = ForgetAt(f[i - 1], i, m) /\ f[i] \in Vectors(a)
      BY Zenon
    <3>1. i \in 0 .. n /\ i # 0
      BY <1>1
    <3>2. f[i] = g[<<i, f[i - 1]>>]
      BY <2>1, <3>1, Zenon
    <3>3. g[<<i, f[i - 1]>>] = ForgetAt(f[i - 1], i, m)
      BY Zenon
    <3> QED
      BY <3>2, <3>3, ForgetAtKeeps, Zenon
  <2>3. f[0] \in Vectors(a) /\ \A i \in 1 .. n : i - 1 \in 0 .. n /\ i \in 0 .. n
    BY <1>1, <2>1
  <2>4. \A i \in 0 .. n : f[i] \in S[i]
    <3>1. f[0] \in S[0]
      BY <1>1, <2>3
    <3>2. \A i \in 1 .. n : f[i - 1] \in S[i - 1] => f[i] \in S[i]
      BY <2>2, <2>3, Zenon
    <3> HIDE DEF n, S
    <3> QED
      BY <1>1, <3>1, <3>2, LoopInvariant, Zenon
  <2>5. \A i \in 0 .. n : f[i] = IF i = 0 THEN first ELSE ForgetAt(f[i - 1], i, m)
    <3> SUFFICES ASSUME NEW i \in 0 .. n, i # 0
                 PROVE  f[i] = ForgetAt(f[i - 1], i, m)
      BY <2>1, Zenon
    <3>1. i \in 1 .. n /\ i - 1 \in 0 .. n
      BY <1>1
    <3> QED
      BY <2>2, <2>4, <3>1, Zenon
  <2> QED
    BY <2>1, <2>5, Zenon
<1> DEFINE after == CHOOSE f : Solves(f)
<1>3. Solves(after)
  BY <1>2, Zenon
<1>4. GCForget(a, m) = after[n]
  BY DEF GCForget
<1>5. \A i \in 0 .. n : after[i] = IF i = 0 THEN first ELSE ForgetAt(after[i - 1], i, m)
  <2> HIDE DEF after
  <2> QED
    BY <1>3, Zenon
<1> HIDE DEF after
<1>6. after[0] \in S[0]
  BY <1>1, <1>5
<1>7. \A i \in 1 .. n : after[i - 1] \in S[i - 1] => after[i] \in S[i]
  <2> SUFFICES ASSUME NEW i \in 1 .. n, after[i - 1] \in S[i - 1]
               PROVE  after[i] \in S[i]
    BY Zenon
  <2>1. i \in 0 .. n /\ i # 0 /\ i - 1 \in 0 .. n
    BY <1>1
  <2> QED
    BY <1>5, <2>1, ForgetAtKeeps, Zenon
<1>8. n \in 0 .. n /\ S[n] = Vectors(a)
  BY <1>1
<1> HIDE DEF n, S
<1> QED
  BY <1>1, <1>4, <1>6, <1>7, <1>8, LoopInvariant, Zenon

\* What the sweep has kept of the first i elements of a.
Sifted(a, K, i) ==
  {s \in Seq(Object) : IsInjective(s) /\ Range(s) = {a[j] : j \in 1 .. i} \cap K}

\* One step of the sweep.
SweepAt(a, K, s, i) == IF a[i] \in K THEN Append(s, a[i]) ELSE s

\* A step of the sweep keeps the element if it is in K.
LEMMA SweepAtSifts ==
  ASSUME NEW a \in Seq(Object), IsInjective(a), NEW K, NEW i \in 1 .. Len(a),
         NEW s \in Sifted(a, K, i - 1)
  PROVE  SweepAt(a, K, s, i) \in Sifted(a, K, i)
<1>1. /\ s \in Seq(Object) /\ IsInjective(s) /\ Range(s) = {a[j] : j \in 1 .. i - 1} \cap K
      /\ i \in Nat /\ Len(a) \in Nat /\ a[i] \in Object /\ DOMAIN a = 1 .. Len(a)
  BY DEF Sifted
<1>2. \A j : j \in 1 .. i <=> (j \in 1 .. i - 1 \/ j = i)
  BY <1>1
<1>3. a[i] \notin {a[j] : j \in 1 .. i - 1}
  <2>1. \A j \in 1 .. i - 1 : j \in 1 .. Len(a) /\ j # i
    BY <1>1
  <2> QED
    BY <1>1, <2>1, Zenon DEF IsInjective
<1>4. {a[j] : j \in 1 .. i} = {a[j] : j \in 1 .. i - 1} \cup {a[i]}
  BY <1>2, Zenon
<1>5. CASE a[i] \in K
  <2> DEFINE r == Append(s, a[i])
  <2>1. /\ r \in Seq(Object) /\ Len(s) \in Nat /\ DOMAIN s = 1 .. Len(s)
        /\ DOMAIN r = 1 .. Len(s) + 1
        /\ \A k \in 1 .. Len(s) : r[k] = s[k]
        /\ r[Len(s) + 1] = a[i]
    BY <1>1
  <2>2. \A k : k \in DOMAIN r <=> (k \in DOMAIN s \/ k = Len(s) + 1)
    BY <2>1
  <2>3. Range(r) = Range(s) \cup {a[i]}
    <3> HIDE DEF r
    <3> QED
      BY <2>1, <2>2, Zenon DEF Range
  <2>4. a[i] \notin Range(s)
    BY <1>1, <1>3, Zenon
  <2>5. \A k \in DOMAIN s : r[k] = s[k] /\ s[k] # a[i]
    BY <2>1, <2>4, Zenon DEF Range
  <2>6. IsInjective(r)
    <3> HIDE DEF r
    <3> SUFFICES ASSUME NEW x \in DOMAIN r, NEW y \in DOMAIN r, r[x] = r[y]
                 PROVE  x = y
      BY Zenon DEF IsInjective
    <3>1. \A j, k \in DOMAIN s : s[j] = s[k] => j = k
      BY <1>1, Zenon DEF IsInjective
    <3>2. r[Len(s) + 1] = a[i]
      BY <2>1, Zenon
    <3>3. (x \in DOMAIN s \/ x = Len(s) + 1) /\ (y \in DOMAIN s \/ y = Len(s) + 1)
      BY <2>2, Zenon
    <3> QED
      BY <2>5, <3>1, <3>2, <3>3, Zenon
  <2>7. Range(r) = {a[j] : j \in 1 .. i} \cap K
    <3> HIDE DEF r
    <3> QED
      BY <1>1, <1>4, <1>5, <2>3, Zenon
  <2>8. SweepAt(a, K, s, i) = r
    BY <1>5, Zenon DEF SweepAt
  <2> HIDE DEF r
  <2> QED
    BY <2>1, <2>6, <2>7, <2>8, Zenon DEF Sifted
<1>6. CASE a[i] \notin K
  <2>1. {a[j] : j \in 1 .. i} \cap K = {a[j] : j \in 1 .. i - 1} \cap K
    BY <1>4, <1>6, Zenon
  <2> QED
    BY <1>1, <1>6, <2>1, Zenon DEF SweepAt, Sifted
<1> QED
  BY <1>5, <1>6, Zenon

\* The sweep keeps the elements of a that are in K, each once.
LEMMA GCSweepResult ==
  ASSUME NEW a \in Seq(Object), IsInjective(a), NEW K
  PROVE  /\ GCSweep(a, K) \in Seq(Object) /\ IsInjective(GCSweep(a, K))
         /\ Range(GCSweep(a, K)) = Range(a) \cap K
<1> DEFINE n == Len(a)
           S == [i \in 0 .. n |-> Sifted(a, K, i)]
           g == [p \in (1 .. n) \X Seq(Object) |-> SweepAt(a, K, p[2], p[1])]
           Solves(f) == f = [i \in 0 .. n |->
                               IF i = 0 THEN <<>> ELSE
                               IF a[i] \in K THEN Append(f[i - 1], a[i]) ELSE f[i - 1]]
<1>1. n \in Nat /\ <<>> \in S[0] /\ n \in 0 .. n /\ S[n] = Sifted(a, K, n)
  <2>1. n \in Nat /\ n \in 0 .. n /\ 0 \in 0 .. n /\ 1 .. 0 = {} /\ <<>> \in Seq(Object)
    OBVIOUS
  <2>2. DOMAIN <<>> = {}
    OBVIOUS
  <2>3. IsInjective(<<>>) /\ Range(<<>>) = {}
    BY <2>2, Zenon DEF IsInjective, Range
  <2>4. {a[j] : j \in 1 .. 0} \cap K = {}
    BY <2>1, Zenon
  <2>5. <<>> \in Sifted(a, K, 0)
    BY <2>1, <2>3, <2>4, Zenon DEF Sifted
  <2> QED
    BY <2>1, <2>5, Zenon
<1>2. \A i \in 1 .. n : i \in 0 .. n /\ i # 0 /\ i - 1 \in 0 .. n
  BY <1>1
<1>3. \A i \in 1 .. n : \A s \in S[i - 1] : s \in Seq(Object) /\ SweepAt(a, K, s, i) \in S[i]
  <2> SUFFICES ASSUME NEW i \in 1 .. n, NEW s \in S[i - 1]
               PROVE  s \in Seq(Object) /\ SweepAt(a, K, s, i) \in S[i]
    BY Zenon
  <2>1. s \in Sifted(a, K, i - 1)
    BY <1>2, Zenon
  <2>2. s \in Seq(Object)
    BY <2>1, Zenon DEF Sifted
  <2> QED
    BY <1>2, <2>1, <2>2, SweepAtSifts, Zenon
<1>4. \E f : Solves(f)
  <2>0. \E f : IsLoop(f, n, <<>>, g)
    <3> HIDE DEF n, g
    <3> QED
      BY <1>1, LoopExists, Zenon
  <2>1. PICK f : f = [i \in 0 .. n |-> IF i = 0 THEN <<>> ELSE g[<<i, f[i - 1]>>]]
    BY <2>0, Zenon DEF IsLoop
  <2>2. \A i \in 1 .. n : f[i] = g[<<i, f[i - 1]>>]
    BY <1>2, <2>1, Zenon
  <2>3. \A i \in 1 .. n : f[i - 1] \in Seq(Object) => f[i] = SweepAt(a, K, f[i - 1], i)
    BY <2>2, Zenon
  <2>4. \A i \in 0 .. n : f[i] \in S[i]
    <3>1. f[0] = <<>>
      BY <1>1, <2>1
    <3>2. f[0] \in S[0]
      BY <1>1, <3>1, Zenon
    <3>3. \A i \in 1 .. n : f[i - 1] \in S[i - 1] => f[i] \in S[i]
      BY <1>3, <2>3, Zenon
    <3> HIDE DEF n, S
    <3> QED
      BY <1>1, <3>2, <3>3, LoopInvariant, Zenon
  <2>5. \A i \in 1 .. n : f[i] = IF a[i] \in K THEN Append(f[i - 1], a[i]) ELSE f[i - 1]
    BY <1>2, <1>3, <2>3, <2>4, Zenon DEF SweepAt
  <2>6. \A i \in 0 .. n : i # 0 => i \in 1 .. n
    BY <1>1
  <2>7. \A i \in 0 .. n : f[i] = IF i = 0 THEN <<>> ELSE
                                IF a[i] \in K THEN Append(f[i - 1], a[i]) ELSE f[i - 1]
    BY <2>1, <2>5, <2>6, Zenon
  <2>8. f = [i \in 0 .. n |-> f[i]]
    BY <2>1, Zenon
  <2>9. Solves(f)
    BY <2>7, <2>8, Zenon
  <2> QED
    BY <2>9, Zenon
<1> DEFINE kept == CHOOSE f : Solves(f)
<1>5. Solves(kept)
  BY <1>4, Zenon
<1>6. GCSweep(a, K) = kept[n]
  BY DEF GCSweep
<1> HIDE DEF kept
<1>7. kept[0] = <<>> /\ \A i \in 1 .. n : kept[i] = SweepAt(a, K, kept[i - 1], i)
  <2>1. 0 \in 0 .. n
    BY <1>1
  <2> QED
    BY <1>2, <1>5, <2>1, Zenon DEF SweepAt
<1>8. \A i \in 1 .. n : kept[i - 1] \in S[i - 1] => kept[i] \in S[i]
  BY <1>3, <1>7, Zenon
<1>9. kept[n] \in S[n]
  <2> HIDE DEF n, S
  <2> QED
    BY <1>1, <1>7, <1>8, LoopInvariant, Zenon
<1>10. {a[j] : j \in 1 .. n} = Range(a)
  <2>1. DOMAIN a = 1 .. n
    OBVIOUS
  <2> QED
    BY <2>1, Zenon DEF Range
<1> QED
  BY <1>1, <1>6, <1>9, <1>10, Zenon DEF Sifted

-----------------------------------------------------------------------------
(* Lists that share no object *)

\* The lists after a step are apart when each one takes its objects from lists
\* that no other one takes from.
LEMMA ApartMoves ==
  ASSUME NEW L, NEW M, NEW F, Apart(L, F), NEW src,
         \A l \in DOMAIN M : /\ IsInjective(M[l]) /\ src[l] \subseteq DOMAIN L
                             /\ \A o \in Range(M[l]) : \E k \in src[l] : o \in Range(L[k]),
         \A l, k \in DOMAIN M :
           l # k => src[l] \cap src[k] = {} \/ Range(M[l]) \cap Range(M[k]) = {}
  PROVE  Apart(M, F)
<1>1. ASSUME NEW l \in DOMAIN M
      PROVE  IsInjective(M[l]) /\ Range(M[l]) \cap F = {}
  BY <1>1, Zenon DEF Apart
<1>2. ASSUME NEW l \in DOMAIN M, NEW k \in DOMAIN M, l # k
      PROVE  Range(M[l]) \cap Range(M[k]) = {}
  <2>1. SUFFICES ASSUME src[l] \cap src[k] = {}, NEW o \in Range(M[l]), o \in Range(M[k])
                 PROVE  FALSE
    BY <1>2, Zenon
  <2>2. PICK x \in src[l] : o \in Range(L[x])
    BY Zenon
  <2>3. PICK y \in src[k] : o \in Range(L[y])
    BY <2>1, Zenon
  <2>4. x # y /\ x \in DOMAIN L /\ y \in DOMAIN L
    BY <2>1, Zenon
  <2> QED
    BY <2>2, <2>3, <2>4, Zenon DEF Apart
<1> QED
  BY <1>1, <1>2, Zenon DEF Apart

\* One list changes: its objects are its own or were nobody's, and what it gives
\* up may be freed.
LEMMA ApartChanges ==
  ASSUME NEW L, NEW M, NEW F, NEW G, Apart(L, F), NEW a \in DOMAIN L,
         DOMAIN M = DOMAIN L, \A l \in DOMAIN L : l # a => M[l] = L[l],
         IsInjective(M[a]),
         \A o \in Range(M[a]) :
           o \in Range(L[a]) \/ (o \notin F /\ \A l \in DOMAIN L : o \notin Range(L[l])),
         \A o \in G : o \notin Range(M[a]) /\ (o \in F \/ o \in Range(L[a]))
  PROVE  Apart(M, G)
<1>1. ASSUME NEW l \in DOMAIN M
      PROVE  IsInjective(M[l]) /\ Range(M[l]) \cap G = {}
  <2>1. CASE l = a
    BY <2>1, Zenon
  <2>2. CASE l # a
    BY <1>1, <2>2, Zenon DEF Apart
  <2> QED
    BY <2>1, <2>2, Zenon
<1>2. ASSUME NEW l \in DOMAIN M, NEW k \in DOMAIN M, l # k
      PROVE  Range(M[l]) \cap Range(M[k]) = {}
  <2>1. CASE l # a /\ k # a
    BY <1>2, <2>1, Zenon DEF Apart
  <2>2. CASE l = a
    BY <1>2, <2>2, Zenon DEF Apart
  <2>3. CASE k = a
    BY <1>2, <2>3, Zenon DEF Apart
  <2> QED
    BY <2>1, <2>2, <2>3, Zenon
<1> QED
  BY <1>1, <1>2, Zenon DEF Apart

\* The lists by name.
LEMMA ListsAre ==
  /\ \A l : l \in DOMAIN Lists <=>
           \/ \E t \in Thread : l = <<"allocs", t>> \/ l = <<"cv", t>>
           \/ \E i \in DOMAIN q : l = <<"q", i>>
  /\ \A t \in Thread : Lists[<<"allocs", t>>] = allocs[t] /\ Lists[<<"cv", t>>] = cv[t].as
  /\ \A i \in DOMAIN q : Lists[<<"q", i>>] = q[i].as
<1> DEFINE D == ({"allocs", "cv"} \X Thread) \cup ({"q"} \X DOMAIN q)
<1>1. DOMAIN Lists = D
  BY Zenon DEF Lists
<1>2. \A l : l \in D <=> \/ \E t \in Thread : l = <<"allocs", t>> \/ l = <<"cv", t>>
                        \/ \E i \in DOMAIN q : l = <<"q", i>>
  OBVIOUS
<1>3. \A t \in Thread : Lists[<<"allocs", t>>] = allocs[t] /\ Lists[<<"cv", t>>] = cv[t].as
  BY DEF Lists
<1>4. \A i \in DOMAIN q : Lists[<<"q", i>>] = q[i].as
  BY DEF Lists
<1> QED
  BY <1>1, <1>2, <1>3, <1>4, Zenon

\* The same after a step.
LEMMA ListsAreNext ==
  /\ \A l : l \in DOMAIN Lists' <=>
           \/ \E t \in Thread : l = <<"allocs", t>> \/ l = <<"cv", t>>
           \/ \E i \in DOMAIN q' : l = <<"q", i>>
  /\ \A t \in Thread : Lists'[<<"allocs", t>>] = allocs'[t] /\ Lists'[<<"cv", t>>] = cv'[t].as
  /\ \A i \in DOMAIN q' : Lists'[<<"q", i>>] = q'[i].as
<1> DEFINE D == ({"allocs", "cv"} \X Thread) \cup ({"q"} \X DOMAIN q')
<1>1. DOMAIN Lists' = D
  BY Zenon DEF Lists
<1>2. \A l : l \in D <=> \/ \E t \in Thread : l = <<"allocs", t>> \/ l = <<"cv", t>>
                        \/ \E i \in DOMAIN q' : l = <<"q", i>>
  OBVIOUS
<1>3. \A t \in Thread : Lists'[<<"allocs", t>>] = allocs'[t] /\ Lists'[<<"cv", t>>] = cv'[t].as
  BY DEF Lists
<1>4. \A i \in DOMAIN q' : Lists'[<<"q", i>>] = q'[i].as
  BY DEF Lists
<1> QED
  BY <1>1, <1>2, <1>3, <1>4, Zenon

-----------------------------------------------------------------------------
(* The invariant *)

\* What is sent is an object: NoValue is in no message.
ValuesSent == /\ \A i \in 1 .. Len(q) : q[i].v \in Object
              /\ \A t \in Thread : at[t] = "push" => cv[t].v \in Object

ChanInv == OwnedOnce /\ ValuesSent /\ SendWakesReceiver

-----------------------------------------------------------------------------
(* Types *)

\* A traversal finds objects only.
LEMMA ReachTyped == \A S, X : Reach(S, X) \subseteq Object
BY Zenon DEF Reach

\* What Forget does to the lists of the sender and of its message.
LEMMA ForgetLists ==
  ASSUME ChannelTypeOK, NEW t \in Thread, NEW v \in roots[t], Forget(t, v)
  PROVE  \E as, rest :
           /\ as \in Seq(Object) /\ rest \in Seq(Object)
           /\ allocs' = [allocs EXCEPT ![t] = rest]
           /\ cv'[t].as = as /\ cv'[t].v = v /\ cv'[t].parts \subseteq Object
           /\ cv' = [cv EXCEPT ![t] = cv'[t]] /\ cv'[t] \in ChanVal
           /\ marked' \subseteq Object
           /\ Range(as) \subseteq Range(allocs[t]) /\ Range(rest) \subseteq Range(allocs[t])
           /\ IsInjective(allocs[t]) =>
                IsInjective(as) /\ IsInjective(rest) /\ Range(as) \cap Range(rest) = {}
<1> DEFINE a == allocs[t]
           m == marked \cup Reach({v}, marked)
           r == GCForget(a, m \cup hard)
           as == SubSeq(r.items, r.count + 1, Len(r.items))
           rest == SubSeq(r.items, 1, r.count)
           whole == Reach({v}, {})
           parts == IF whole \subseteq Range(a) THEN whole ELSE {}
           val == [v |-> v, as |-> as, parts |-> parts]
<1>1. a \in Seq(Object) /\ marked \subseteq Object /\ v \in Object
      /\ allocs \in [Thread -> Seq(Object)] /\ cv \in [Thread -> ChanVal]
  BY Zenon DEF ChannelTypeOK
<1>2. allocs' = [allocs EXCEPT ![t] = rest] /\ marked' = m \ Range(as)
      /\ cv' = [cv EXCEPT ![t] = val]
  BY Zenon DEF Forget
<1>3. r \in Vectors(a)
  BY <1>1, GCForgetResult, Zenon
<1>4. m \subseteq Object /\ parts \subseteq Object
  BY <1>1, ReachTyped, Zenon
<1>5. marked' \subseteq Object
  <2> HIDE DEF m, as
  <2> QED
    BY <1>2, <1>4, Zenon
<1> HIDE DEF r, parts
<1>6. /\ r.items \in [1 .. Len(a) -> Object] /\ r.count \in 0 .. Len(a) /\ Len(a) \in Nat
      /\ Range(r.items) = Range(a) /\ (IsInjective(a) => IsInjective(r.items))
  BY <1>1, <1>3 DEF Vectors
<1>7. r.items \in Seq(Object) /\ Len(r.items) = Len(a) /\ r.count \in Nat /\ r.count <= Len(a)
      /\ DOMAIN r.items = 1 .. Len(a)
  BY <1>6
<1>8. /\ rest \in Seq(Object) /\ DOMAIN rest = 1 .. r.count
      /\ \A k \in 1 .. r.count : rest[k] = r.items[k] /\ k \in 1 .. Len(a)
  BY <1>7
<1>9. /\ as \in Seq(Object) /\ DOMAIN as = 1 .. Len(a) - r.count
      /\ \A k \in 1 .. Len(a) - r.count :
           as[k] = r.items[r.count + k] /\ r.count + k \in 1 .. Len(a)
  <2>1. r.count + 1 \in Nat /\ Len(r.items) - (r.count + 1) + 1 = Len(a) - r.count
    BY <1>7
  <2>2. /\ as \in Seq(Object)
        /\ Len(as) = IF r.count + 1 <= Len(r.items) THEN Len(r.items) - (r.count + 1) + 1 ELSE 0
        /\ \A k \in 1 .. Len(r.items) - (r.count + 1) + 1 :
             as[k] = r.items[(r.count + 1) + k - 1]
    <3>1. r.count + 1 \in Int /\ Len(r.items) \in Int
          /\ \A k \in r.count + 1 .. Len(r.items) : r.items[k] \in Object
      BY <1>6, <1>7
    <3> QED
      BY <3>1, SubSeqProperties
  <2>4. Len(as) = Len(a) - r.count /\ DOMAIN as = 1 .. Len(as)
    BY <1>7, <2>2
  <2>3. \A k \in 1 .. Len(a) - r.count :
          (r.count + 1) + k - 1 = r.count + k /\ r.count + k \in 1 .. Len(a)
    BY <1>7
  <2> QED
    BY <2>1, <2>2, <2>3, <2>4, Zenon
<1>10. val \in ChanVal /\ val.as = as /\ val.v = v /\ val.parts = parts
  BY <1>1, <1>4, <1>9 DEF ChanVal
<1> HIDE DEF as, rest, val
<1>11. cv'[t] = val
  BY <1>1, <1>2, Zenon
<1>12. Range(as) \subseteq Range(a) /\ Range(rest) \subseteq Range(a)
  <2>1. \A k \in 1 .. Len(a) : r.items[k] \in Range(a)
    BY <1>6, <1>7, Zenon DEF Range
  <2>2. \A k \in DOMAIN as : as[k] \in Range(a)
    BY <1>9, <2>1, Zenon
  <2>3. \A k \in DOMAIN rest : rest[k] \in Range(a)
    BY <1>8, <2>1, Zenon
  <2> QED
    BY <2>2, <2>3 DEF Range
<1>13. ASSUME IsInjective(a)
       PROVE  IsInjective(as) /\ IsInjective(rest) /\ Range(as) \cap Range(rest) = {}
  <2>1. \A k, j \in 1 .. Len(a) : r.items[k] = r.items[j] => k = j
    BY <1>6, <1>7, <1>13, Zenon DEF IsInjective
  <2>2. IsInjective(rest)
    BY <1>8, <2>1, Zenon DEF IsInjective
  <2>3. \A k, j \in 1 .. Len(a) - r.count : r.count + k = r.count + j => k = j
    BY <1>7
  <2>4. IsInjective(as)
    BY <1>9, <2>1, <2>3, Zenon DEF IsInjective
  <2>5. \A k \in 1 .. Len(a) - r.count, j \in 1 .. r.count : r.count + k # j
    BY <1>7
  <2>6. \A k \in 1 .. Len(a) - r.count, j \in 1 .. r.count : as[k] # rest[j]
    BY <1>8, <1>9, <2>1, <2>5, Zenon
  <2>7. Range(as) \cap Range(rest) = {}
    <3>1. \A k \in DOMAIN as, j \in DOMAIN rest : as[k] # rest[j]
      BY <1>8, <1>9, <2>6, Zenon
    <3> QED
      BY <3>1 DEF Range
  <2> QED
    BY <2>2, <2>4, <2>7, Zenon
<1> QED
  BY <1>2, <1>4, <1>5, <1>8, <1>9, <1>10, <1>11, <1>12, <1>13, Zenon

\* The program: allocation, load, store, drop and collection.
LEMMA ProgramTyped ==
  ASSUME OwnedOnce, ValuesSent, NEW t \in Thread, Program(t)
  PROVE  ChannelTypeOK' /\ ValuesSent'
<1>1. /\ roots \in [Thread -> SUBSET Object] /\ field \in [Object -> Object \cup {NoObject}]
      /\ allocs \in [Thread -> Seq(Object)]
      /\ marked \subseteq Object /\ freed \subseteq Object /\ hard \subseteq Object
  BY Zenon DEF OwnedOnce, ChannelTypeOK
<1>2. UNCHANGED <<q, open, at, cv, sends, holder>>
  BY Zenon DEF Program, chanVars
<1>3. SUFFICES /\ roots' \in [Thread -> SUBSET Object]
               /\ field' \in [Object -> Object \cup {NoObject}]
               /\ allocs' \in [Thread -> Seq(Object)]
               /\ marked' \subseteq Object /\ freed' \subseteq Object /\ hard' \subseteq Object
  <2>1. ValuesSent'
    BY <1>2, Zenon DEF ValuesSent
  <2>2. ASSUME roots' \in [Thread -> SUBSET Object],
               field' \in [Object -> Object \cup {NoObject}],
               allocs' \in [Thread -> Seq(Object)],
               marked' \subseteq Object, freed' \subseteq Object, hard' \subseteq Object
        PROVE  ChannelTypeOK'
    BY <1>2, <2>2, Zenon DEF OwnedOnce, ChannelTypeOK
  <2> QED
    BY <2>1, <2>2, Zenon
<1>4. CASE Alloc(t)
  <2>1. PICK o \in Object : /\ allocs' = [allocs EXCEPT ![t] = Append(@, o)]
                            /\ roots' = [roots EXCEPT ![t] = @ \cup {o}]
                            /\ UNCHANGED <<field, marked, freed, hard>>
    BY <1>4, Zenon DEF Alloc
  <2>2. Append(allocs[t], o) \in Seq(Object) /\ roots[t] \cup {o} \in SUBSET Object
    BY <1>1
  <2> QED
    BY <1>1, <2>1, <2>2
<1>5. CASE Load(t)
  <2>1. PICK x \in roots[t] : /\ field[x] # NoObject
                              /\ roots' = [roots EXCEPT ![t] = @ \cup {field[x]}]
                              /\ UNCHANGED <<field, allocs, marked, freed, hard>>
    BY <1>5, Zenon DEF Load
  <2>2. roots[t] \cup {field[x]} \in SUBSET Object
    BY <1>1, <2>1
  <2> QED
    BY <1>1, <2>1, <2>2
<1>6. CASE Store(t)
  <2>1. PICK x \in roots[t], v \in roots[t] \cup {NoObject} :
          /\ field' = [field EXCEPT ![x] = v]
          /\ UNCHANGED <<roots, allocs, marked, freed, hard>>
    BY <1>6, Zenon DEF Store
  <2>2. v \in Object \cup {NoObject}
    BY <1>1, <2>1
  <2> QED
    BY <1>1, <2>1, <2>2
<1>7. CASE Drop(t)
  <2>1. PICK x \in roots[t] : /\ roots' = [roots EXCEPT ![t] = @ \ {x}]
                              /\ UNCHANGED <<field, allocs, marked, freed, hard>>
    BY <1>7, Zenon DEF Drop
  <2>2. roots[t] \ {x} \in SUBSET Object
    BY <1>1, <2>1
  <2> QED
    BY <1>1, <2>1, <2>2
<1>8. CASE DoGC(t)
  <2> DEFINE alive == marked \cup Reach(roots[t], marked)
             kept == GCSweep(allocs[t], alive \cup hard)
  <2>1. /\ allocs' = [allocs EXCEPT ![t] = kept]
        /\ freed' = freed \cup (Range(allocs[t]) \ (alive \cup hard))
        /\ marked' = alive \ Range(allocs[t])
        /\ UNCHANGED <<roots, field, hard>>
    BY <1>8, Zenon DEF DoGC
  <2>2. alive \subseteq Object /\ Range(allocs[t]) \subseteq Object /\ allocs[t] \in Seq(Object)
    <3>1. alive \subseteq Object
      BY <1>1, ReachTyped, Zenon
    <3>2. allocs[t] \in Seq(Object)
      BY <1>1, Zenon
    <3> QED
      BY <3>1, <3>2 DEF Range
  <2>3. IsInjective(allocs[t])
    BY ListsAre, Zenon DEF OwnedOnce, Apart
  <2>4. kept \in Seq(Object)
    BY <2>2, <2>3, GCSweepResult, Zenon
  <2> HIDE DEF alive, kept
  <2>5. marked' \subseteq Object /\ freed' \subseteq Object
    BY <1>1, <2>1, <2>2, Zenon
  <2> QED
    BY <1>1, <2>1, <2>4, <2>5
<1> QED
  BY <1>4, <1>5, <1>6, <1>7, <1>8, Zenon DEF Program

\* send, up to the mutex.
LEMMA SendTyped ==
  ASSUME OwnedOnce, ValuesSent, NEW t \in Thread, Send(t)
  PROVE  ChannelTypeOK' /\ ValuesSent'
<1>1. /\ roots \in [Thread -> SUBSET Object] /\ allocs \in [Thread -> Seq(Object)]
      /\ cv \in [Thread -> ChanVal] /\ sends \in 0 .. MaxSends /\ MaxSends \in Nat
      /\ at \in [Thread -> {"run", "push", "signal", "recv", "waiting", "late"}]
      /\ ChannelTypeOK
  BY ChannelAssumption, Zenon DEF OwnedOnce, ChannelTypeOK
<1>2. PICK v \in roots[t] : Forget(t, v)
  BY Zenon DEF Send
<1>3. PICK as, rest : /\ rest \in Seq(Object) /\ allocs' = [allocs EXCEPT ![t] = rest]
                      /\ cv'[t].v = v /\ cv' = [cv EXCEPT ![t] = cv'[t]] /\ cv'[t] \in ChanVal
                      /\ marked' \subseteq Object
  BY <1>1, <1>2, ForgetLists, Zenon
<1>4. /\ sends < MaxSends /\ sends' = sends + 1 /\ at' = [at EXCEPT ![t] = "push"]
      /\ UNCHANGED <<roots, field, freed, hard, q, open, holder>>
  BY Zenon DEF Send
<1>5. sends' \in 0 .. MaxSends
  BY <1>1, <1>4
<1>6. at' \in [Thread -> {"run", "push", "signal", "recv", "waiting", "late"}]
  BY <1>1, <1>4
<1>7. allocs' \in [Thread -> Seq(Object)]
  BY <1>1, <1>3
<1>8. cv' \in [Thread -> ChanVal]
  <2> DEFINE x == cv'[t]
  <2>1. cv' = [cv EXCEPT ![t] = x] /\ x \in ChanVal
    BY <1>3, Zenon
  <2> HIDE DEF x
  <2> QED
    BY <1>1, <2>1
<1>9. ChannelTypeOK'
  BY <1>1, <1>3, <1>4, <1>5, <1>6, <1>7, <1>8, Zenon DEF ChannelTypeOK
<1>10. ASSUME NEW u \in Thread, at'[u] = "push"
       PROVE  cv'[u].v \in Object
  <2>1. CASE u = t
    BY <1>1, <1>3, <2>1, Zenon
  <2>2. CASE u # t
    <3>1. at'[u] = at[u]
      BY <1>1, <1>4, <2>2, Zenon
    <3>2. cv'[u] = cv[u]
      BY <1>1, <1>3, <2>2, Zenon
    <3> QED
      BY <1>10, <3>1, <3>2, Zenon DEF ValuesSent
  <2> QED
    BY <2>1, <2>2, Zenon
<1> QED
  BY <1>4, <1>9, <1>10, Zenon DEF ValuesSent

\* The push of a value under the mutex.
LEMMA PushTyped ==
  ASSUME OwnedOnce, ValuesSent, NEW t \in Thread, Push(t)
  PROVE  ChannelTypeOK' /\ ValuesSent'
<1>1. /\ q \in Seq(ChanVal) /\ cv \in [Thread -> ChanVal] /\ cv[t].v \in Object
      /\ at \in [Thread -> {"run", "push", "signal", "recv", "waiting", "late"}]
  BY Zenon DEF OwnedOnce, ChannelTypeOK, ValuesSent, Push
<1>2. /\ q' = Append(q, cv[t]) /\ cv' = [cv EXCEPT ![t] = NoValue]
      /\ at' = [at EXCEPT ![t] = "signal"]
      /\ UNCHANGED <<roots, field, allocs, marked, freed, hard, open, sends, holder>>
  BY Zenon DEF Push, heapVars
<1>3. NoValue \in ChanVal
  BY DEF NoValue, ChanVal
<1>4. cv' \in [Thread -> ChanVal]
  BY <1>1, <1>2, <1>3
<1>5. at' \in [Thread -> {"run", "push", "signal", "recv", "waiting", "late"}]
  BY <1>1, <1>2
<1>6. cv[t] \in ChanVal
  BY <1>1, Zenon
<1>7. /\ q' \in Seq(ChanVal) /\ Len(q) \in Nat /\ Len(q') = Len(q) + 1
      /\ q'[Len(q) + 1] = cv[t] /\ \A i \in 1 .. Len(q) : q'[i] = q[i]
  BY <1>1, <1>2, <1>6
<1>8. ChannelTypeOK'
  BY <1>2, <1>4, <1>5, <1>7, Zenon DEF OwnedOnce, ChannelTypeOK
<1>9. \A i \in 1 .. Len(q') : i \in 1 .. Len(q) \/ i = Len(q) + 1
  BY <1>7
<1>10. \A i \in 1 .. Len(q') : q'[i].v \in Object
  BY <1>1, <1>7, <1>9, Zenon DEF ValuesSent
<1>11. \A u \in Thread : at'[u] = "push" => u # t /\ at[u] = "push"
  BY <1>1, <1>2
<1>12. \A u \in Thread : u # t => cv'[u] = cv[u]
  BY <1>1, <1>2, Zenon
<1> QED
  BY <1>8, <1>10, <1>11, <1>12, Zenon DEF ValuesSent

\* recv that gets a value.
LEMMA RecvSomeTyped ==
  ASSUME OwnedOnce, ValuesSent, NEW t \in Thread, RecvSome(t)
  PROVE  ChannelTypeOK' /\ ValuesSent'
<1>1. /\ q \in Seq(ChanVal) /\ roots \in [Thread -> SUBSET Object]
      /\ allocs \in [Thread -> Seq(Object)] /\ holder \in [Object -> Thread \cup {NoThread}]
      /\ at \in [Thread -> {"run", "push", "signal", "recv", "waiting", "late"}]
  BY Zenon DEF OwnedOnce, ChannelTypeOK
<1>2. /\ q # <<>> /\ q' = Tail(q)
      /\ allocs' = [allocs EXCEPT ![t] = @ \o Head(q).as]
      /\ roots' = [roots EXCEPT ![t] = @ \cup {Head(q).v}]
      /\ holder' = [o \in Object |-> IF o \in Head(q).parts THEN t ELSE holder[o]]
      /\ at' = [at EXCEPT ![t] = "run"]
      /\ UNCHANGED <<field, marked, freed, hard, open, cv, sends>>
  BY Zenon DEF RecvSome
<1>3. /\ Head(q) = q[1] /\ 1 \in 1 .. Len(q) /\ q[1] \in ChanVal /\ Len(q) \in Nat
      /\ q' \in Seq(ChanVal) /\ Len(q') = Len(q) - 1
      /\ \A i \in 1 .. Len(q') : q'[i] = q[i + 1] /\ i + 1 \in 1 .. Len(q)
  BY <1>1, <1>2
<1>4. q[1].v \in Object /\ q[1].as \in Seq(Object)
  <2>1. q[1].as \in Seq(Object)
    BY <1>3 DEF ChanVal
  <2> QED
    BY <1>3, <2>1, Zenon DEF ValuesSent
<1>5. allocs' \in [Thread -> Seq(Object)]
  <2>1. allocs[t] \o q[1].as \in Seq(Object)
    BY <1>1, <1>4
  <2> QED
    BY <1>1, <1>2, <1>3, <2>1
<1>6. roots' \in [Thread -> SUBSET Object]
  BY <1>1, <1>2, <1>3, <1>4
<1>7. holder' \in [Object -> Thread \cup {NoThread}]
  <2>1. \A o \in Object : (IF o \in Head(q).parts THEN t ELSE holder[o]) \in Thread \cup {NoThread}
    BY <1>1, Zenon
  <2> QED
    BY <1>2, <2>1, Zenon
<1>8. at' \in [Thread -> {"run", "push", "signal", "recv", "waiting", "late"}]
  BY <1>1, <1>2
<1>9. ChannelTypeOK'
  BY <1>2, <1>3, <1>5, <1>6, <1>7, <1>8, Zenon DEF OwnedOnce, ChannelTypeOK
<1>10. \A i \in 1 .. Len(q') : q'[i].v \in Object
  BY <1>3, Zenon DEF ValuesSent
<1>11. \A u \in Thread : at'[u] = "push" => at[u] = "push"
  BY <1>1, <1>2
<1> QED
  BY <1>2, <1>9, <1>10, <1>11, Zenon DEF ValuesSent

\* The other steps of send, recv and close.
Waits(t) == Signal(t) \/ CallRecv(t) \/ RecvWait(t) \/ TimedOut(t) \/ RecvNone(t) \/ Close(t)

\* These steps keep the types and touch no object.
LEMMA WaitsTyped ==
  ASSUME OwnedOnce, ValuesSent, NEW t \in Thread, Waits(t)
  PROVE  /\ ChannelTypeOK' /\ ValuesSent'
         /\ UNCHANGED <<heapVars, q, cv>>
<1> DEFINE C == {"run", "push", "signal", "recv", "waiting", "late"}
<1>1. at \in [Thread -> C] /\ open \in BOOLEAN
  BY Zenon DEF OwnedOnce, ChannelTypeOK
<1>2. UNCHANGED <<heapVars, q, cv, sends, holder>> /\ open' \in BOOLEAN
  <2>1. open' = open \/ open' = FALSE
    BY Zenon DEF Waits, Signal, CallRecv, RecvWait, TimedOut, RecvNone, Close
  <2>2. UNCHANGED <<heapVars, q, cv, sends, holder>>
    BY Zenon DEF Waits, Signal, CallRecv, RecvWait, TimedOut, RecvNone, Close
  <2> QED
    BY <1>1, <2>1, <2>2, Zenon
<1>3. \/ at' = at
      \/ \E x \in C \ {"push"} : at' = [at EXCEPT ![t] = x]
      \/ \E u \in Thread : at' = [at EXCEPT ![t] = "run", ![u] = "recv"]
  BY DEF Waits, Signal, CallRecv, RecvWait, TimedOut, RecvNone, Close
<1>4. at' \in [Thread -> C] /\ \A u \in Thread : at'[u] = "push" => at[u] = "push"
  <2>1. CASE at' = at
    BY <1>1, <2>1, Zenon
  <2>2. ASSUME NEW x \in C \ {"push"}, at' = [at EXCEPT ![t] = x]
        PROVE  at' \in [Thread -> C] /\ \A u \in Thread : at'[u] = "push" => at[u] = "push"
    BY <1>1, <2>2
  <2>3. ASSUME NEW x \in Thread, at' = [at EXCEPT ![t] = "run", ![x] = "recv"]
        PROVE  at' \in [Thread -> C] /\ \A u \in Thread : at'[u] = "push" => at[u] = "push"
    BY <1>1, <2>3
  <2> QED
    BY <1>3, <2>1, <2>2, <2>3, Zenon
<1>5. ChannelTypeOK'
  BY <1>2, <1>4, Zenon DEF OwnedOnce, ChannelTypeOK, heapVars
<1>6. ValuesSent'
  BY <1>2, <1>4, Zenon DEF ValuesSent
<1> QED
  BY <1>2, <1>5, <1>6, Zenon

-----------------------------------------------------------------------------
(* One owner *)

\* A step that leaves the lists alone.
LEMMA SameLists ==
  ASSUME Apart(Lists, freed), UNCHANGED <<allocs, q, cv, freed>>
  PROVE  Apart(Lists, freed)'
<1>1. Lists' = Lists
  BY Zenon DEF Lists
<1> QED
  BY <1>1, Zenon DEF Apart

\* A step that changes the own list of one thread.
LEMMA OwnListChanges ==
  ASSUME ChannelTypeOK, Apart(Lists, freed), NEW t \in Thread, NEW a,
         allocs' = [allocs EXCEPT ![t] = a], UNCHANGED <<q, cv>>, IsInjective(a),
         \A o \in Range(a) :
           o \in Range(allocs[t])
             \/ (o \notin freed /\ \A l \in DOMAIN Lists : o \notin Range(Lists[l])),
         \A o \in freed' : o \notin Range(a) /\ (o \in freed \/ o \in Range(allocs[t]))
  PROVE  Apart(Lists, freed)'
<1> DEFINE x == <<"allocs", t>>
           L == Lists
           M == Lists'
           F == freed
           G == freed'
<1>1. allocs \in [Thread -> Seq(Object)]
  BY Zenon DEF ChannelTypeOK
<1>2. DOMAIN M = DOMAIN L
  BY Zenon DEF Lists
<1>3. x \in DOMAIN L /\ L[x] = allocs[t]
  BY ListsAre, Zenon
<1>4. M[x] = a
  BY <1>1, ListsAreNext, Zenon
<1>5. \A l \in DOMAIN L : l # x => M[l] = L[l]
  <2>1. \A u \in Thread : u # t => allocs'[u] = allocs[u]
    BY <1>1, Zenon
  <2> SUFFICES ASSUME NEW l \in DOMAIN L, l # x
               PROVE  M[l] = L[l]
    BY Zenon
  <2>2. CASE \E u \in Thread : l = <<"allocs", u>>
    <3>1. PICK u \in Thread : l = <<"allocs", u>>
      BY <2>2, Zenon
    <3>2. allocs'[u] = allocs[u]
      BY <2>1, <3>1, Zenon
    <3> QED
      BY <3>1, <3>2, ListsAre, ListsAreNext, Zenon
  <2>3. CASE \E u \in Thread : l = <<"cv", u>>
    <3>1. PICK u \in Thread : l = <<"cv", u>>
      BY <2>3, Zenon
    <3> QED
      BY <3>1, ListsAre, ListsAreNext, Zenon
  <2>4. CASE \E i \in DOMAIN q : l = <<"q", i>>
    <3>1. PICK i \in DOMAIN q : l = <<"q", i>>
      BY <2>4, Zenon
    <3>2. i \in DOMAIN q' /\ q'[i] = q[i]
      BY Zenon
    <3> QED
      BY <3>1, <3>2, ListsAre, ListsAreNext, Zenon
  <2> QED
    BY <2>2, <2>3, <2>4, ListsAre, Zenon
<1>6. Apart(L, F)
  BY Zenon
<1>7. Apart(M, G)
  <2>1. /\ \A o \in Range(M[x]) :
             o \in Range(L[x]) \/ (o \notin F /\ \A l \in DOMAIN L : o \notin Range(L[l]))
        /\ \A o \in G : o \notin Range(M[x]) /\ (o \in F \/ o \in Range(L[x]))
        /\ IsInjective(M[x])
    BY <1>3, <1>4, Zenon
  <2> HIDE DEF L, M, F, G, x
  <2> QED
    BY <1>2, <1>3, <1>5, <1>6, <2>1, ApartChanges
<1> QED
  BY <1>7, Zenon DEF Apart

\* Allocation appends an object that was never on a list; a collection keeps part
\* of the list and frees the rest.
LEMMA ProgramOwns ==
  ASSUME OwnedOnce, NEW t \in Thread, Program(t)
  PROVE  Apart(Lists, freed)'
<1>1. /\ ChannelTypeOK /\ Apart(Lists, freed) /\ allocs \in [Thread -> Seq(Object)]
      /\ UNCHANGED <<q, cv>>
  BY Zenon DEF OwnedOnce, ChannelTypeOK, Program, chanVars
<1>2. allocs[t] \in Seq(Object) /\ IsInjective(allocs[t]) /\ Range(allocs[t]) \cap freed = {}
  BY <1>1, ListsAre, Zenon DEF Apart
<1>3. CASE Alloc(t)
  <2>1. PICK o \in Object \ Born : /\ allocs' = [allocs EXCEPT ![t] = Append(@, o)]
                                   /\ freed' = freed
    BY <1>3, Zenon DEF Alloc
  <2> DEFINE a == Append(allocs[t], o)
             b == allocs[t]
  <2>2. o \notin freed /\ \A l \in DOMAIN Lists : o \notin Range(Lists[l])
    <3>1. /\ o \notin freed /\ \A u \in Thread : o \notin Range(allocs[u]) /\ o \notin Range(cv[u].as)
          /\ \A i \in DOMAIN q : o \notin Range(q[i].as)
      <4> DEFINE Own == UNION {Range(allocs[u]) : u \in Thread}
                 Sent == UNION {Range(q[i].as) : i \in DOMAIN q}
                 Sending == UNION {Range(cv[u].as) : u \in Thread}
      <4>0. Born = Own \cup freed \cup Sent \cup Sending
        BY Zenon DEF Born
      <4>1. o \notin freed /\ o \notin Own /\ o \notin Sent /\ o \notin Sending
        <5> HIDE DEF Own, Sent, Sending
        <5>1. o \notin Born
          OBVIOUS
        <5> QED
          BY <4>0, <5>1, Zenon
      <4>2. \A u \in Thread : o \notin Range(allocs[u])
        BY <4>1, Zenon
      <4>3. \A u \in Thread : o \notin Range(cv[u].as)
        BY <4>1, Zenon
      <4>4. \A i \in DOMAIN q : o \notin Range(q[i].as)
        BY <4>1, Zenon
      <4> QED
        BY <4>1, <4>2, <4>3, <4>4, Zenon
    <3> SUFFICES ASSUME NEW l \in DOMAIN Lists
                 PROVE  o \notin Range(Lists[l])
      BY <3>1, Zenon
    <3>2. CASE \E u \in Thread : l = <<"allocs", u>> \/ l = <<"cv", u>>
      <4>1. PICK u \in Thread : l = <<"allocs", u>> \/ l = <<"cv", u>>
        BY <3>2, Zenon
      <4> QED
        BY <3>1, <4>1, ListsAre, Zenon
    <3>3. CASE \E i \in DOMAIN q : l = <<"q", i>>
      <4>1. PICK i \in DOMAIN q : l = <<"q", i>>
        BY <3>3, Zenon
      <4> QED
        BY <3>1, <4>1, ListsAre, Zenon
    <3> QED
      BY <3>2, <3>3, ListsAre, Zenon
  <2>3. /\ DOMAIN b = 1 .. Len(b) /\ Len(b) \in Nat /\ DOMAIN a = 1 .. Len(b) + 1
        /\ a[Len(b) + 1] = o /\ \A i \in DOMAIN b : a[i] = b[i]
    BY <1>2
  <2>4. \A i : i \in DOMAIN a <=> i \in DOMAIN b \/ i = Len(b) + 1
    BY <2>3
  <2>5. o \notin Range(b)
    BY <2>2, ListsAre, Zenon
  <2>6. \A i \in DOMAIN b : b[i] # o
    BY <2>5, Zenon DEF Range
  <2> HIDE DEF a
  <2>7. IsInjective(a)
    BY <1>2, <2>3, <2>4, <2>6, Zenon DEF IsInjective
  <2>8. \A x \in Range(a) : x \in Range(b) \/ x = o
    BY <2>3, <2>4, Zenon DEF Range
  <2>9. allocs' = [allocs EXCEPT ![t] = a]
    BY <2>1, Zenon DEF a
  <2>10. \A x \in freed' : x \notin Range(a) /\ x \in freed
    BY <1>2, <2>1, <2>2, <2>8, Zenon
  <2> QED
    BY <1>1, <2>2, <2>7, <2>8, <2>9, <2>10, OwnListChanges, Zenon
<1>4. CASE Load(t) \/ Store(t) \/ Drop(t)
  <2>1. UNCHANGED <<allocs, freed>>
    BY <1>4, Zenon DEF Load, Store, Drop
  <2> QED
    BY <1>1, <2>1, SameLists, Zenon
<1>5. CASE DoGC(t)
  <2> DEFINE K == marked \cup Reach(roots[t], marked) \cup hard
             a == GCSweep(allocs[t], K)
  <2>1. allocs' = [allocs EXCEPT ![t] = a] /\ freed' = freed \cup (Range(allocs[t]) \ K)
    BY <1>5, Zenon DEF DoGC
  <2>2. IsInjective(a) /\ Range(a) = Range(allocs[t]) \cap K
    BY <1>2, GCSweepResult, Zenon
  <2> HIDE DEF K, a
  <2>3. \A o \in freed' : o \notin Range(a) /\ (o \in freed \/ o \in Range(allocs[t]))
    BY <1>2, <2>1, <2>2, Zenon
  <2>4. \A o \in Range(a) : o \in Range(allocs[t])
    BY <2>2, Zenon
  <2> QED
    BY <1>1, <2>1, <2>2, <2>3, <2>4, OwnListChanges, Zenon
<1> QED
  BY <1>3, <1>4, <1>5, Zenon DEF Program

\* send divides the list of the sender between the sender and the message.
LEMMA SendOwns ==
  ASSUME OwnedOnce, NEW t \in Thread, Send(t)
  PROVE  Apart(Lists, freed)'
<1> DEFINE L == Lists
           M == Lists'
           x == <<"allocs", t>>
           y == <<"cv", t>>
           src == [l \in DOMAIN M |-> IF l = y THEN {x} ELSE {l}]
<1>1. /\ ChannelTypeOK /\ Apart(L, freed) /\ allocs \in [Thread -> Seq(Object)]
      /\ cv \in [Thread -> ChanVal] /\ q' = q /\ freed' = freed
  BY Zenon DEF OwnedOnce, ChannelTypeOK, Send
<1>2. PICK v \in roots[t] : Forget(t, v)
  BY Zenon DEF Send
<1>3. PICK as, rest :
        /\ allocs' = [allocs EXCEPT ![t] = rest]
        /\ cv'[t].as = as /\ cv' = [cv EXCEPT ![t] = cv'[t]]
        /\ Range(as) \subseteq Range(allocs[t]) /\ Range(rest) \subseteq Range(allocs[t])
        /\ IsInjective(allocs[t]) =>
             IsInjective(as) /\ IsInjective(rest) /\ Range(as) \cap Range(rest) = {}
  BY <1>1, <1>2, ForgetLists, Zenon
<1>4. DOMAIN M = DOMAIN L
  BY <1>1, ListsAre, ListsAreNext, Zenon
<1>5. x \in DOMAIN L /\ y \in DOMAIN L /\ L[x] = allocs[t] /\ x # y
  <2>1. x # y
    OBVIOUS
  <2> QED
    BY <2>1, ListsAre, Zenon
<1>6. M[x] = rest /\ M[y] = as
  BY <1>1, <1>3, ListsAreNext, Zenon
<1>7. \A l \in DOMAIN L : l # x /\ l # y => M[l] = L[l]
  <2>1. \A u \in Thread : u # t => allocs'[u] = allocs[u] /\ cv'[u] = cv[u]
    BY <1>1, <1>3, Zenon
  <2> SUFFICES ASSUME NEW l \in DOMAIN L, l # x, l # y
               PROVE  M[l] = L[l]
    BY Zenon
  <2>2. CASE \E u \in Thread : l = <<"allocs", u>> \/ l = <<"cv", u>>
    <3>1. PICK u \in Thread : l = <<"allocs", u>> \/ l = <<"cv", u>>
      BY <2>2, Zenon
    <3>2. u # t
      BY <3>1, Zenon
    <3>3. allocs'[u] = allocs[u] /\ cv'[u] = cv[u]
      BY <2>1, <3>2, Zenon
    <3>4. CASE l = <<"allocs", u>>
      BY <3>3, <3>4, ListsAre, ListsAreNext, Zenon
    <3>5. CASE l = <<"cv", u>>
      BY <3>3, <3>5, ListsAre, ListsAreNext, Zenon
    <3> QED
      BY <3>1, <3>4, <3>5, Zenon
  <2>3. CASE \E i \in DOMAIN q : l = <<"q", i>>
    <3>1. PICK i \in DOMAIN q : l = <<"q", i>>
      BY <2>3, Zenon
    <3>2. i \in DOMAIN q' /\ q'[i] = q[i]
      BY <1>1, Zenon
    <3> QED
      BY <3>1, <3>2, ListsAre, ListsAreNext, Zenon
  <2> QED
    BY <2>2, <2>3, ListsAre, Zenon
<1>8. IsInjective(L[x])
  BY <1>1, <1>5, Zenon DEF Apart
<1> HIDE DEF L, M, x, y
<1>9. ASSUME NEW l \in DOMAIN M
      PROVE  /\ IsInjective(M[l]) /\ src[l] \subseteq DOMAIN L
             /\ \A o \in Range(M[l]) : \E k \in src[l] : o \in Range(L[k])
  <2>1. CASE l = y
    BY <1>3, <1>5, <1>6, <1>8, <2>1, Zenon
  <2>2. CASE l = x
    BY <1>3, <1>5, <1>6, <1>8, <2>2, Zenon
  <2>3. CASE l # x /\ l # y
    BY <1>1, <1>4, <1>7, <2>3, Zenon DEF Apart
  <2> QED
    BY <2>1, <2>2, <2>3, Zenon
<1>10. ASSUME NEW l \in DOMAIN M, NEW k \in DOMAIN M, l # k
       PROVE  src[l] \cap src[k] = {} \/ Range(M[l]) \cap Range(M[k]) = {}
  <2>1. CASE {l, k} = {x, y}
    <3>1. (l = x /\ k = y) \/ (l = y /\ k = x)
      BY <2>1, <1>10, Zenon
    <3> QED
      BY <1>3, <1>5, <1>6, <1>8, <3>1, Zenon
  <2>2. CASE {l, k} # {x, y}
    BY <1>5, <1>10, <2>2, Zenon
  <2> QED
    BY <2>1, <2>2, Zenon
<1>11. Apart(M, freed)
  <2> HIDE DEF src
  <2> QED
    BY <1>1, <1>9, <1>10, ApartMoves, Zenon
<1> QED
  BY <1>1, <1>11, Zenon DEF Apart, M

\* The push moves the list of the message into the channel.
LEMMA PushOwns ==
  ASSUME OwnedOnce, NEW t \in Thread, Push(t)
  PROVE  Apart(Lists, freed)'
<1> DEFINE L == Lists
           M == Lists'
           x == <<"cv", t>>
           n == Len(q) + 1
           y == <<"q", n>>
           src == [l \in DOMAIN M |-> IF l = y THEN {x} ELSE IF l = x THEN {} ELSE {l}]
<1>1. /\ Apart(L, freed) /\ q \in Seq(ChanVal) /\ cv \in [Thread -> ChanVal]
      /\ q' = Append(q, cv[t]) /\ cv' = [cv EXCEPT ![t] = NoValue]
      /\ allocs' = allocs /\ freed' = freed
  BY Zenon DEF OwnedOnce, ChannelTypeOK, Push, heapVars
<1>2. /\ DOMAIN q = 1 .. Len(q) /\ Len(q) \in Nat /\ n \notin DOMAIN q
      /\ \A i : i \in DOMAIN q' <=> i \in DOMAIN q \/ i = n
      /\ q'[n] = cv[t] /\ \A i \in DOMAIN q : q'[i] = q[i]
  <2>1. cv[t] \in ChanVal
    BY <1>1, Zenon
  <2> QED
    BY <1>1, <2>1
<1>3. x \in DOMAIN L /\ L[x] = cv[t].as /\ x # y /\ y \notin DOMAIN L
  <2>1. x # y /\ \A u : <<"allocs", u>> # y /\ <<"cv", u>> # y
    OBVIOUS
  <2>2. \A i : <<"q", i>> = y => i = n
    OBVIOUS
  <2> HIDE DEF n
  <2> QED
    BY <1>2, <2>1, <2>2, ListsAre, Zenon
<1>4. \A l : l \in DOMAIN M <=> l \in DOMAIN L \/ l = y
  <2> HIDE DEF n
  <2> QED
    BY <1>2, ListsAre, ListsAreNext, Zenon
<1>5. M[y] = L[x] /\ M[x] = <<>>
  <2>1. NoValue.as = <<>>
    BY DEF NoValue
  <2>2. cv'[t] = NoValue
    BY <1>1, Zenon
  <2> HIDE DEF n
  <2> QED
    BY <1>2, <1>3, <2>1, <2>2, ListsAreNext, Zenon
<1>6. \A l \in DOMAIN L : l # x => M[l] = L[l]
  <2>1. \A u \in Thread : u # t => cv'[u] = cv[u]
    BY <1>1, Zenon
  <2> SUFFICES ASSUME NEW l \in DOMAIN L, l # x
               PROVE  M[l] = L[l]
    BY Zenon
  <2>2. CASE \E u \in Thread : l = <<"allocs", u>>
    <3>1. PICK u \in Thread : l = <<"allocs", u>>
      BY <2>2, Zenon
    <3> QED
      BY <1>1, <3>1, ListsAre, ListsAreNext, Zenon
  <2>3. CASE \E u \in Thread : l = <<"cv", u>>
    <3>1. PICK u \in Thread : l = <<"cv", u>>
      BY <2>3, Zenon
    <3>2. cv'[u] = cv[u]
      BY <2>1, <3>1, Zenon
    <3> QED
      BY <3>1, <3>2, ListsAre, ListsAreNext, Zenon
  <2>4. CASE \E i \in DOMAIN q : l = <<"q", i>>
    <3>1. PICK i \in DOMAIN q : l = <<"q", i>>
      BY <2>4, Zenon
    <3>2. i \in DOMAIN q' /\ q'[i] = q[i]
      BY <1>2, Zenon
    <3> QED
      BY <3>1, <3>2, ListsAre, ListsAreNext, Zenon
  <2> QED
    BY <2>2, <2>3, <2>4, ListsAre, Zenon
<1>7. IsInjective(<<>>) /\ Range(<<>>) = {}
  <2>1. DOMAIN <<>> = {}
    OBVIOUS
  <2> QED
    BY <2>1, Zenon DEF IsInjective, Range
<1> HIDE DEF L, M, x, y
<1>8. ASSUME NEW l \in DOMAIN M
      PROVE  /\ IsInjective(M[l]) /\ src[l] \subseteq DOMAIN L
             /\ \A o \in Range(M[l]) : \E k \in src[l] : o \in Range(L[k])
  <2>1. CASE l = y
    BY <1>1, <1>3, <1>5, <2>1, Zenon DEF Apart
  <2>2. CASE l = x
    BY <1>3, <1>5, <1>7, <2>2, Zenon
  <2>3. CASE l # x /\ l # y
    BY <1>1, <1>4, <1>6, <2>3, Zenon DEF Apart
  <2> QED
    BY <2>1, <2>2, <2>3, Zenon
<1>9. ASSUME NEW l \in DOMAIN M, NEW k \in DOMAIN M, l # k
      PROVE  src[l] \cap src[k] = {} \/ Range(M[l]) \cap Range(M[k]) = {}
  <2>1. CASE l = x \/ k = x
    BY <1>3, <2>1, Zenon
  <2>2. CASE l # x /\ k # x
    BY <1>9, <2>2, Zenon
  <2> QED
    BY <2>1, <2>2, Zenon
<1>10. Apart(M, freed)
  <2> HIDE DEF src
  <2> QED
    BY <1>1, <1>8, <1>9, ApartMoves, Zenon
<1> QED
  BY <1>1, <1>10, Zenon DEF Apart, M

\* recv appends the list of the first message to the receiver's.
LEMMA RecvSomeOwns ==
  ASSUME OwnedOnce, NEW t \in Thread, RecvSome(t)
  PROVE  Apart(Lists, freed)'
<1> DEFINE L == Lists
           M == Lists'
           x == <<"allocs", t>>
           y == <<"q", 1>>
           From(l) == IF l[1] = "q" THEN <<"q", l[2] + 1>> ELSE l
           src == [l \in DOMAIN M |-> IF l = x THEN {x, y} ELSE {From(l)}]
           b == allocs[t]
           c == q[1].as
           a == b \o c
<1>1. /\ Apart(L, freed) /\ q \in Seq(ChanVal) /\ allocs \in [Thread -> Seq(Object)]
      /\ q # <<>> /\ q' = Tail(q) /\ allocs' = [allocs EXCEPT ![t] = @ \o Head(q).as]
      /\ cv' = cv /\ freed' = freed
  BY Zenon DEF OwnedOnce, ChannelTypeOK, RecvSome
<1>2. /\ Head(q) = q[1] /\ 1 \in DOMAIN q /\ q[1] \in ChanVal
      /\ \A i \in DOMAIN q' : i + 1 \in DOMAIN q /\ i + 1 # 1 /\ q'[i] = q[i + 1]
      /\ \A i, j \in DOMAIN q' : i + 1 = j + 1 => i = j
  BY <1>1
<1>3. x \in DOMAIN L /\ L[x] = b /\ y \in DOMAIN L /\ L[y] = c /\ x # y
  <2>1. x # y
    OBVIOUS
  <2> QED
    BY <1>2, <2>1, ListsAre, Zenon
<1>4. x \in DOMAIN M /\ M[x] = a
  BY <1>1, <1>2, ListsAreNext, Zenon
<1>5. b \in Seq(Object) /\ c \in Seq(Object)
  <2>1. c \in Seq(Object)
    BY <1>2 DEF ChanVal
  <2> QED
    BY <1>1, <2>1, Zenon
<1>6. /\ IsInjective(b) /\ IsInjective(c) /\ Range(b) \cap Range(c) = {}
  BY <1>1, <1>3, Zenon DEF Apart
<1>7. IsInjective(a) /\ Range(a) = Range(b) \cup Range(c)
  <2> HIDE DEF b, c
  <2>1. /\ Len(b) \in Nat /\ Len(c) \in Nat /\ DOMAIN b = 1 .. Len(b) /\ DOMAIN c = 1 .. Len(c)
        /\ DOMAIN a = 1 .. Len(b) + Len(c)
        /\ \A i \in DOMAIN a : a[i] = IF i <= Len(b) THEN b[i] ELSE c[i - Len(b)]
    BY <1>5
  <2> HIDE DEF a
  <2>2. \A i \in DOMAIN a : IF i <= Len(b) THEN i \in DOMAIN b ELSE i - Len(b) \in DOMAIN c
    BY <2>1
  <2>3. \A i \in DOMAIN b : i \in DOMAIN a /\ a[i] = b[i]
    BY <2>1
  <2>4. \A i \in DOMAIN c : Len(b) + i \in DOMAIN a /\ a[Len(b) + i] = c[i]
    BY <2>1
  <2>5. Range(a) \subseteq Range(b) \cup Range(c)
    BY <2>1, <2>2, Zenon DEF Range
  <2>6. Range(b) \subseteq Range(a) /\ Range(c) \subseteq Range(a)
    BY <2>3, <2>4 DEF Range
  <2>7. ASSUME NEW i \in DOMAIN a, NEW j \in DOMAIN a, a[i] = a[j]
        PROVE  i = j
    <3>1. CASE i <= Len(b) /\ j <= Len(b)
      BY <1>6, <2>1, <2>2, <2>7, <3>1, Zenon DEF IsInjective
    <3>2. CASE ~ (i <= Len(b)) /\ ~ (j <= Len(b))
      <4>1. i - Len(b) = j - Len(b)
        BY <1>6, <2>1, <2>2, <2>7, <3>2, Zenon DEF IsInjective
      <4> QED
        BY <2>1, <4>1
    <3>3. CASE i <= Len(b) /\ ~ (j <= Len(b))
      <4>1. a[i] \in Range(b) /\ a[j] \in Range(c)
        BY <2>1, <2>2, <3>3, Zenon DEF Range
      <4> QED
        BY <1>6, <2>7, <4>1, Zenon
    <3>4. CASE ~ (i <= Len(b)) /\ j <= Len(b)
      <4>1. a[j] \in Range(b) /\ a[i] \in Range(c)
        BY <2>1, <2>2, <3>4, Zenon DEF Range
      <4> QED
        BY <1>6, <2>7, <4>1, Zenon
    <3> QED
      BY <3>1, <3>2, <3>3, <3>4, Zenon
  <2> QED
    BY <2>5, <2>6, <2>7, Zenon DEF IsInjective
<1>8. \A l \in DOMAIN M : l # x =>
        From(l) \in DOMAIN L /\ M[l] = L[From(l)] /\ From(l) # x /\ From(l) # y
  <2>1. \A u \in Thread : u # t => allocs'[u] = allocs[u]
    BY <1>1, Zenon
  <2> SUFFICES ASSUME NEW l \in DOMAIN M, l # x
               PROVE  From(l) \in DOMAIN L /\ M[l] = L[From(l)] /\ From(l) # x /\ From(l) # y
    BY Zenon
  <2>2. CASE \E u \in Thread : l = <<"allocs", u>> \/ l = <<"cv", u>>
    <3>1. From(l) = l /\ l # y
      BY <2>2
    <3>2. PICK u \in Thread : l = <<"allocs", u>> \/ l = <<"cv", u>>
      BY <2>2, Zenon
    <3>3. CASE l = <<"allocs", u>>
      <4>1. allocs'[u] = allocs[u]
        BY <2>1, <3>3, Zenon
      <4> QED
        BY <3>1, <3>3, <4>1, ListsAre, ListsAreNext, Zenon
    <3>4. CASE l = <<"cv", u>>
      BY <1>1, <3>1, <3>4, ListsAre, ListsAreNext, Zenon
    <3> QED
      BY <3>2, <3>3, <3>4, Zenon
  <2>3. CASE \E i \in DOMAIN q' : l = <<"q", i>>
    <3>1. PICK i \in DOMAIN q' : l = <<"q", i>>
      BY <2>3, Zenon
    <3>2. From(l) = <<"q", i + 1>>
      BY <3>1
    <3>3. i + 1 \in DOMAIN q /\ q'[i] = q[i + 1] /\ i + 1 # 1
      BY <1>2, Zenon
    <3>4. From(l) # x /\ From(l) # y
      BY <3>2, <3>3
    <3> HIDE DEF From, L, M
    <3>5. From(l) \in DOMAIN L /\ L[From(l)] = q[i + 1].as
      BY <3>2, <3>3, ListsAre, Zenon DEF L
    <3>6. M[l] = q'[i].as
      BY <3>1, ListsAreNext, Zenon DEF M
    <3> QED
      BY <3>3, <3>4, <3>5, <3>6, Zenon
  <2> QED
    BY <2>2, <2>3, ListsAreNext, Zenon
<1>9. \A l, k \in DOMAIN M : l # k => From(l) # From(k)
  <2> SUFFICES ASSUME NEW l \in DOMAIN M, NEW k \in DOMAIN M, l # k
               PROVE  From(l) # From(k)
    BY Zenon
  <2>1. (\E u \in Thread : l = <<"allocs", u>> \/ l = <<"cv", u>>)
          \/ \E i \in DOMAIN q' : l = <<"q", i>>
    BY ListsAreNext, Zenon
  <2>2. (\E u \in Thread : k = <<"allocs", u>> \/ k = <<"cv", u>>)
          \/ \E i \in DOMAIN q' : k = <<"q", i>>
    BY ListsAreNext, Zenon
  <2> QED
    BY <1>2, <2>1, <2>2
<1> HIDE DEF L, M, x, y, a, b, c, From
<1>10. ASSUME NEW l \in DOMAIN M
       PROVE  /\ IsInjective(M[l]) /\ src[l] \subseteq DOMAIN L
              /\ \A o \in Range(M[l]) : \E k \in src[l] : o \in Range(L[k])
  <2>1. CASE l = x
    BY <1>3, <1>4, <1>7, <2>1, Zenon
  <2>2. CASE l # x
    BY <1>1, <1>8, <2>2, Zenon DEF Apart
  <2> QED
    BY <2>1, <2>2, Zenon
<1>11. ASSUME NEW l \in DOMAIN M, NEW k \in DOMAIN M, l # k
       PROVE  src[l] \cap src[k] = {} \/ Range(M[l]) \cap Range(M[k]) = {}
  <2>1. CASE l = x
    BY <1>8, <1>11, <2>1, Zenon
  <2>2. CASE k = x
    BY <1>8, <1>11, <2>2, Zenon
  <2>3. CASE l # x /\ k # x
    BY <1>9, <1>11, <2>3, Zenon
  <2> QED
    BY <2>1, <2>2, <2>3, Zenon
<1>12. Apart(M, freed)
  <2> HIDE DEF src
  <2> QED
    BY <1>1, <1>10, <1>11, ApartMoves, Zenon
<1> QED
  BY <1>1, <1>12, Zenon DEF Apart, M

-----------------------------------------------------------------------------
(* Wakeups *)

\* How the number of threads that are awake follows their steps.
LEMMA AwakeCounts ==
  /\ IsFiniteSet(Awake) /\ Cardinality(Awake) \in Nat
  /\ \A t \in Thread : /\ Awake' = Awake \cup {t} /\ t \notin Awake
                            => Cardinality(Awake') = Cardinality(Awake) + 1
                       /\ Awake' = Awake \ {t} => Cardinality(Awake') >= Cardinality(Awake) - 1
  /\ IsFiniteSet(Awake') /\ Cardinality(Awake') \in Nat
<1>1. Awake \subseteq Thread /\ Awake' \subseteq Thread
  BY Zenon DEF Awake
<1>2. IsFiniteSet(Awake) /\ IsFiniteSet(Awake')
  BY <1>1, ChannelAssumption, FS_Subset, Zenon
<1>3. Cardinality(Awake) \in Nat /\ Cardinality(Awake') \in Nat
  BY <1>2, FS_CardinalityType, Zenon
<1>4. ASSUME NEW t \in Thread, Awake' = Awake \cup {t}, t \notin Awake
      PROVE  Cardinality(Awake') = Cardinality(Awake) + 1
  BY <1>2, <1>4, FS_AddElement, Zenon
<1>5. ASSUME NEW t \in Thread, Awake' = Awake \ {t}
      PROVE  Cardinality(Awake') >= Cardinality(Awake) - 1
  <2>1. Cardinality(Awake \ {t}) = IF t \in Awake THEN Cardinality(Awake) - 1
                                                 ELSE Cardinality(Awake)
    BY <1>2, FS_RemoveElement, Zenon
  <2> QED
    BY <1>3, <1>5, <2>1
<1> QED
  BY <1>2, <1>3, <1>4, <1>5, Zenon

\* send adds a value and a thread that is going to signal.
LEMMA PushWakes ==
  ASSUME ChannelTypeOK, SendWakesReceiver, NEW t \in Thread, Push(t)
  PROVE  SendWakesReceiver'
<1>1. /\ q \in Seq(ChanVal) /\ cv[t] \in ChanVal /\ q' = Append(q, cv[t])
      /\ at \in [Thread -> {"run", "push", "signal", "recv", "waiting", "late"}]
      /\ at[t] = "push" /\ at' = [at EXCEPT ![t] = "signal"]
  BY Zenon DEF ChannelTypeOK, Push
<1>2. Len(q) \in Nat /\ Len(q') = Len(q) + 1
  BY <1>1
<1>3. Awake' = Awake \cup {t} /\ t \notin Awake
  BY <1>1 DEF Awake
<1>4. \A u \in Thread : at'[u] = "waiting" => at[u] = "waiting"
  BY <1>1
<1>5. Cardinality(Awake') = Cardinality(Awake) + 1 /\ Cardinality(Awake) \in Nat
  BY <1>3, AwakeCounts, Zenon
<1>6. (\E u \in Thread : at'[u] = "waiting") => Len(q) <= Cardinality(Awake)
  BY <1>4, Zenon DEF SendWakesReceiver
<1>7. (\E u \in Thread : at'[u] = "waiting") => Len(q') <= Cardinality(Awake')
  BY <1>2, <1>5, <1>6
<1> QED
  BY <1>7, Zenon DEF SendWakesReceiver

\* A signal goes from the sender to a receiver, and is lost only when none waits.
LEMMA SignalWakes ==
  ASSUME ChannelTypeOK, SendWakesReceiver, NEW t \in Thread, Signal(t)
  PROVE  SendWakesReceiver'
<1>1. /\ at \in [Thread -> {"run", "push", "signal", "recv", "waiting", "late"}]
      /\ at[t] = "signal" /\ q' = q
  BY Zenon DEF ChannelTypeOK, Signal
<1>2. ASSUME NEW u \in Thread, at[u] = "waiting", at' = [at EXCEPT ![t] = "run", ![u] = "recv"]
      PROVE  SendWakesReceiver'
  <2> DEFINE A == Awake \ {t}
  <2>1. Awake' = A \cup {u} /\ u \notin A /\ t \in Awake
    BY <1>1, <1>2 DEF Awake
  <2>2. IsFiniteSet(A) /\ Cardinality(A) = Cardinality(Awake) - 1 /\ Cardinality(Awake) \in Nat
    BY <2>1, AwakeCounts, FS_RemoveElement, Zenon
  <2>3. Cardinality(A \cup {u}) = Cardinality(A) + 1
    <3> HIDE DEF A
    <3> QED
      BY <2>1, <2>2, FS_AddElement, Zenon
  <2>4. Cardinality(Awake') = Cardinality(Awake)
    BY <2>1, <2>2, <2>3
  <2> QED
    BY <1>1, <1>2, <2>4, Zenon DEF SendWakesReceiver
<1>3. ASSUME \A u \in Thread : at[u] # "waiting", at' = [at EXCEPT ![t] = "run"]
      PROVE  SendWakesReceiver'
  <2>1. \A u \in Thread : at'[u] # "waiting"
    BY <1>1, <1>3
  <2> QED
    BY <2>1, Zenon DEF SendWakesReceiver
<1> QED
  BY <1>2, <1>3, Zenon DEF Signal

\* A receiver that gets a value leaves one less for the others.
LEMMA RecvSomeWakes ==
  ASSUME ChannelTypeOK, SendWakesReceiver, NEW t \in Thread, RecvSome(t)
  PROVE  SendWakesReceiver'
<1>1. /\ q \in Seq(ChanVal) /\ q # <<>> /\ q' = Tail(q)
      /\ at \in [Thread -> {"run", "push", "signal", "recv", "waiting", "late"}]
      /\ at[t] \in {"recv", "late"} /\ at' = [at EXCEPT ![t] = "run"]
  BY Zenon DEF ChannelTypeOK, RecvSome
<1>2. Len(q) \in Nat /\ Len(q') = Len(q) - 1
  BY <1>1
<1>3. Awake' = Awake \ {t}
  BY <1>1 DEF Awake
<1>4. \A u \in Thread : at'[u] = "waiting" => at[u] = "waiting"
  BY <1>1
<1>5. /\ Cardinality(Awake') >= Cardinality(Awake) - 1
      /\ Cardinality(Awake) \in Nat /\ Cardinality(Awake') \in Nat
  BY <1>3, AwakeCounts, Zenon
<1>6. (\E u \in Thread : at'[u] = "waiting") => Len(q) <= Cardinality(Awake)
  BY <1>4, Zenon DEF SendWakesReceiver
<1>7. (\E u \in Thread : at'[u] = "waiting") => Len(q') <= Cardinality(Awake')
  BY <1>2, <1>5, <1>6
<1> QED
  BY <1>7, Zenon DEF SendWakesReceiver

\* The steps that find the channel empty, or add to those awake, or lose a waiter.
LEMMA OtherWakes ==
  ASSUME ChannelTypeOK, SendWakesReceiver, NEW t \in Thread,
         CallRecv(t) \/ RecvWait(t) \/ TimedOut(t) \/ RecvNone(t)
  PROVE  SendWakesReceiver'
<1>1. /\ at \in [Thread -> {"run", "push", "signal", "recv", "waiting", "late"}]
      /\ q \in Seq(ChanVal) /\ q' = q
  BY Zenon DEF ChannelTypeOK, CallRecv, RecvWait, TimedOut, RecvNone
<1>2. CASE CallRecv(t)
  <2>1. at[t] = "run" /\ at' = [at EXCEPT ![t] = "recv"]
    BY <1>2, Zenon DEF CallRecv
  <2>2. Awake' = Awake \cup {t} /\ t \notin Awake
    BY <1>1, <2>1 DEF Awake
  <2>3. \A u \in Thread : at'[u] = "waiting" => at[u] = "waiting"
    BY <1>1, <2>1
  <2>4. Cardinality(Awake') = Cardinality(Awake) + 1 /\ Cardinality(Awake) \in Nat
    BY <2>2, AwakeCounts, Zenon
  <2>5. Len(q) <= Cardinality(Awake) => Len(q) <= Cardinality(Awake')
    BY <1>1, <2>4
  <2> QED
    BY <1>1, <2>3, <2>5, Zenon DEF SendWakesReceiver
<1>3. CASE q = <<>>
  <2>1. Len(q) = 0 /\ 0 <= Cardinality(Awake')
    BY <1>3, AwakeCounts
  <2> QED
    BY <1>1, <2>1, Zenon DEF SendWakesReceiver
<1>4. CASE TimedOut(t)
  <2>1. at[t] = "waiting" /\ at' = [at EXCEPT ![t] = "late"]
    BY <1>4, Zenon DEF TimedOut
  <2>2. Awake' = Awake
    BY <1>1, <2>1 DEF Awake
  <2>3. \A u \in Thread : at'[u] = "waiting" => at[u] = "waiting"
    BY <1>1, <2>1
  <2> QED
    BY <1>1, <2>2, <2>3, Zenon DEF SendWakesReceiver
<1> QED
  BY <1>2, <1>3, <1>4, Zenon DEF RecvWait, RecvNone

\* A step that changes neither the channel nor who waits on it.
LEMMA SameWakes ==
  ASSUME ChannelTypeOK, SendWakesReceiver, q' = q, NEW t \in Thread,
         at' = at \/ (at[t] = "run" /\ at' = [at EXCEPT ![t] = "push"])
  PROVE  SendWakesReceiver'
<1>1. at \in [Thread -> {"run", "push", "signal", "recv", "waiting", "late"}]
  BY Zenon DEF ChannelTypeOK
<1>2. Awake' = Awake /\ \A u \in Thread : at'[u] = "waiting" => at[u] = "waiting"
  BY <1>1 DEF Awake
<1> QED
  BY <1>2, Zenon DEF SendWakesReceiver

-----------------------------------------------------------------------------
(* The theorems *)

\* The invariant holds at the start, when nothing is allocated.
LEMMA ChanInvInit == Init => ChanInv
<1> SUFFICES ASSUME Init
             PROVE  ChanInv
  BY Zenon
<1>1. /\ roots = [t \in Thread |-> {}] /\ field = [o \in Object |-> NoObject]
      /\ allocs = [t \in Thread |-> <<>>] /\ marked = {} /\ freed = {} /\ hard \in SUBSET Object
      /\ q = <<>> /\ open = TRUE /\ at = [t \in Thread |-> "run"]
      /\ cv = [t \in Thread |-> NoValue] /\ sends = 0 /\ holder = [o \in Object |-> NoThread]
  BY Zenon DEF Init
<1>2. NoValue \in ChanVal /\ NoValue.as = <<>>
  BY DEF NoValue, ChanVal
<1>3. /\ roots \in [Thread -> SUBSET Object] /\ field \in [Object -> Object \cup {NoObject}]
      /\ at \in [Thread -> {"run", "push", "signal", "recv", "waiting", "late"}]
      /\ cv \in [Thread -> ChanVal] /\ holder \in [Object -> Thread \cup {NoThread}]
  BY <1>1, <1>2, Zenon
<1>4. allocs \in [Thread -> Seq(Object)] /\ q \in Seq(ChanVal) /\ Len(q) = 0 /\ 1 .. Len(q) = {}
      /\ sends \in 0 .. MaxSends /\ DOMAIN q = {}
  BY <1>1, ChannelAssumption
<1>5. ChannelTypeOK
  BY <1>1, <1>3, <1>4, Zenon DEF ChannelTypeOK
<1>6. \A t \in Thread : at[t] # "waiting" /\ at[t] # "push"
  BY <1>1
<1>7. \A l \in DOMAIN Lists : Lists[l] = <<>>
  <2> SUFFICES ASSUME NEW l \in DOMAIN Lists
               PROVE  Lists[l] = <<>>
    BY Zenon
  <2>1. PICK t \in Thread : l = <<"allocs", t>> \/ l = <<"cv", t>>
    BY <1>4, ListsAre, Zenon
  <2>2. allocs[t] = <<>> /\ cv[t].as = <<>>
    BY <1>1, <1>2, Zenon
  <2> QED
    BY <2>1, <2>2, ListsAre, Zenon
<1>8. IsInjective(<<>>) /\ Range(<<>>) = {}
  <2>1. DOMAIN <<>> = {}
    OBVIOUS
  <2> QED
    BY <2>1, Zenon DEF IsInjective, Range
<1>9. Apart(Lists, freed)
  BY <1>7, <1>8, Zenon DEF Apart
<1> QED
  BY <1>4, <1>5, <1>6, <1>9, Zenon DEF ChanInv, OwnedOnce, ValuesSent, SendWakesReceiver

\* Every step preserves the invariant.
LEMMA ChanInvStep == ChanInv /\ [Next]_vars => ChanInv'
<1> SUFFICES ASSUME ChanInv, [Next]_vars
             PROVE  ChanInv'
  BY Zenon
<1>1. /\ OwnedOnce /\ ValuesSent /\ SendWakesReceiver /\ ChannelTypeOK /\ Apart(Lists, freed)
  BY Zenon DEF ChanInv, OwnedOnce
<1>2. SUFFICES ChannelTypeOK' /\ ValuesSent' /\ Apart(Lists, freed)' /\ SendWakesReceiver'
  BY Zenon DEF ChanInv, OwnedOnce
<1>3. CASE UNCHANGED vars
  <2>1. UNCHANGED <<roots, field, allocs, marked, freed, hard, q, open, at, cv, sends, holder>>
    BY <1>3, Zenon DEF vars, heapVars, chanVars
  <2>2. ChannelTypeOK' /\ ValuesSent'
    BY <1>1, <2>1, Zenon DEF ChannelTypeOK, ValuesSent
  <2>3. SendWakesReceiver'
    BY <1>1, <2>1, Zenon DEF SendWakesReceiver, Awake
  <2> QED
    BY <1>1, <2>1, <2>2, <2>3, SameLists, Zenon
<1>4. ASSUME NEW t \in Thread, Program(t)
      PROVE  ChanInv'
  <2>1. UNCHANGED <<q, at>>
    BY <1>4, Zenon DEF Program, chanVars
  <2>2. SendWakesReceiver'
    BY <1>1, <2>1, SameWakes, Zenon
  <2> QED
    BY <1>1, <1>4, <2>2, ProgramTyped, ProgramOwns, Zenon DEF ChanInv, OwnedOnce
<1>5. ASSUME NEW t \in Thread, Send(t)
      PROVE  ChanInv'
  <2>1. q' = q /\ at[t] = "run" /\ at' = [at EXCEPT ![t] = "push"]
    BY <1>5, Zenon DEF Send
  <2>2. SendWakesReceiver'
    BY <1>1, <2>1, SameWakes, Zenon
  <2> QED
    BY <1>1, <1>5, <2>2, SendTyped, SendOwns, Zenon DEF ChanInv, OwnedOnce
<1>6. ASSUME NEW t \in Thread, Push(t)
      PROVE  ChanInv'
  BY <1>1, <1>6, PushTyped, PushOwns, PushWakes, Zenon DEF ChanInv, OwnedOnce
<1>7. ASSUME NEW t \in Thread, RecvSome(t)
      PROVE  ChanInv'
  BY <1>1, <1>7, RecvSomeTyped, RecvSomeOwns, RecvSomeWakes, Zenon DEF ChanInv, OwnedOnce
<1>8. ASSUME NEW t \in Thread, Waits(t)
      PROVE  ChanInv'
  <2>1. ChannelTypeOK' /\ ValuesSent' /\ UNCHANGED <<heapVars, q, cv>>
    BY <1>1, <1>8, WaitsTyped, Zenon
  <2>2. Apart(Lists, freed)'
    BY <1>1, <2>1, SameLists, Zenon DEF heapVars
  <2>3. SendWakesReceiver'
    <3>1. CASE Signal(t)
      BY <1>1, <3>1, SignalWakes, Zenon
    <3>2. CASE CallRecv(t) \/ RecvWait(t) \/ TimedOut(t) \/ RecvNone(t)
      BY <1>1, <3>2, OtherWakes, Zenon
    <3>3. CASE Close(t)
      <4>1. UNCHANGED <<q, at>>
        BY <3>3, Zenon DEF Close
      <4> QED
        BY <1>1, <4>1, SameWakes, Zenon
    <3> QED
      BY <1>8, <3>1, <3>2, <3>3, Zenon DEF Waits
  <2> QED
    BY <2>1, <2>2, <2>3, Zenon DEF ChanInv, OwnedOnce
<1> QED
  BY <1>2, <1>3, <1>4, <1>5, <1>6, <1>7, <1>8, Zenon DEF Next, Step, Waits, ChanInv, OwnedOnce

\* The invariant holds in every reachable state.
LEMMA ChanInvHolds == Spec => []ChanInv
BY ChanInvInit, ChanInvStep, PTL DEF Spec

\* However values are sent to and fro between threads that collect on their own,
\* an object is on one allocation list at most, a thread's or a message's, and a
\* freed object on none.
THEOREM ObjectsOwnedOnce == Spec => []OwnedOnce
<1>1. ChanInv => OwnedOnce
  BY Zenon DEF ChanInv
<1> QED
  BY <1>1, ChanInvHolds, PTL

\* While a receiver waits in recv there is a wakeup on its way for every value in
\* the channel, although a send signals after it has unlocked the channel.
THEOREM SendsWakeReceivers == Spec => []SendWakesReceiver
<1>1. ChanInv => SendWakesReceiver
  BY Zenon DEF ChanInv
<1> QED
  BY <1>1, ChanInvHolds, PTL
=============================================================================
