-------------------------- MODULE ComponentProofs ---------------------------
(***************************************************************************)
(* Three parts of the runtime that share no state with one another: the    *)
(* ring buffer, signal handlers and finalizers.                            *)
(*                                                                         *)
(* The ring buffer implements the double-ended sequence, for every set of  *)
(* values, every initial capacity of at least two slots and every bound.   *)
(*                                                                         *)
(* For any number of threads, signals and nested scans: no signal is lost, *)
(* compiled code is told of every pending one, and a registered handler is *)
(* there when its signal arrives.  The first two are inductive given the   *)
(* types.  The third is not: it needs to know that only one thread is in   *)
(* os.signal() for a signal that was not crossed, and that what this       *)
(* thread has told sigaction agrees with what it is about to store.        *)
(*                                                                         *)
(* For any number of objects: a sweep that calls finalizers frees nothing  *)
(* twice and loses nothing from its lists, frees nothing that the program  *)
(* can reach, and leaves a finalizer the member that its object allocated. *)
(* In the middle of a sweep a list is in two parts, the entries that were  *)
(* kept and those that are still to be visited, with stale ones between    *)
(* them.  The invariant says that the two parts hold what is not freed, in *)
(* order; which objects are safe from this sweep; and that a safe object   *)
(* refers to safe ones.                                                    *)
(***************************************************************************)
EXTENDS Queue, Signals, Finalizers, SequenceTheorems, TLAPS

(***************************************************************************)
(* The ring buffer.                                                        *)
(***************************************************************************)

\* The remainders the ring takes are of numbers below twice the capacity.
LEMMA ModSmall ==
  ASSUME NEW c \in Nat, NEW x \in Nat, x < c
  PROVE  x % c = x
OBVIOUS

\* The remainder of a number between the capacity and twice the capacity.
LEMMA ModWrap ==
  ASSUME NEW c \in Nat, NEW x \in Nat, c <= x, x < 2 * c
  PROVE  x % c = x - c
OBVIOUS

\* Adding the capacity does not change the remainder.
LEMMA ModPlus ==
  ASSUME NEW c \in Nat, NEW x \in Nat, x < c
  PROVE  (x + c) % c = x
OBVIOUS

\* _queue_count without the remainder.
LEMMA CountValue ==
  ASSUME NEW r, IsRing(r), r.cap # 0
  PROVE  /\ QueueCount(r) = IF r.head <= r.tail THEN r.tail - r.head
                                              ELSE r.tail - r.head + r.cap
         /\ QueueCount(r) \in 0 .. r.cap - 1
<1> DEFINE x == r.tail - r.head + r.cap
<1>1. r.cap \in Nat /\ r.head \in Nat /\ r.tail \in Nat
      /\ r.head < r.cap /\ r.tail < r.cap
  BY Zenon DEF IsRing
<1>2. CASE r.head <= r.tail
  <2>1. x \in Nat /\ r.cap <= x /\ x < 2 * r.cap
    BY <1>1, <1>2
  <2>2. x % r.cap = x - r.cap
    BY <1>1, <2>1, ModWrap, Zenon
  <2> QED
    BY <1>1, <1>2, <2>2 DEF QueueCount
<1>3. CASE ~ (r.head <= r.tail)
  <2>1. x \in Nat /\ x < r.cap
    BY <1>1, <1>3
  <2>2. x % r.cap = x
    BY <1>1, <2>1, ModSmall, Zenon
  <2> QED
    BY <1>1, <1>3, <2>2 DEF QueueCount
<1> QED
  BY <1>2, <1>3, Zenon

\* The slot of an element without the remainder.
LEMMA SlotValue ==
  ASSUME NEW r, IsRing(r), r.cap # 0, NEW i \in 0 .. r.cap - 1
  PROVE  /\ Slot(r, i) = IF r.head + i < r.cap THEN r.head + i
                                               ELSE r.head + i - r.cap
         /\ Slot(r, i) \in 0 .. r.cap - 1
<1>1. r.cap \in Nat /\ r.head \in Nat /\ r.head < r.cap
  BY Zenon DEF IsRing
<1>2. CASE r.head + i < r.cap
  <2>1. r.head + i \in Nat
    BY <1>1
  <2>2. (r.head + i) % r.cap = r.head + i
    BY <1>1, <1>2, <2>1, ModSmall, Zenon
  <2> QED
    BY <1>1, <1>2, <2>1, <2>2 DEF Slot
<1>3. CASE ~ (r.head + i < r.cap)
  <2>1. r.head + i \in Nat /\ r.cap <= r.head + i /\ r.head + i < 2 * r.cap
    BY <1>1, <1>3
  <2>2. (r.head + i) % r.cap = r.head + i - r.cap
    BY <1>1, <2>1, ModWrap
  <2> QED
    BY <1>1, <1>3, <2>1, <2>2 DEF Slot
<1> QED
  BY <1>2, <1>3, Zenon

\* The neighbours of a slot without the remainder.
LEMMA NeighbourValue ==
  ASSUME NEW r, IsRing(r), r.cap # 0, NEW i \in 0 .. r.cap - 1
  PROVE  /\ SlotBefore(r, i) = IF i = 0 THEN r.cap - 1 ELSE i - 1
         /\ (i + 1) % r.cap  = IF i = r.cap - 1 THEN 0 ELSE i + 1
<1>1. r.cap \in Nat /\ r.cap >= 2
  BY Zenon DEF IsRing
<1>2. SlotBefore(r, i) = IF i = 0 THEN r.cap - 1 ELSE i - 1
  <2>1. CASE i = 0
    BY <1>1, <2>1, ModSmall DEF SlotBefore
  <2>2. CASE i # 0
    <3>1. i - 1 + r.cap \in Nat /\ r.cap <= i - 1 + r.cap /\ i - 1 + r.cap < 2 * r.cap
      BY <1>1, <2>2
    <3> QED
      BY <1>1, <2>2, <3>1, ModWrap DEF SlotBefore
  <2> QED
    BY <2>1, <2>2, Zenon
<1>3. (i + 1) % r.cap = IF i = r.cap - 1 THEN 0 ELSE i + 1
  <2>1. CASE i = r.cap - 1
    <3>1. i + 1 \in Nat /\ r.cap <= i + 1 /\ i + 1 < 2 * r.cap
      BY <1>1, <2>1
    <3> QED
      BY <1>1, <2>1, <3>1, ModWrap
  <2>2. CASE i # r.cap - 1
    BY <1>1, <2>2, ModSmall
  <2> QED
    BY <2>1, <2>2, Zenon
<1> QED
  BY <1>2, <1>3, Zenon

\* The elements form a sequence of values, as long as the count.
LEMMA ElementsType ==
  ASSUME NEW r, IsRing(r)
  PROVE  /\ QueueCount(r) \in Nat
         /\ Elements(r) \in Seq(Value)
         /\ Len(Elements(r)) = QueueCount(r)
         /\ \A i \in 1 .. QueueCount(r) : Elements(r)[i] = r.items[Slot(r, i - 1)]
<1>1. QueueCount(r) \in Nat
  BY CountValue DEF QueueCount
<1>2. \A i \in 1 .. QueueCount(r) : r.items[Slot(r, i - 1)] \in Value
  <2> TAKE i \in 1 .. QueueCount(r)
  <2>1. i - 1 \in 0 .. QueueCount(r) - 1
    BY <1>1
  <2> QED
    BY <2>1, Zenon DEF IsRing
<1> QED
  BY <1>1, <1>2 DEF Elements

\* _queue_grow keeps the elements and leaves room for another one, at
\* either end.
LEMMA GrowRing ==
  ASSUME NEW r, IsRing(r)
  PROVE  /\ IsRing(QueueGrow(r))
         /\ QueueGrow(r).cap # 0
         /\ Elements(QueueGrow(r)) = Elements(r)
         /\ QueueCount(QueueGrow(r)) + 1 < QueueGrow(r).cap
<1> DEFINE n == QueueCount(r)
           g == QueueGrow(r)
<1>1. n \in Nat /\ (r.cap # 0 => n < r.cap) /\ (r.cap = 0 => n = 0)
  <2>1. CASE r.cap = 0
    BY <2>1, Zenon DEF QueueCount
  <2>2. CASE r.cap # 0
    <3>1. r.cap \in Nat
      BY Zenon DEF IsRing
    <3> QED
      BY <2>2, <3>1, CountValue
  <2> QED
    BY <2>1, <2>2, Zenon
<1>2. r.cap \in Nat /\ (r.cap # 0 => r.cap >= 2)
  BY Zenon DEF IsRing
<1>3. g.cap = (IF r.cap = 0 THEN InitialCap ELSE r.cap * 2)
      /\ g.head = 0 /\ g.tail = n
  BY Zenon DEF QueueGrow
<1>4. g.cap \in Nat /\ g.cap >= 2 /\ n + 1 < g.cap
  BY <1>1, <1>2, <1>3, QueueAssumption
<1>5. \A i \in 0 .. g.cap - 1 :
         g.items[i] = IF i < n THEN r.items[Slot(r, i)] ELSE Junk
  BY <1>3, Zenon DEF QueueGrow
<1>6. \A i \in 0 .. n - 1 : r.items[Slot(r, i)] \in Value
  BY Zenon DEF IsRing
<1>7. g.items \in [0 .. g.cap - 1 -> Value \cup {Junk}]
  BY <1>3, <1>1, <1>6 DEF QueueGrow
<1>8. QueueCount(g) = n
  <2>1. (g.tail - g.head + g.cap) = n + g.cap
    BY <1>1, <1>3, <1>4
  <2>2. (n + g.cap) % g.cap = n
    <3> HIDE DEF n, g
    <3> QED
      BY <1>1, <1>4, ModPlus
  <2> QED
    BY <1>4, <2>1, <2>2 DEF QueueCount
<1>9. \A i \in 0 .. n - 1 : Slot(g, i) = i
  BY <1>1, <1>3, <1>4, ModSmall DEF Slot
<1>10. IsRing(g)
  <2>1. g = [items |-> g.items, head |-> g.head, tail |-> g.tail, cap |-> g.cap]
    BY Zenon DEF QueueGrow
  <2>2. \A i \in 0 .. QueueCount(g) - 1 : g.items[Slot(g, i)] \in Value
    BY <1>1, <1>4, <1>5, <1>6, <1>8, <1>9
  <2> QED
    BY <1>1, <1>3, <1>4, <1>7, <2>1, <2>2 DEF IsRing
<1>11. Elements(g) = Elements(r)
  <2>1. \A i \in 1 .. n : g.items[Slot(g, i - 1)] = r.items[Slot(r, i - 1)]
    <3> TAKE i \in 1 .. n
    <3>1. i - 1 \in 0 .. n - 1 /\ i - 1 \in 0 .. g.cap - 1 /\ i - 1 < n
      BY <1>1, <1>4
    <3> QED
      BY <1>5, <1>9, <3>1, Zenon
  <2> QED
    BY <1>8, <2>1, Zenon DEF Elements
<1> QED
  BY <1>4, <1>8, <1>10, <1>11

\* A ring that is not full has a free slot besides the one it always keeps.
LEMMA NotFull ==
  ASSUME NEW r, IsRing(r), ~ FullAtBack(r) \/ ~ FullAtFront(r)
  PROVE  r.cap # 0 /\ QueueCount(r) + 1 < r.cap
<1>1. r.cap # 0
  BY Zenon DEF FullAtBack, FullAtFront
<1>2. r.cap \in Nat /\ r.cap >= 2 /\ r.head \in 0 .. r.cap - 1 /\ r.tail \in 0 .. r.cap - 1
  BY <1>1 DEF IsRing
<1>3. ~ ((r.tail + 1) % r.cap = r.head) \/ ~ (SlotBefore(r, r.head) = r.tail)
  BY Zenon DEF FullAtBack, FullAtFront
<1>4. /\ (r.tail + 1) % r.cap = IF r.tail = r.cap - 1 THEN 0 ELSE r.tail + 1
      /\ SlotBefore(r, r.head) = IF r.head = 0 THEN r.cap - 1 ELSE r.head - 1
  BY <1>1, <1>2, NeighbourValue, Zenon
<1>5. QueueCount(r) = IF r.head <= r.tail THEN r.tail - r.head
                                          ELSE r.tail - r.head + r.cap
  BY <1>1, CountValue, Zenon
<1>6. ~ (r.tail = r.cap - 1 /\ r.head = 0) /\ ~ (r.head = r.tail + 1)
  BY <1>2, <1>3, <1>4
<1> QED
  BY <1>1, <1>2, <1>5, <1>6

\* Storing at the back appends.
LEMMA StoreBackRing ==
  ASSUME NEW r, IsRing(r), r.cap # 0, QueueCount(r) + 1 < r.cap, NEW v \in Value
  PROVE  /\ IsRing(StoreBack(r, v))
         /\ Elements(StoreBack(r, v)) = Append(Elements(r), v)
<1> DEFINE s == StoreBack(r, v)
           n == QueueCount(r)
<1>1. r.cap \in Nat /\ r.cap >= 2 /\ r.head \in 0 .. r.cap - 1 /\ r.tail \in 0 .. r.cap - 1
      /\ r.items \in [0 .. r.cap - 1 -> Value \cup {Junk}]
      /\ r = [items |-> r.items, head |-> r.head, tail |-> r.tail, cap |-> r.cap]
  BY DEF IsRing
<1>2. s = [items |-> [r.items EXCEPT ![r.tail] = v], head |-> r.head,
           tail |-> (r.tail + 1) % r.cap, cap |-> r.cap]
  BY Zenon DEF StoreBack
<1>3. (r.tail + 1) % r.cap = IF r.tail = r.cap - 1 THEN 0 ELSE r.tail + 1
  BY <1>1, NeighbourValue, Zenon
<1>4. n = IF r.head <= r.tail THEN r.tail - r.head ELSE r.tail - r.head + r.cap
  BY CountValue, Zenon
<1>5. s.head = r.head /\ s.cap = r.cap /\ s.tail = (r.tail + 1) % r.cap
      /\ s.items = [r.items EXCEPT ![r.tail] = v]
  BY <1>2
<1>6. QueueCount(s) = n + 1 /\ n \in Nat /\ n + 1 < r.cap
  <2>1. s.tail - s.head + s.cap =
          IF r.tail = r.cap - 1 THEN 0 - r.head + r.cap ELSE r.tail + 1 - r.head + r.cap
    BY <1>1, <1>3, <1>5, SMTT(90)
  <2>2. n \in Nat /\ n + 1 \in Nat /\ n + 1 < r.cap
    BY <1>1, <1>4, SMTT(90)
  <2>3. s.tail - s.head + s.cap = n + 1 \/ s.tail - s.head + s.cap = n + 1 + r.cap
    BY <1>1, <1>4, <2>1
  <2>4. (n + 1) % r.cap = n + 1 /\ (n + 1 + r.cap) % r.cap = n + 1
    <3> HIDE DEF n
    <3> QED
      BY <1>1, <2>2, ModSmall, ModPlus, Zenon
  <2>5. QueueCount(s) = (s.tail - s.head + s.cap) % r.cap
    BY <1>1, <1>5, Zenon DEF QueueCount
  <2> QED
    BY <1>1, <2>2, <2>3, <2>4, <2>5, Zenon
<1>7. \A i \in 0 .. r.cap - 1 : Slot(s, i) = Slot(r, i)
  BY <1>5, Zenon DEF Slot
<1>8. Slot(r, n) = r.tail
  BY <1>1, <1>4, <1>6, SlotValue, SMTT(90)
<1>9. \A i \in 0 .. n - 1 : Slot(r, i) # r.tail /\ Slot(r, i) \in 0 .. r.cap - 1
  <2> TAKE i \in 0 .. n - 1
  <2>1. i \in 0 .. r.cap - 1 /\ i < n
    BY <1>1, <1>6
  <2>2. /\ Slot(r, i) = IF r.head + i < r.cap THEN r.head + i ELSE r.head + i - r.cap
        /\ Slot(r, i) \in 0 .. r.cap - 1
    BY <2>1, SlotValue, Zenon
  <2> QED
    BY <1>1, <1>4, <2>1, <2>2, SMTT(90)
<1>10. \A i \in 0 .. n - 1 : s.items[Slot(s, i)] = r.items[Slot(r, i)]
                             /\ r.items[Slot(r, i)] \in Value
  <2>1. \A i \in 0 .. n - 1 : r.items[Slot(r, i)] \in Value
    BY Zenon DEF IsRing
  <2>2. \A i \in 0 .. n - 1 : i \in 0 .. r.cap - 1
    BY <1>1, <1>6
  <2> QED
    BY <1>1, <1>5, <1>7, <1>9, <2>1, <2>2, Zenon
<1>11. s.items[Slot(s, n)] = v
  BY <1>1, <1>5, <1>6, <1>7, <1>8, SMTT(90)
<1>12. IsRing(s)
  <2>1. s = [items |-> s.items, head |-> s.head, tail |-> s.tail, cap |-> s.cap]
    BY <1>2, Zenon
  <2>2. s.items \in [0 .. s.cap - 1 -> Value \cup {Junk}]
    BY <1>1, <1>5, Zenon
  <2>3. \A i \in 0 .. QueueCount(s) - 1 : s.items[Slot(s, i)] \in Value
    <3> TAKE i \in 0 .. QueueCount(s) - 1
    <3>1. i \in 0 .. n - 1 \/ i = n
      BY <1>6
    <3> QED
      BY <1>10, <1>11, <3>1, Zenon
  <2> QED
    BY <1>1, <1>3, <1>5, <2>1, <2>2, <2>3, SMTT(90) DEF IsRing
<1>13. Elements(s) = Append(Elements(r), v)
  <2>1. /\ Elements(r) \in Seq(Value) /\ Len(Elements(r)) = n
        /\ Elements(s) \in Seq(Value) /\ Len(Elements(s)) = n + 1
        /\ \A i \in 1 .. n : Elements(r)[i] = r.items[Slot(r, i - 1)]
        /\ \A i \in 1 .. n + 1 : Elements(s)[i] = s.items[Slot(s, i - 1)]
    BY <1>6, <1>12, ElementsType, Zenon
  <2>2. \A i \in 1 .. n : Elements(s)[i] = Elements(r)[i]
    <3> TAKE i \in 1 .. n
    <3>1. i - 1 \in 0 .. n - 1 /\ i \in 1 .. n + 1
      BY <1>6
    <3> QED
      BY <1>10, <2>1, <3>1, Zenon
  <2>3. Elements(s)[n + 1] = v
    <3>1. n + 1 \in 1 .. n + 1 /\ n + 1 - 1 = n
      BY <1>6, SMTT(90)
    <3> QED
      BY <1>11, <2>1, <3>1
  <2> HIDE DEF s, n
  <2> QED
    BY <1>6, <2>1, <2>2, <2>3
<1> QED
  BY <1>12, <1>13, Zenon

\* Storing at the front prepends.
LEMMA StoreFrontRing ==
  ASSUME NEW r, IsRing(r), r.cap # 0, QueueCount(r) + 1 < r.cap, NEW v \in Value
  PROVE  /\ IsRing(StoreFront(r, v))
         /\ Elements(StoreFront(r, v)) = <<v>> \o Elements(r)
<1> DEFINE s == StoreFront(r, v)
           n == QueueCount(r)
           h == SlotBefore(r, r.head)
<1>1. r.cap \in Nat /\ r.cap >= 2 /\ r.head \in 0 .. r.cap - 1 /\ r.tail \in 0 .. r.cap - 1
      /\ r.items \in [0 .. r.cap - 1 -> Value \cup {Junk}]
  BY DEF IsRing
<1>2. h = (IF r.head = 0 THEN r.cap - 1 ELSE r.head - 1) /\ h \in 0 .. r.cap - 1
  <2>1. h = IF r.head = 0 THEN r.cap - 1 ELSE r.head - 1
    BY <1>1, NeighbourValue, Zenon
  <2> QED
    BY <1>1, <2>1
<1>3. n = IF r.head <= r.tail THEN r.tail - r.head ELSE r.tail - r.head + r.cap
  BY CountValue, Zenon
<1>4. s = [items |-> [r.items EXCEPT ![h] = v], head |-> h,
           tail |-> r.tail, cap |-> r.cap]
  BY Zenon DEF StoreFront
<1>5. s.head = h /\ s.cap = r.cap /\ s.tail = r.tail
      /\ s.items = [r.items EXCEPT ![h] = v]
  BY <1>4
<1>6. QueueCount(s) = n + 1 /\ n \in Nat /\ n + 1 < r.cap
  <2>1. n \in Nat /\ n + 1 \in Nat /\ n + 1 < r.cap
    BY <1>1, <1>3, SMTT(90)
  <2>2. s.tail - s.head + s.cap = n + 1 \/ s.tail - s.head + s.cap = n + 1 + r.cap
    BY <1>1, <1>2, <1>3, <1>5, SMTT(90)
  <2>3. (n + 1) % r.cap = n + 1 /\ (n + 1 + r.cap) % r.cap = n + 1
    <3> HIDE DEF n
    <3> QED
      BY <1>1, <2>1, ModSmall, ModPlus, Zenon
  <2>4. QueueCount(s) = (s.tail - s.head + s.cap) % r.cap
    BY <1>1, <1>5, Zenon DEF QueueCount
  <2> QED
    BY <1>1, <2>1, <2>2, <2>3, <2>4, Zenon
<1>7. Slot(s, 0) = h
  BY <1>1, <1>2, <1>5, ModSmall, SMTT(90) DEF Slot
<1>8. \A i \in 0 .. n - 1 : /\ Slot(s, i + 1) = Slot(r, i)
                            /\ Slot(r, i) # h
                            /\ Slot(r, i) \in 0 .. r.cap - 1
  <2> TAKE i \in 0 .. n - 1
  <2>1. i \in 0 .. r.cap - 1 /\ i < n
    BY <1>1, <1>6
  <2>2. /\ Slot(r, i) = IF r.head + i < r.cap THEN r.head + i ELSE r.head + i - r.cap
        /\ Slot(r, i) \in 0 .. r.cap - 1
    BY <2>1, SlotValue, Zenon
  <2>3. Slot(s, i + 1) = (h + (i + 1)) % r.cap
    BY <1>5, Zenon DEF Slot
  <2>4. h + (i + 1) = IF r.head = 0 THEN r.cap + i ELSE r.head + i
    BY <1>1, <1>2, <2>1, SMTT(90)
  <2>5. Slot(r, i) = (r.head + i) % r.cap
    BY Zenon DEF Slot
  <2>6. (r.cap + i) % r.cap = i
    BY <1>1, <2>1, ModPlus, SMTT(90)
  <2>7. i % r.cap = i
    BY <1>1, <2>1, ModSmall
  <2>8. Slot(s, i + 1) = Slot(r, i)
    <3>1. CASE r.head = 0
      BY <1>1, <2>1, <2>2, <2>3, <2>4, <2>6, <3>1
    <3>2. CASE r.head # 0
      BY <2>3, <2>4, <2>5, <3>2, Zenon
    <3> QED
      BY <3>1, <3>2, Zenon
  <2>9. Slot(r, i) # h
    <3> HIDE DEF n, h
    <3>1. i + 1 < r.cap
      BY <1>1, <1>6, <2>1
    <3> QED
      BY <1>1, <1>2, <2>1, <2>2, <3>1, SMTT(90)
  <2> QED
    BY <2>2, <2>8, <2>9, Zenon
<1>9. s.items[Slot(s, 0)] = v
  BY <1>1, <1>2, <1>5, <1>7, Zenon
<1>10. \A i \in 0 .. n - 1 : s.items[Slot(s, i + 1)] = r.items[Slot(r, i)]
                             /\ r.items[Slot(r, i)] \in Value
  <2>1. \A i \in 0 .. n - 1 : r.items[Slot(r, i)] \in Value
    BY Zenon DEF IsRing
  <2> QED
    BY <1>1, <1>5, <1>8, <2>1, Zenon
<1>11. IsRing(s)
  <2>1. s = [items |-> s.items, head |-> s.head, tail |-> s.tail, cap |-> s.cap]
    BY <1>4, Zenon
  <2>2. s.items \in [0 .. s.cap - 1 -> Value \cup {Junk}]
    BY <1>1, <1>2, <1>5, Zenon
  <2>3. \A i \in 0 .. QueueCount(s) - 1 : s.items[Slot(s, i)] \in Value
    <3> TAKE i \in 0 .. QueueCount(s) - 1
    <3>1. CASE i = 0
      BY <1>9, <3>1, Zenon
    <3>2. CASE i # 0
      <4>1. i - 1 \in 0 .. n - 1 /\ (i - 1) + 1 = i
        BY <1>6, <3>2
      <4> QED
        BY <1>10, <4>1, Zenon
    <3> QED
      BY <3>1, <3>2, Zenon
  <2> QED
    BY <1>1, <1>2, <1>5, <2>1, <2>2, <2>3 DEF IsRing
<1>12. Elements(s) = <<v>> \o Elements(r)
  <2>1. /\ Elements(r) \in Seq(Value) /\ Len(Elements(r)) = n
        /\ Elements(s) \in Seq(Value) /\ Len(Elements(s)) = n + 1
        /\ \A i \in 1 .. n : Elements(r)[i] = r.items[Slot(r, i - 1)]
        /\ \A i \in 1 .. n + 1 : Elements(s)[i] = s.items[Slot(s, i - 1)]
    BY <1>6, <1>11, ElementsType, Zenon
  <2>2. \A i \in 1 .. n : Elements(s)[i + 1] = Elements(r)[i]
    <3> TAKE i \in 1 .. n
    <3>1. /\ i - 1 \in 0 .. n - 1 /\ i + 1 \in 1 .. n + 1
          /\ (i - 1) + 1 = i /\ (i + 1) - 1 = i
      BY <1>6
    <3> QED
      BY <1>10, <2>1, <3>1, SMTT(90)
  <2>3. Elements(s)[1] = v
    BY <1>6, <1>9, <2>1
  <2> HIDE DEF s, n
  <2> QED
    BY <1>6, <2>1, <2>2, <2>3
<1> QED
  BY <1>11, <1>12, Zenon

\* Removing at either end of a ring that is not empty.
LEMMA PopFrontRing ==
  ASSUME NEW r, IsRing(r), QueueCount(r) # 0
  PROVE  /\ IsRing(PopFront(r))
         /\ Elements(PopFront(r)) = Tail(Elements(r))
         /\ Elements(r) # <<>>
         /\ Front(r) = Head(Elements(r))
<1> DEFINE s == PopFront(r)
           n == QueueCount(r)
<1>0. r.cap # 0
  BY Zenon DEF QueueCount
<1>1. r.cap \in Nat /\ r.cap >= 2 /\ r.head \in 0 .. r.cap - 1 /\ r.tail \in 0 .. r.cap - 1
      /\ r.items \in [0 .. r.cap - 1 -> Value \cup {Junk}]
  BY <1>0 DEF IsRing
<1>2. (r.head + 1) % r.cap = IF r.head = r.cap - 1 THEN 0 ELSE r.head + 1
  BY <1>0, <1>1, NeighbourValue, Zenon
<1>3. n = (IF r.head <= r.tail THEN r.tail - r.head ELSE r.tail - r.head + r.cap)
      /\ n \in 1 .. r.cap - 1
  BY <1>0, <1>1, CountValue
<1>4. s = [items |-> r.items, head |-> (r.head + 1) % r.cap,
           tail |-> r.tail, cap |-> r.cap]
  BY DEF PopFront, IsRing
<1>5. s.head = (r.head + 1) % r.cap /\ s.cap = r.cap /\ s.tail = r.tail
      /\ s.items = r.items
  BY <1>4
<1>6. QueueCount(s) = n - 1 /\ n \in Nat /\ n - 1 \in Nat /\ n < r.cap
  <2>1. n \in Nat /\ n - 1 \in Nat /\ n - 1 < r.cap /\ n < r.cap
    BY <1>1, <1>3, SMTT(90)
  <2>2. s.tail - s.head + s.cap = n - 1 \/ s.tail - s.head + s.cap = n - 1 + r.cap
    <3>1. CASE r.head = r.cap - 1
      BY <1>1, <1>2, <1>3, <1>5, <3>1, SMTT(90)
    <3>2. CASE r.head # r.cap - 1
      <4>1. s.tail - s.head + s.cap = r.tail - (r.head + 1) + r.cap
        BY <1>2, <1>5, <3>2, Zenon
      <4>2. CASE r.head <= r.tail
        BY <1>1, <1>3, <4>1, <4>2
      <4>3. CASE ~ (r.head <= r.tail)
        BY <1>1, <1>3, <4>1, <4>3, SMTT(90)
      <4> QED
        BY <4>2, <4>3, Zenon
    <3> QED
      BY <3>1, <3>2, Zenon
  <2>3. (n - 1) % r.cap = n - 1 /\ (n - 1 + r.cap) % r.cap = n - 1
    <3> HIDE DEF n
    <3> QED
      BY <1>1, <2>1, ModSmall, ModPlus, Zenon
  <2>4. QueueCount(s) = (s.tail - s.head + s.cap) % r.cap
    BY <1>1, <1>5, Zenon DEF QueueCount
  <2> QED
    BY <1>1, <2>1, <2>2, <2>3, <2>4, Zenon
<1>7. \A i \in 0 .. n - 2 : Slot(s, i) = Slot(r, i + 1)
  <2> TAKE i \in 0 .. n - 2
  <2>1. i \in 0 .. r.cap - 1 /\ i + 1 \in 0 .. r.cap - 1
    BY <1>1, <1>6, SMTT(90)
  <2>2. Slot(r, i + 1) = IF r.head + (i + 1) < r.cap THEN r.head + (i + 1)
                                                     ELSE r.head + (i + 1) - r.cap
    BY <1>0, <2>1, SlotValue, Zenon
  <2>3. Slot(s, i) = (((r.head + 1) % r.cap) + i) % r.cap
    BY <1>5, Zenon DEF Slot
  <2>4. CASE r.head = r.cap - 1
    <3>1. Slot(s, i) = i % r.cap
      BY <1>1, <1>2, <2>1, <2>3, <2>4
    <3>2. i % r.cap = i
      BY <1>1, <2>1, ModSmall
    <3>3. Slot(r, i + 1) = i
      BY <1>1, <2>1, <2>2, <2>4
    <3> QED
      BY <3>1, <3>2, <3>3, Zenon
  <2>5. CASE r.head # r.cap - 1
    <3>1. Slot(s, i) = (r.head + 1 + i) % r.cap
      BY <1>2, <2>3, <2>5, Zenon
    <3>2. r.head + 1 + i = r.head + (i + 1)
      BY <1>1, <2>1, SMTT(90)
    <3> QED
      BY <3>1, <3>2, Zenon DEF Slot
  <2> QED
    BY <2>4, <2>5, Zenon
<1>8. \A i \in 0 .. n - 1 : r.items[Slot(r, i)] \in Value
  BY Zenon DEF IsRing
<1>9. IsRing(s)
  <2>1. s = [items |-> s.items, head |-> s.head, tail |-> s.tail, cap |-> s.cap]
    BY <1>4, Zenon
  <2>2. \A i \in 0 .. QueueCount(s) - 1 : s.items[Slot(s, i)] \in Value
    <3> TAKE i \in 0 .. QueueCount(s) - 1
    <3>1. i \in 0 .. n - 2 /\ i + 1 \in 0 .. n - 1
      BY <1>6
    <3> QED
      BY <1>5, <1>7, <1>8, <3>1, Zenon
  <2> QED
    BY <1>1, <1>2, <1>5, <2>1, <2>2 DEF IsRing
<1>10. /\ Elements(r) \in Seq(Value) /\ Len(Elements(r)) = n
       /\ Elements(s) \in Seq(Value) /\ Len(Elements(s)) = n - 1
       /\ \A i \in 1 .. n : Elements(r)[i] = r.items[Slot(r, i - 1)]
       /\ \A i \in 1 .. n - 1 : Elements(s)[i] = s.items[Slot(s, i - 1)]
  BY <1>6, <1>9, ElementsType, Zenon
<1>11. Elements(s) = Tail(Elements(r))
  <2>1. \A i \in 1 .. n - 1 : Elements(s)[i] = Elements(r)[i + 1]
    <3> TAKE i \in 1 .. n - 1
    <3>1. /\ i - 1 \in 0 .. n - 2 /\ i + 1 \in 1 .. n
          /\ (i - 1) + 1 = i /\ (i + 1) - 1 = i
      BY <1>6
    <3> QED
      BY <1>5, <1>7, <1>10, <3>1, SMTT(90)
  <2> HIDE DEF s, n
  <2> QED
    BY <1>6, <1>10, <2>1
<1>12. Elements(r) # <<>>
  BY <1>10, <1>3, Zenon
<1>13. Front(r) = Head(Elements(r))
  <2>1. Slot(r, 0) = r.head
    BY <1>1, ModSmall DEF Slot
  <2>2. Elements(r)[1] = r.items[Slot(r, 0)]
    BY <1>3, <1>10
  <2> QED
    BY <1>10, <1>12, <2>1, <2>2 DEF Front
<1> QED
  BY <1>9, <1>11, <1>12, <1>13, Zenon

\* The same at the back (queue_pop_back).
LEMMA PopBackRing ==
  ASSUME NEW r, IsRing(r), QueueCount(r) # 0
  PROVE  /\ IsRing(PopBack(r))
         /\ Elements(PopBack(r)) = SubSeq(Elements(r), 1, Len(Elements(r)) - 1)
         /\ Elements(r) # <<>>
         /\ Back(r) = Elements(r)[Len(Elements(r))]
<1> DEFINE s == PopBack(r)
           n == QueueCount(r)
           b == SlotBefore(r, r.tail)
<1>0. r.cap # 0
  BY Zenon DEF QueueCount
<1>1. r.cap \in Nat /\ r.cap >= 2 /\ r.head \in 0 .. r.cap - 1 /\ r.tail \in 0 .. r.cap - 1
      /\ r.items \in [0 .. r.cap - 1 -> Value \cup {Junk}]
  BY <1>0 DEF IsRing
<1>2. b = (IF r.tail = 0 THEN r.cap - 1 ELSE r.tail - 1) /\ b \in 0 .. r.cap - 1
  <2>1. b = IF r.tail = 0 THEN r.cap - 1 ELSE r.tail - 1
    BY <1>0, <1>1, NeighbourValue, Zenon
  <2> QED
    BY <1>1, <2>1
<1>3. n = (IF r.head <= r.tail THEN r.tail - r.head ELSE r.tail - r.head + r.cap)
      /\ n \in 1 .. r.cap - 1
  BY <1>0, <1>1, CountValue
<1>4. s = [items |-> r.items, head |-> r.head, tail |-> b, cap |-> r.cap]
  BY DEF PopBack, IsRing
<1>5. s.head = r.head /\ s.cap = r.cap /\ s.tail = b /\ s.items = r.items
  BY <1>4
<1>6. QueueCount(s) = n - 1 /\ n \in Nat /\ n - 1 \in Nat /\ n < r.cap
  <2>1. n \in Nat /\ n - 1 \in Nat /\ n - 1 < r.cap /\ n < r.cap
    BY <1>1, <1>3, SMTT(90)
  <2>2. s.tail - s.head + s.cap = n - 1 \/ s.tail - s.head + s.cap = n - 1 + r.cap
    <3>1. CASE r.tail = 0
      <4>1. s.tail - s.head + s.cap = r.cap - 1 - r.head + r.cap
        BY <1>2, <1>5, <3>1, Zenon
      <4> QED
        BY <1>1, <1>3, <3>1, <4>1, SMTT(90)
    <3>2. CASE r.tail # 0
      <4>1. s.tail - s.head + s.cap = r.tail - 1 - r.head + r.cap
        BY <1>2, <1>5, <3>2, Zenon
      <4>2. CASE r.head <= r.tail
        BY <1>1, <1>3, <4>1, <4>2, SMTT(90)
      <4>3. CASE ~ (r.head <= r.tail)
        BY <1>1, <1>3, <4>1, <4>3, SMTT(90)
      <4> QED
        BY <4>2, <4>3, Zenon
    <3> QED
      BY <3>1, <3>2, Zenon
  <2>3. (n - 1) % r.cap = n - 1 /\ (n - 1 + r.cap) % r.cap = n - 1
    <3> HIDE DEF n
    <3> QED
      BY <1>1, <2>1, ModSmall, ModPlus, Zenon
  <2>4. QueueCount(s) = (s.tail - s.head + s.cap) % r.cap
    BY <1>1, <1>5, Zenon DEF QueueCount
  <2> QED
    BY <1>1, <2>1, <2>2, <2>3, <2>4, Zenon
<1>7. \A i \in 0 .. n - 1 : Slot(s, i) = Slot(r, i)
  BY <1>5, Zenon DEF Slot
<1>8. \A i \in 0 .. n - 1 : r.items[Slot(r, i)] \in Value
  BY Zenon DEF IsRing
<1>9. IsRing(s)
  <2>1. s = [items |-> s.items, head |-> s.head, tail |-> s.tail, cap |-> s.cap]
    BY <1>4, Zenon
  <2>2. \A i \in 0 .. QueueCount(s) - 1 : s.items[Slot(s, i)] \in Value
    <3> TAKE i \in 0 .. QueueCount(s) - 1
    <3>1. i \in 0 .. n - 1
      BY <1>6
    <3> QED
      BY <1>5, <1>7, <1>8, <3>1, Zenon
  <2> QED
    BY <1>1, <1>2, <1>5, <2>1, <2>2 DEF IsRing
<1>10. /\ Elements(r) \in Seq(Value) /\ Len(Elements(r)) = n
       /\ Elements(s) \in Seq(Value) /\ Len(Elements(s)) = n - 1
       /\ \A i \in 1 .. n : Elements(r)[i] = r.items[Slot(r, i - 1)]
       /\ \A i \in 1 .. n - 1 : Elements(s)[i] = s.items[Slot(s, i - 1)]
  BY <1>6, <1>9, ElementsType, Zenon
<1>11. Elements(s) = SubSeq(Elements(r), 1, Len(Elements(r)) - 1)
  <2>1. \A i \in 1 .. n - 1 : Elements(s)[i] = Elements(r)[i]
    <3> TAKE i \in 1 .. n - 1
    <3>1. i - 1 \in 0 .. n - 1 /\ i \in 1 .. n
      BY <1>6
    <3> QED
      BY <1>5, <1>7, <1>10, <3>1, Zenon
  <2> HIDE DEF s, n
  <2> QED
    BY <1>6, <1>10, <2>1
<1>12. Elements(r) # <<>>
  BY <1>10, <1>3, Zenon
<1>13. Back(r) = Elements(r)[Len(Elements(r))]
  <2>1. n - 1 \in 0 .. r.cap - 1
    BY <1>1, <1>6
  <2>2. Slot(r, n - 1) = IF r.head + (n - 1) < r.cap THEN r.head + (n - 1)
                                                     ELSE r.head + (n - 1) - r.cap
    BY <1>0, <2>1, SlotValue, Zenon
  <2>3. Slot(r, n - 1) = b
    <3>1. CASE r.head <= r.tail
      <4>1. n = r.tail - r.head /\ r.tail # 0
        BY <1>1, <1>3, <3>1
      <4>2. b = r.tail - 1
        BY <1>2, <4>1, Zenon
      <4> QED
        BY <1>1, <2>2, <4>1, <4>2
    <3>2. CASE ~ (r.head <= r.tail) /\ r.tail = 0
      <4>1. n = r.cap - r.head /\ b = r.cap - 1
        BY <1>1, <1>2, <1>3, <3>2, SMTT(90)
      <4> QED
        BY <1>1, <2>2, <4>1
    <3>3. CASE ~ (r.head <= r.tail) /\ r.tail # 0
      <4>1. n = r.tail - r.head + r.cap /\ b = r.tail - 1
        BY <1>1, <1>2, <1>3, <3>3, Zenon
      <4> QED
        BY <1>1, <2>2, <3>3, <4>1, SMTT(90)
    <3> QED
      BY <3>1, <3>2, <3>3, Zenon
  <2>4. Elements(r)[n] = r.items[Slot(r, n - 1)]
    BY <1>3, <1>6, <1>10
  <2> QED
    BY <1>10, <2>3, <2>4, Zenon DEF Back
<1> QED
  BY <1>9, <1>11, <1>12, <1>13, Zenon

\* Clearing, and a fresh queue, leave nothing.
LEMMA EmptyRing ==
  ASSUME NEW r, IsRing(r), QueueCount(r) = 0
  PROVE  Elements(r) = <<>>
BY DEF Elements

\* queue_clear leaves a ring without elements.
LEMMA ClearRing ==
  ASSUME NEW r, IsRing(r)
  PROVE  IsRing(QueueClear(r)) /\ QueueCount(QueueClear(r)) = 0
<1> DEFINE s == QueueClear(r)
<1>1. s = [items |-> r.items, head |-> 0, tail |-> 0, cap |-> r.cap]
  BY Zenon DEF QueueClear
<1>2. s.items = r.items /\ s.head = 0 /\ s.tail = 0 /\ s.cap = r.cap
  BY <1>1
<1>3. r.cap \in Nat /\ (r.cap # 0 => r.cap >= 2)
      /\ r.items \in [0 .. r.cap - 1 -> Value \cup {Junk}]
  BY Zenon DEF IsRing
<1>4. QueueCount(s) = 0
  <2>1. CASE r.cap = 0
    BY <1>2, <2>1, Zenon DEF QueueCount
  <2>2. CASE r.cap # 0
    <3>1. (0 + r.cap) % r.cap = 0
      BY <1>3, <2>2, ModPlus
    <3> QED
      BY <1>2, <1>3, <2>2, <3>1 DEF QueueCount
  <2> QED
    BY <2>1, <2>2, Zenon
<1>5. s = [items |-> s.items, head |-> s.head, tail |-> s.tail, cap |-> s.cap]
  BY <1>1, Zenon
<1>6. \A i \in 0 .. QueueCount(s) - 1 : s.items[Slot(s, i)] \in Value
  BY <1>4
<1> QED
  BY <1>2, <1>3, <1>4, <1>5, <1>6 DEF IsRing

\* Pushing at either end, growth included.
LEMMA PushBackRing ==
  ASSUME NEW r, IsRing(r), NEW v \in Value
  PROVE  /\ IsRing(PushBackOne(r, v))
         /\ Elements(PushBackOne(r, v)) = Append(Elements(r), v)
<1>1. CASE FullAtBack(r)
  BY <1>1, GrowRing, StoreBackRing, Zenon DEF PushBackOne
<1>2. CASE ~ FullAtBack(r)
  BY <1>2, NotFull, StoreBackRing, Zenon DEF PushBackOne
<1> QED
  BY <1>1, <1>2, Zenon

\* _queue_push_front prepends to the elements.
LEMMA PushFrontRing ==
  ASSUME NEW r, IsRing(r), NEW v \in Value
  PROVE  /\ IsRing(PushFrontOne(r, v))
         /\ Elements(PushFrontOne(r, v)) = <<v>> \o Elements(r)
<1>1. CASE FullAtFront(r)
  BY <1>1, GrowRing, StoreFrontRing, Zenon DEF PushFrontOne
<1>2. CASE ~ FullAtFront(r)
  BY <1>2, NotFull, StoreFrontRing, Zenon DEF PushFrontOne
<1> QED
  BY <1>1, <1>2, Zenon

-----------------------------------------------------------------------------
\* The ring of a fresh queue.
LEMMA NewRing == IsRing(QueueNew) /\ QueueCount(QueueNew) = 0
BY SMTT(90) DEF QueueNew, IsRing, QueueCount

\* A new queue is well formed.
LEMMA TypeInit == Init => TypeOK
<1> SUFFICES ASSUME Init PROVE TypeOK
  OBVIOUS
<1>1. IsRing(q)
  BY NewRing, Zenon DEF Init
<1> QED
  BY <1>1 DEF Init, TypeOK

\* The arguments a loop has not consumed yet are arguments.
LEMMA Prefix ==
  ASSUME NEW S, NEW t \in Seq(S), NEW m \in Nat, m <= Len(t)
  PROVE  SubSeq(t, 1, m) \in Seq(S) /\ Len(SubSeq(t, 1, m)) = m
<1>1. m \in Int /\ 1 \in Int /\ \A i \in 1 .. m : t[i] \in S
  OBVIOUS
<1>2. /\ SubSeq(t, 1, m) \in Seq(S)
      /\ Len(SubSeq(t, 1, m)) = IF 1 <= m THEN m - 1 + 1 ELSE 0
  BY <1>1, SubSeqProperties
<1>3. (IF 1 <= m THEN m - 1 + 1 ELSE 0) = m
  OBVIOUS
<1> QED
  BY <1>2, <1>3

\* The loops of push and pushFront consume one argument an iteration.
LEMMA ArgsStep ==
  ASSUME TypeOK, method # "none"
  PROVE  /\ Len(args) \in Nat \ {0}
         /\ Head(args) \in Value /\ args[Len(args)] \in Value
         /\ Tail(args) \in Seq(Value)
         /\ SubSeq(args, 1, Len(args) - 1) \in Seq(Value)
         /\ (Tail(args) = <<>>) <=> (Len(args) = 1)
         /\ (SubSeq(args, 1, Len(args) - 1) = <<>>) <=> (Len(args) = 1)
<1>1. args \in Seq(Value) /\ args # <<>>
  BY Zenon DEF TypeOK
<1>2. Len(args) \in Nat \ {0}
  BY <1>1
<1>10. Len(args) - 1 \in Nat /\ Len(args) - 1 <= Len(args)
  BY <1>2
<1>3. Head(args) \in Value /\ args[Len(args)] \in Value
  BY <1>1, <1>2
<1>4. Tail(args) \in Seq(Value) /\ Len(Tail(args)) = Len(args) - 1
  BY <1>1, <1>2
<1>5. /\ SubSeq(args, 1, Len(args) - 1) \in Seq(Value)
      /\ Len(SubSeq(args, 1, Len(args) - 1)) = Len(args) - 1
  BY <1>1, <1>2, <1>10, Prefix, Zenon
<1>6. \A t \in Seq(Value) : (t = <<>>) <=> (Len(t) = 0)
  OBVIOUS
<1>7. (Len(args) - 1 = 0) <=> (Len(args) = 1)
  BY <1>2
<1>8. (Tail(args) = <<>>) <=> (Len(args) = 1)
  BY <1>4, <1>6, <1>7, Zenon
<1>9. (SubSeq(args, 1, Len(args) - 1) = <<>>) <=> (Len(args) = 1)
  BY <1>5, <1>6, <1>7, Zenon
<1> QED
  BY <1>2, <1>3, <1>4, <1>5, <1>8, <1>9, Zenon

\* Every method keeps the queue well formed.
LEMMA TypeStep == TypeOK /\ [Next]_vars => TypeOK'
<1> SUFFICES ASSUME TypeOK, [Next]_vars PROVE TypeOK'
  OBVIOUS
<1>0. IsRing(q)
  BY Zenon DEF TypeOK
<1>1. ASSUME NEW m \in {"push", "pushFront"}, Call(m) PROVE TypeOK'
  <2>1. PICK a \in ArgLists : args' = a
    BY <1>1, Zenon DEF Call
  <2>2. a \in Seq(Value) /\ a # <<>>
    BY DEF ArgLists
  <2> QED
    BY <1>0, <1>1, <2>1, <2>2, Zenon DEF Call, TypeOK
<1>2. CASE PushStep
  <2>1. IsRing(q')
    BY <1>0, <1>2, ArgsStep, PushBackRing, Zenon DEF PushStep
  <2> QED
    BY <1>2, <2>1, ArgsStep, Zenon DEF PushStep, LoopEnd, TypeOK
<1>3. CASE PushFrontStep
  <2>1. IsRing(q')
    BY <1>0, <1>3, ArgsStep, PushFrontRing, Zenon DEF PushFrontStep
  <2> QED
    BY <1>3, <2>1, ArgsStep, Zenon DEF PushFrontStep, LoopEnd, TypeOK
<1>4. ASSUME IsRing(q'), UNCHANGED <<method, args>> PROVE TypeOK'
  BY <1>4, Zenon DEF TypeOK
<1>5. ~ Empty => IsRing(PopFront(q)) /\ IsRing(PopBack(q))
  BY <1>0, PopFrontRing, PopBackRing, Zenon DEF Empty
<1>6. CASE Pop \/ PopLast \/ TryPop \/ TryPopLast
  BY <1>0, <1>4, <1>5, <1>6, Zenon DEF Pop, PopLast, TryPop, TryPopLast, Remove
<1>7. CASE Peek \/ PeekBack \/ TryPeek \/ TryPeekBack
  BY <1>0, <1>4, <1>7, Zenon DEF Peek, PeekBack, TryPeek, TryPeekBack, Remove
<1>8. CASE QLen \/ QEmpty \/ ToArray
  BY <1>0, <1>4, <1>8, Zenon DEF QLen, QEmpty, ToArray, Read
<1>9. CASE Clear
  BY <1>0, <1>4, <1>9, ClearRing, Zenon DEF Clear
<1>10. CASE UNCHANGED vars
  BY <1>10, Zenon DEF vars, TypeOK
<1> QED
  BY <1>1, <1>2, <1>3, <1>6, <1>7, <1>8, <1>9, <1>10, Zenon DEF Next, PushCall, PushFrontCall

\* The ring is always one the code can index, whatever is called in whatever
\* order.
THEOREM QueueTypeCorrect == Spec => []TypeOK
BY TypeInit, TypeStep, PTL DEF Spec

-----------------------------------------------------------------------------
\* A new queue is an empty deque.
LEMMA DequeInit == Init => Abstract!Init
BY NewRing, EmptyRing, Zenon DEF Init, Abstract!Init, NoResult, Abstract!NoResult

\* Each step of the ring is a step of the deque or leaves it alone.
LEMMA DequeStep == TypeOK /\ [Next]_vars => [Abstract!Next]_(Abstract!vars)
<1> SUFFICES ASSUME TypeOK, [Next]_vars
             PROVE  Abstract!Next \/ UNCHANGED <<Elements(q), result>>
  BY Zenon DEF Abstract!vars
<1> USE DEF Abstract!Self, Abstract!Panic, Abstract!None, Abstract!Ok,
            Abstract!Some, Abstract!Count, Abstract!Flag, Abstract!Array,
            Self, Panic, None, Ok, Some, Count, Flag, Array
<1>0. IsRing(q)
  BY Zenon DEF TypeOK
<1>1. CASE PushCall \/ PushFrontCall
  BY <1>1, Zenon DEF PushCall, PushFrontCall, Call
<1>2. CASE PushStep
  <2>1. Elements(q)' = Append(Elements(q), Head(args)) /\ Head(args) \in Value
    BY <1>0, <1>2, ArgsStep, PushBackRing, Zenon DEF PushStep
  <2>2. result' \in {result, Self}
    BY <1>2, Zenon DEF PushStep, LoopEnd
  <2>3. Abstract!PushBack(Head(args))
    BY <2>1, <2>2, Zenon DEF Abstract!PushBack
  <2> QED
    BY <2>1, <2>3, Zenon DEF Abstract!Next
<1>3. CASE PushFrontStep
  <2> DEFINE v == args[Len(args)]
  <2>1. Elements(q)' = <<v>> \o Elements(q) /\ v \in Value
    BY <1>0, <1>3, ArgsStep, PushFrontRing, SMTT(90) DEF PushFrontStep
  <2>2. result' \in {result, Self}
    BY <1>3, Zenon DEF PushFrontStep, LoopEnd
  <2>3. Abstract!PushFront(v)
    BY <2>1, <2>2, Zenon DEF Abstract!PushFront
  <2> QED
    BY <2>1, <2>3, Zenon DEF Abstract!Next
<1>4. ASSUME Empty, q' = q, result' \in {Panic, None} PROVE Abstract!Next
  BY <1>0, <1>4, EmptyRing, Zenon DEF Empty, Abstract!Next, Abstract!Refuse
<1>5. CASE Pop \/ TryPop
  <2>1. CASE Empty
    BY <1>4, <1>5, <2>1, Zenon DEF Pop, TryPop, Remove
  <2>2. CASE ~ Empty
    <3>1. q' = PopFront(q) /\ result' \in {Ok(Front(q)), Some(Front(q))}
      BY <1>5, <2>2, Zenon DEF Pop, TryPop, Remove
    <3>2. /\ Elements(q)' = Tail(Elements(q)) /\ Elements(q) # <<>>
          /\ Front(q) = Head(Elements(q))
      BY <1>0, <2>2, <3>1, PopFrontRing, Zenon DEF Empty
    <3> QED
      BY <3>1, <3>2, Zenon DEF Abstract!Next, Abstract!TakeFront, Abstract!Answer
  <2> QED
    BY <2>1, <2>2, Zenon
<1>6. CASE PopLast \/ TryPopLast
  <2>1. CASE Empty
    BY <1>4, <1>6, <2>1, Zenon DEF PopLast, TryPopLast, Remove
  <2>2. CASE ~ Empty
    <3>1. q' = PopBack(q) /\ result' \in {Ok(Back(q)), Some(Back(q))}
      BY <1>6, <2>2, Zenon DEF PopLast, TryPopLast, Remove
    <3>2. /\ Elements(q)' = SubSeq(Elements(q), 1, Len(Elements(q)) - 1)
          /\ Elements(q) # <<>>
          /\ Back(q) = Elements(q)[Len(Elements(q))]
      BY <1>0, <2>2, <3>1, PopBackRing, Zenon DEF Empty
    <3> QED
      BY <3>1, <3>2, Zenon DEF Abstract!Next, Abstract!TakeBack, Abstract!Answer
  <2> QED
    BY <2>1, <2>2, Zenon
<1>7. CASE Peek \/ TryPeek
  <2>1. CASE Empty
    BY <1>4, <1>7, <2>1, Zenon DEF Peek, TryPeek, Remove
  <2>2. CASE ~ Empty
    <3>1. q' = q /\ result' \in {Ok(Front(q)), Some(Front(q))}
      BY <1>7, <2>2, Zenon DEF Peek, TryPeek, Remove
    <3>2. Elements(q) # <<>> /\ Front(q) = Head(Elements(q))
      BY <1>0, <2>2, PopFrontRing, Zenon DEF Empty
    <3> QED
      BY <3>1, <3>2, Zenon DEF Abstract!Next, Abstract!ReadFront, Abstract!Answer
  <2> QED
    BY <2>1, <2>2, Zenon
<1>8. CASE PeekBack \/ TryPeekBack
  <2>1. CASE Empty
    BY <1>4, <1>8, <2>1, Zenon DEF PeekBack, TryPeekBack, Remove
  <2>2. CASE ~ Empty
    <3>1. q' = q /\ result' \in {Ok(Back(q)), Some(Back(q))}
      BY <1>8, <2>2, Zenon DEF PeekBack, TryPeekBack, Remove
    <3>2. Elements(q) # <<>> /\ Back(q) = Elements(q)[Len(Elements(q))]
      BY <1>0, <2>2, PopBackRing, Zenon DEF Empty
    <3> QED
      BY <3>1, <3>2, Zenon DEF Abstract!Next, Abstract!ReadBack, Abstract!Answer
  <2> QED
    BY <2>1, <2>2, Zenon
<1>9. CASE QLen \/ QEmpty \/ ToArray
  <2>1. /\ Len(Elements(q)) = QueueCount(q)
        /\ (Elements(q) = <<>>) <=> (QueueCount(q) = 0)
    BY <1>0, ElementsType, EmptyRing, Zenon
  <2>2. Empty = (Elements(q) = <<>>)
    BY <2>1, Zenon DEF Empty
  <2> QED
    BY <1>9, <2>1, <2>2, Zenon
       DEF QLen, QEmpty, ToArray, Read, Abstract!Next, Abstract!Measure, Abstract!Copy
<1>10. CASE Clear
  <2>1. Elements(q)' = <<>> /\ result' = Self
    BY <1>0, <1>10, ClearRing, EmptyRing, Zenon DEF Clear
  <2> QED
    BY <2>1, Zenon DEF Abstract!Next, Abstract!Clear
<1>11. CASE UNCHANGED vars
  BY <1>11, Zenon DEF vars
<1> QED
  BY <1>1, <1>2, <1>3, <1>5, <1>6, <1>7, <1>8, <1>9, <1>10, <1>11, Zenon DEF Next

\* The ring buffer implements the double-ended sequence: no sequence of
\* calls, with wrap-around and growth, loses, duplicates or reorders an
\* element or answers with a wrong one.
THEOREM QueueImplementsDeque == Spec => DequeSpec
<1>1. Init => Abstract!Init
  BY DequeInit, Zenon
<1>2. TypeOK /\ [Next]_vars => [Abstract!Next]_(Abstract!vars)
  BY DequeStep, Zenon
<1> QED
  BY <1>1, <1>2, QueueTypeCorrect, PTL DEF Spec, DequeSpec, Abstract!Spec

(***************************************************************************)
(* Signals.                                                                *)
(***************************************************************************)

Entry == [at : {"scan", "read", "handler", "default"}, sig : 1 .. NSIG + 1]

\* The types; a scan that has found a signal is at one.
Typed ==
  /\ SignalStates \subseteq Sig
  /\ AnySignalPending \in BOOLEAN /\ JitInterruptFlag \in BOOLEAN /\ threw \in BOOLEAN
  /\ SignalHandlers \in [Sig -> {"zero", "handler", "default"}]
  /\ action \in [Sig -> {"default", "vm"}]
  /\ irq \in [Poller -> {"none", "any", "flag"}]
  /\ poll \in [Poller -> {"code", "clear", "take"}]
  /\ scans \in [Poller -> Seq(Entry)]
  /\ \A t \in Poller : \A i \in DOMAIN scans[t] :
       scans[t][i].at # "scan" => scans[t][i].sig \in Sig
  /\ setting \in [Poller -> [at : {"none", "sigaction", "set"}, sig : Nat,
                             fn : {"handler", "default"}]]
  /\ \A t \in Poller : setting[t].at # "none" => setting[t].sig \in Sig
  /\ crossed \subseteq Sig

Setting(t, s) == setting[t].at # "none" /\ setting[t].sig = s

\* Calls of os.signal() for a signal that was not crossed.
Registering ==
  \A s \in Sig \ crossed : \A t \in Poller : Setting(t, s) =>
    /\ \A u \in Poller : Setting(u, s) => u = t
    /\ setting[t].at = "set" =>
         action[s] = IF setting[t].fn = "handler" THEN "vm" ELSE "default"

\* Someone will look at signal s.
Found(s) == \/ AnySignalPending \/ threw
            \/ \E t \in Poller :
                 irq[t] = "any" \/ \E i \in DOMAIN scans[t] : WillVisit(scans[t][i], s)

\* The inductive invariant.
SignalInv == /\ Typed
             /\ \A s \in SignalStates : Found(s)
             /\ FlagCoversPending /\ Registering /\ RegisteredIsCallable

-----------------------------------------------------------------------------
(* The scans of one thread *)

\* ScanAt changes the innermost scan of one thread.
LEMMA ScanAtFacts ==
  ASSUME Typed, NEW t \in Poller, scans[t] # <<>>, NEW l, NEW s,
         [at |-> l, sig |-> s] \in Entry, l # "scan" => s \in Sig, ScanAt(t, l, s)
  PROVE  /\ scans' \in [Poller -> Seq(Entry)]
         /\ \A u \in Poller : DOMAIN scans'[u] = DOMAIN scans[u]
         /\ Len(scans[t]) \in DOMAIN scans[t]
         /\ scans'[t][Len(scans[t])] = [at |-> l, sig |-> s]
         /\ \A u \in Poller : \A i \in DOMAIN scans[u] :
              u # t \/ i # Len(scans[t]) => scans'[u][i] = scans[u][i]
         /\ \A u \in Poller : \A i \in DOMAIN scans'[u] :
              scans'[u][i].at # "scan" => scans'[u][i].sig \in Sig
<1>1. scans \in [Poller -> Seq(Entry)]
  BY Zenon DEF Typed
<1>2. scans[t] \in Seq(Entry) /\ Len(scans[t]) \in Nat /\ Len(scans[t]) > 0
        /\ DOMAIN scans[t] = 1 .. Len(scans[t])
  BY <1>1
<1> DEFINE z == [scans[t] EXCEPT ![Len(scans[t])] = [at |-> l, sig |-> s]]
<1>3. z \in Seq(Entry) /\ DOMAIN z = DOMAIN scans[t]
  BY <1>2
<1>4. scans' = [scans EXCEPT ![t] = z]
  BY <1>1, Zenon DEF ScanAt
<1>5. /\ z[Len(scans[t])] = [at |-> l, sig |-> s]
      /\ \A i \in DOMAIN scans[t] : i # Len(scans[t]) => z[i] = scans[t][i]
  BY <1>2
<1> HIDE DEF z
<1>6. scans'[t] = z /\ \A u \in Poller : u # t => scans'[u] = scans[u]
  BY <1>1, <1>4, Zenon
<1>7. scans' \in [Poller -> Seq(Entry)]
  BY <1>1, <1>3, <1>4, Zenon
<1>8. \A u \in Poller : \A i \in DOMAIN scans'[u] :
         scans'[u][i].at # "scan" => scans'[u][i].sig \in Sig
  <2> SUFFICES ASSUME NEW u \in Poller, NEW i \in DOMAIN scans'[u], scans'[u][i].at # "scan"
               PROVE  scans'[u][i].sig \in Sig
    OBVIOUS
  <2>1. CASE u = t /\ i = Len(scans[t])
    BY <1>5, <1>6, <2>1
  <2>2. CASE u = t /\ i # Len(scans[t])
    BY <1>3, <1>5, <1>6, <2>2, Zenon DEF Typed
  <2>3. CASE u # t
    BY <1>6, <2>3, Zenon DEF Typed
  <2>4. QED
    BY <2>1, <2>2, <2>3, Zenon
<1>9. \A u \in Poller : DOMAIN scans'[u] = DOMAIN scans[u]
  BY <1>3, <1>6, Zenon
<1>10. ASSUME NEW u \in Poller, NEW i \in DOMAIN scans[u], u # t \/ i # Len(scans[t])
       PROVE  scans'[u][i] = scans[u][i]
  BY <1>5, <1>6, <1>10, Zenon
<1>11. scans'[t][Len(scans[t])] = [at |-> l, sig |-> s] /\ Len(scans[t]) \in DOMAIN scans[t]
  BY <1>2, <1>5, <1>6
<1>12. QED
  BY <1>7, <1>8, <1>9, <1>10, <1>11, Zenon

\* StartScan adds one that will visit every signal.
LEMMA StartScanFacts ==
  ASSUME Typed, NEW t \in Poller, StartScan(t)
  PROVE  /\ scans' \in [Poller -> Seq(Entry)]
         /\ Len(scans[t]) + 1 \in DOMAIN scans'[t]
         /\ scans'[t][Len(scans[t]) + 1] = [at |-> "scan", sig |-> 1]
         /\ \A u \in Poller : \A i \in DOMAIN scans'[u] :
              scans'[u][i].at # "scan" => scans'[u][i].sig \in Sig
<1> DEFINE e == [at |-> "scan", sig |-> 1]
<1>0. NSIG \in Nat
  BY SignalAssumption, Zenon
<1>1. scans \in [Poller -> Seq(Entry)] /\ e \in Entry
  <2>1. scans \in [Poller -> Seq(Entry)]
    BY Zenon DEF Typed
  <2>2. e \in Entry
    BY <1>0 DEF Entry
  <2>3. QED
    BY <2>1, <2>2, Zenon
<1>2. e.at = "scan"
  OBVIOUS
<1> HIDE DEF e
<1>3. scans' = [scans EXCEPT ![t] = Append(scans[t], e)]
  BY <1>1, Zenon DEF StartScan, e
<1>4. scans'[t] = Append(scans[t], e) /\ \A u \in Poller : u # t => scans'[u] = scans[u]
  BY <1>1, <1>3, Zenon
<1>5. /\ Append(scans[t], e) \in Seq(Entry)
      /\ DOMAIN Append(scans[t], e) = 1 .. Len(scans[t]) + 1
      /\ Append(scans[t], e)[Len(scans[t]) + 1] = e
      /\ \A i \in 1 .. Len(scans[t]) : Append(scans[t], e)[i] = scans[t][i]
      /\ Len(scans[t]) \in Nat /\ DOMAIN scans[t] = 1 .. Len(scans[t])
  BY <1>1
<1>6. ASSUME NEW u \in Poller, NEW i \in DOMAIN scans'[u], scans'[u][i].at # "scan"
      PROVE  scans'[u][i].sig \in Sig
  <2>1. CASE u = t /\ i = Len(scans[t]) + 1
    BY <1>2, <1>4, <1>5, <1>6, <2>1, Zenon
  <2>2. CASE u = t /\ i # Len(scans[t]) + 1
    <3>1. i \in DOMAIN scans[t] /\ scans'[t][i] = scans[t][i]
      BY <1>4, <1>5, <2>2
    <3>2. QED
      BY <1>6, <2>2, <3>1, Zenon DEF Typed
  <2>3. CASE u # t
    BY <1>4, <1>6, <2>3, Zenon DEF Typed
  <2>4. QED
    BY <2>1, <2>2, <2>3, Zenon
<1>7. scans' \in [Poller -> Seq(Entry)]
  BY <1>1, <1>3, <1>5, Zenon
<1>8. QED
  BY <1>4, <1>5, <1>6, <1>7 DEF e

\* Popped takes scans off the end.
LEMMA PopFacts ==
  ASSUME Typed, NEW t \in Poller, NEW n \in 1 .. Len(scans[t]),
         scans' = [scans EXCEPT ![t] = Popped(@, n)]
  PROVE  /\ scans' \in [Poller -> Seq(Entry)]
         /\ \A u \in Poller : \A i \in DOMAIN scans[u] :
              u # t \/ i =< Len(scans[t]) - n
                => i \in DOMAIN scans'[u] /\ scans'[u][i] = scans[u][i]
         /\ \A u \in Poller : \A i \in DOMAIN scans'[u] :
              i \in DOMAIN scans[u] /\ scans'[u][i] = scans[u][i]
<1>1. scans \in [Poller -> Seq(Entry)]
  BY Zenon DEF Typed
<1> DEFINE z == SubSeq(scans[t], 1, Len(scans[t]) - n)
<1>2. /\ Len(scans[t]) \in Nat /\ DOMAIN scans[t] = 1 .. Len(scans[t])
      /\ z \in Seq(Entry) /\ DOMAIN z = 1 .. Len(scans[t]) - n
      /\ \A i \in 1 .. Len(scans[t]) - n : z[i] = scans[t][i]
  BY <1>1
<1>3. scans' = [scans EXCEPT ![t] = z]
  BY <1>1, Zenon DEF Popped
<1> HIDE DEF z
<1>4. scans'[t] = z /\ \A u \in Poller : u # t => scans'[u] = scans[u]
  BY <1>1, <1>3, Zenon
<1>5. scans' \in [Poller -> Seq(Entry)]
  BY <1>1, <1>2, <1>3, Zenon
<1>6. QED
  BY <1>2, <1>4, <1>5

-----------------------------------------------------------------------------
(* Types *)

\* The types hold at the start.
LEMMA TypedInit == SignalInit => Typed
<1> SUFFICES ASSUME SignalInit PROVE Typed
  OBVIOUS
<1>1. AnySignalPending \in BOOLEAN /\ JitInterruptFlag \in BOOLEAN /\ threw \in BOOLEAN
  BY Zenon DEF SignalInit
<1>2. scans \in [Poller -> Seq(Entry)] /\ \A t \in Poller : DOMAIN scans[t] = {}
  BY DEF SignalInit
<1>3. QED
  BY <1>1, <1>2, Zenon DEF SignalInit, Typed

\* The scan a thread is in.
LEMMA TopFacts ==
  ASSUME Typed, NEW t \in Poller, scans[t] # <<>>
  PROVE  /\ Len(scans[t]) \in DOMAIN scans[t] /\ Top(t) = scans[t][Len(scans[t])]
         /\ Top(t) \in Entry
         /\ Top(t).at # "scan" => Top(t).sig \in Sig
<1>1. scans[t] \in Seq(Entry)
  BY Zenon DEF Typed
<1>2. Len(scans[t]) \in DOMAIN scans[t] /\ scans[t][Len(scans[t])] \in Entry
  BY <1>1
<1>3. QED
  BY <1>2, Zenon DEF Typed, Top

\* What each step of a scan does to the innermost one, Top(t).
LEMMA ScanSteps ==
  ASSUME Typed, NEW t \in Poller, ScanState(t) \/ ScanRead(t) \/ HandlerReturns(t)
  PROVE  /\ scans[t] # <<>>
         /\ \E l \in {"scan", "read", "handler", "default"}, s \in 1 .. NSIG + 1 :
              /\ ScanAt(t, l, s)
              /\ l # "scan" => s \in Sig
              /\ \A x \in Sig : x # Top(t).sig \/ Top(t).at # "scan" =>
                   (WillVisit(Top(t), x) => WillVisit([at |-> l, sig |-> s], x))
<1>0. NSIG \in Nat
  BY SignalAssumption, Zenon
<1>1. scans[t] # <<>> /\ Top(t) \in Entry /\ (Top(t).at # "scan" => Top(t).sig \in Sig)
  BY TopFacts, Zenon DEF ScanState, ScanRead, HandlerReturns, Scanning
<1>2. Top(t).sig \in 1 .. NSIG + 1
  BY <1>1, Zenon DEF Entry
<1>3. CASE ScanState(t)
  <2>1. Top(t).at = "scan" /\ Top(t).sig =< NSIG
    BY <1>3, Zenon DEF ScanState, Scanning
  <2>2. ScanAt(t, "read", Top(t).sig) \/ ScanAt(t, "scan", Top(t).sig + 1)
    BY <1>3, Zenon DEF ScanState
  <2>3. Top(t).sig \in Sig /\ Top(t).sig + 1 \in 1 .. NSIG + 1
    BY <1>0, <1>2, <2>1 DEF Sig
  <2>4. \A x \in Sig : x # Top(t).sig /\ WillVisit(Top(t), x) =>
            /\ WillVisit([at |-> "read", sig |-> Top(t).sig], x)
            /\ WillVisit([at |-> "scan", sig |-> Top(t).sig + 1], x)
    BY <1>0, <2>1, <2>3 DEF WillVisit, Sig
  <2>5. QED
    BY <1>1, <1>2, <2>1, <2>2, <2>3, <2>4, Zenon
<1>4. CASE ScanRead(t) \/ HandlerReturns(t)
  <2>1. Top(t).at # "scan" /\ Top(t).sig \in Sig
    BY <1>1, <1>4, Zenon DEF ScanRead, HandlerReturns, Scanning
  <2>2. \/ ScanAt(t, "scan", Top(t).sig + 1)
        \/ ScanAt(t, "handler", Top(t).sig) \/ ScanAt(t, "default", Top(t).sig)
    BY <1>4, <2>1, Zenon DEF ScanRead, HandlerReturns, Typed
  <2>3. Top(t).sig + 1 \in 1 .. NSIG + 1
    BY <1>0, <2>1 DEF Sig
  <2>4. \A x \in Sig : WillVisit(Top(t), x) =>
            /\ WillVisit([at |-> "scan", sig |-> Top(t).sig + 1], x)
            /\ WillVisit([at |-> "handler", sig |-> Top(t).sig], x)
            /\ WillVisit([at |-> "default", sig |-> Top(t).sig], x)
    BY <1>0, <2>1 DEF WillVisit, Sig
  <2>5. QED
    BY <1>1, <1>2, <2>1, <2>2, <2>3, <2>4, Zenon
<1>5. QED
  BY <1>3, <1>4, Zenon

\* Every step keeps the types.
LEMMA TypedStep ==
  ASSUME Typed, [SignalNext]_signalVars
  PROVE  Typed'
<1> USE DEF flagVars, setVars
<1>0. NSIG \in Nat
  BY SignalAssumption, Zenon
<1>1. CASE UNCHANGED signalVars
  BY <1>1, Zenon DEF signalVars, Typed
<1>2. ASSUME NEW t \in Poller, NEW s \in Sig, Deliver(t, s) PROVE Typed'
  BY <1>2, Zenon DEF Deliver, Typed
<1>3. ASSUME NEW t \in Poller, DeliverAny(t) PROVE Typed'
  BY <1>3, Zenon DEF DeliverAny, Typed
<1>4. ASSUME NEW t \in Poller, DeliverFlag(t) PROVE Typed'
  BY <1>4, Zenon DEF DeliverFlag, Typed
<1>5. ASSUME NEW t \in Poller, CheckSignals(t) PROVE Typed'
  <2>1. StartScan(t)
    BY <1>5, Zenon DEF CheckSignals
  <2>2. AnySignalPending' \in BOOLEAN
    BY <1>5, Zenon DEF CheckSignals
  <2>3. QED
    BY <1>5, <2>1, <2>2, StartScanFacts, Zenon DEF CheckSignals, Typed
<1>6. ASSUME NEW t \in Poller, JitCheck(t) \/ JitClear(t) PROVE Typed'
  BY <1>6, Zenon DEF JitCheck, JitClear, Typed
<1>7. ASSUME NEW t \in Poller, JitTake(t) PROVE Typed'
  <2>1. CASE AnySignalPending
    <3>1. StartScan(t)
      BY <1>7, <2>1, Zenon DEF JitTake
    <3>2. poll' \in [Poller -> {"code", "clear", "take"}]
      BY <1>7, Zenon DEF JitTake, Typed
    <3>3. QED
      BY <1>7, <3>1, <3>2, StartScanFacts, Zenon DEF JitTake, Typed
  <2>2. CASE ~ AnySignalPending
    BY <1>7, <2>2, Zenon DEF JitTake, Typed
  <2>3. QED
    BY <2>1, <2>2, Zenon
<1>8. ASSUME NEW t \in Poller, ScanState(t) \/ ScanRead(t) \/ HandlerReturns(t) PROVE Typed'
  <2>1. scans[t] # <<>> /\ \E l \in {"scan", "read", "handler", "default"}, s \in 1 .. NSIG + 1 :
              ScanAt(t, l, s) /\ (l # "scan" => s \in Sig)
    BY <1>8, ScanSteps, Zenon
  <2>2. PICK l \in {"scan", "read", "handler", "default"}, s \in 1 .. NSIG + 1 :
              ScanAt(t, l, s) /\ (l # "scan" => s \in Sig)
    BY <2>1, Zenon
  <2>3. [at |-> l, sig |-> s] \in Entry
    BY Zenon DEF Entry
  <2>4. /\ scans' \in [Poller -> Seq(Entry)]
        /\ \A u \in Poller : \A i \in DOMAIN scans'[u] :
             scans'[u][i].at # "scan" => scans'[u][i].sig \in Sig
    BY <2>1, <2>2, <2>3, ScanAtFacts, Zenon
  <2>5. SignalStates' \subseteq SignalStates
          /\ UNCHANGED <<AnySignalPending, JitInterruptFlag, setVars, irq, poll, threw>>
    BY <1>8, Zenon DEF ScanState, ScanRead, HandlerReturns
  <2>6. QED
    BY <2>4, <2>5, Zenon DEF Typed
<1>9. ASSUME NEW t \in Poller, HandlerThrows(t) \/ ScanEnds(t) PROVE Typed'
  <2>1. scans[t] \in Seq(Entry) /\ (ScanEnds(t) => scans[t] # <<>>)
    BY Zenon DEF Typed, ScanEnds, Scanning
  <2>2. PICK n \in 1 .. Len(scans[t]) : scans' = [scans EXCEPT ![t] = Popped(@, n)]
    BY <1>9, <2>1 DEF HandlerThrows, ScanEnds
  <2>3. scans' \in [Poller -> Seq(Entry)]
          /\ \A u \in Poller : \A i \in DOMAIN scans'[u] :
               i \in DOMAIN scans[u] /\ scans'[u][i] = scans[u][i]
    BY <2>2, PopFacts, Zenon
  <2>4. \A u \in Poller : \A i \in DOMAIN scans'[u] :
            scans'[u][i].at # "scan" => scans'[u][i].sig \in Sig
    BY <2>3 DEF Typed
  <2>5. threw' \in BOOLEAN /\ UNCHANGED <<flagVars, setVars, irq, poll>>
    BY <1>9, Zenon DEF HandlerThrows, ScanEnds, Typed
  <2>6. QED
    BY <2>3, <2>4, <2>5, Zenon DEF Typed
<1>10. ASSUME NEW t \in Poller, NEW s \in Sig, NEW f \in {"handler", "default"},
              SignalCall(t, s, f)
       PROVE  Typed'
  <2>1. s \in Nat
    BY <1>0 DEF Sig
  <2>2. SignalHandlers' \in [Sig -> {"zero", "handler", "default"}] /\ crossed' \subseteq Sig
    BY <1>10, Zenon DEF SignalCall, Typed
  <2>3. /\ setting' \in [Poller -> [at : {"none", "sigaction", "set"}, sig : Nat,
                                    fn : {"handler", "default"}]]
        /\ \A u \in Poller : setting'[u].at # "none" => setting'[u].sig \in Sig
    BY <1>10, <2>1, Zenon DEF SignalCall, Typed
  <2>4. QED
    BY <1>10, <2>2, <2>3, Zenon DEF SignalCall, Typed
<1>11. ASSUME NEW t \in Poller, SigAction(t) \/ SigActionFails(t) \/ SetHandler(t) PROVE Typed'
  <2>1. /\ setting' \in [Poller -> [at : {"none", "sigaction", "set"}, sig : Nat,
                                    fn : {"handler", "default"}]]
        /\ \A u \in Poller : setting'[u].at # "none" => setting'[u].sig \in Sig
    <3>1. PICK a \in {"none", "set"} :
             setting' = [setting EXCEPT ![t].at = a] /\ setting[t].at # "none"
      BY <1>11, Zenon DEF SigAction, SigActionFails, SetHandler
    <3>2. setting \in [Poller -> [at : {"none", "sigaction", "set"}, sig : Nat,
                                  fn : {"handler", "default"}]]
      BY Zenon DEF Typed
    <3>3. setting' \in [Poller -> [at : {"none", "sigaction", "set"}, sig : Nat,
                                   fn : {"handler", "default"}]]
      BY <3>1, <3>2, Zenon
    <3>4. setting'[t].sig = setting[t].sig /\ \A u \in Poller : u # t => setting'[u] = setting[u]
      BY <3>1, <3>2, Zenon
    <3>5. QED
      BY <3>1, <3>3, <3>4, Zenon DEF Typed
  <2>2. setting[t].sig \in Sig /\ setting[t].fn \in {"handler", "default"}
    BY <1>11, Zenon DEF SigAction, SigActionFails, SetHandler, Typed
  <2>3. /\ SignalHandlers' \in [Sig -> {"zero", "handler", "default"}]
        /\ action' \in [Sig -> {"default", "vm"}]
    <3>1. CASE SigAction(t)
      BY <2>2, <3>1, Zenon DEF SigAction, Typed
    <3>2. CASE SetHandler(t)
      BY <2>2, <3>2, Zenon DEF SetHandler, Typed
    <3>3. CASE SigActionFails(t)
      BY <3>3, Zenon DEF SigActionFails, Typed
    <3>4. QED
      BY <1>11, <3>1, <3>2, <3>3, Zenon
  <2>4. UNCHANGED <<flagVars, crossed, irq, poll, scans, threw>>
    BY <1>11, Zenon DEF SigAction, SigActionFails, SetHandler
  <2>5. QED
    BY <2>1, <2>3, <2>4, Zenon DEF Typed
<1>12. QED
  BY <1>1, <1>2, <1>3, <1>4, <1>5, <1>6, <1>7, <1>8, <1>9, <1>10, <1>11, Zenon DEF SignalNext

-----------------------------------------------------------------------------
(* Signals are found *)

\* A thread takes AnySignalPending with a scan that starts at the first
\* signal, and a scan passes a signal only when it has taken its state.
LEMMA FoundStep ==
  ASSUME Typed, \A s \in SignalStates : Found(s), [SignalNext]_signalVars
  PROVE  \A s \in SignalStates' : Found(s)'
<1> USE DEF flagVars, setVars
<1>0. NSIG \in Nat /\ SignalStates \subseteq Sig /\ irq \in [Poller -> {"none", "any", "flag"}]
  BY SignalAssumption, Zenon DEF Typed
<1>1. CASE UNCHANGED signalVars
  BY <1>1, Zenon DEF signalVars, Found
<1>2. ASSUME NEW t \in Poller, NEW s \in Sig, Deliver(t, s)
      PROVE  \A x \in SignalStates' : Found(x)'
  BY <1>0, <1>2, Zenon DEF Deliver, Found
<1>3. ASSUME NEW t \in Poller, DeliverAny(t)
      PROVE  \A x \in SignalStates' : Found(x)'
  BY <1>3, Zenon DEF DeliverAny, Found
<1>4. ASSUME NEW t \in Poller, DeliverFlag(t)
      PROVE  \A x \in SignalStates' : Found(x)'
  <2>1. \A u \in Poller : irq[u] = "any" => irq'[u] = "any"
    BY <1>0, <1>4, Zenon DEF DeliverFlag
  <2>2. UNCHANGED <<SignalStates, AnySignalPending, threw, scans>>
    BY <1>4, Zenon DEF DeliverFlag
  <2>3. QED
    BY <2>1, <2>2, Zenon DEF Found
<1>5. ASSUME NEW t \in Poller, StartScan(t), UNCHANGED SignalStates
      PROVE  \A x \in SignalStates' : Found(x)'
  <2> SUFFICES ASSUME NEW x \in SignalStates
               PROVE  \E u \in Poller : \E i \in DOMAIN scans'[u] : WillVisit(scans'[u][i], x)
    BY <1>5, Zenon DEF Found
  <2>1. /\ Len(scans[t]) + 1 \in DOMAIN scans'[t]
        /\ scans'[t][Len(scans[t]) + 1] = [at |-> "scan", sig |-> 1]
    BY <1>5, StartScanFacts, Zenon
  <2>2. WillVisit([at |-> "scan", sig |-> 1], x)
    BY <1>0 DEF WillVisit, Sig
  <2>3. QED
    BY <2>1, <2>2, Zenon
<1>6. ASSUME NEW t \in Poller, CheckSignals(t)
      PROVE  \A x \in SignalStates' : Found(x)'
  BY <1>5, <1>6, Zenon DEF CheckSignals
<1>7. ASSUME NEW t \in Poller, JitTake(t)
      PROVE  \A x \in SignalStates' : Found(x)'
  <2>1. CASE AnySignalPending
    BY <1>5, <1>7, <2>1, Zenon DEF JitTake
  <2>2. CASE ~ AnySignalPending
    BY <1>7, <2>2, Zenon DEF JitTake, Found
  <2>3. QED
    BY <2>1, <2>2, Zenon
<1>8. ASSUME NEW t \in Poller, JitCheck(t) \/ JitClear(t) \/ SigAction(t) \/ SigActionFails(t)
               \/ SetHandler(t)
      PROVE  \A x \in SignalStates' : Found(x)'
  BY <1>8 DEF JitCheck, JitClear, SigAction, SigActionFails, SetHandler, Found
<1>9. ASSUME NEW t \in Poller, NEW s \in Sig, NEW f \in {"handler", "default"},
             SignalCall(t, s, f)
      PROVE  \A x \in SignalStates' : Found(x)'
  BY <1>9, Zenon DEF SignalCall, Found
<1>10. ASSUME NEW t \in Poller, ScanState(t) \/ ScanRead(t) \/ HandlerReturns(t)
       PROVE  \A x \in SignalStates' : Found(x)'
  <2> SUFFICES ASSUME NEW x \in SignalStates' PROVE Found(x)'
    OBVIOUS
  <2>1. /\ x \in SignalStates /\ x \in Sig
        /\ x # Top(t).sig \/ Top(t).at # "scan"
        /\ UNCHANGED <<AnySignalPending, threw, irq>>
    BY <1>0, <1>10, Zenon DEF ScanState, ScanRead, HandlerReturns, Scanning
  <2>2. PICK l \in {"scan", "read", "handler", "default"}, s \in 1 .. NSIG + 1 :
              /\ ScanAt(t, l, s)
              /\ l # "scan" => s \in Sig
              /\ WillVisit(Top(t), x) => WillVisit([at |-> l, sig |-> s], x)
    BY <1>10, <2>1, ScanSteps, Zenon
  <2>3. scans[t] # <<>> /\ [at |-> l, sig |-> s] \in Entry
    BY <1>10, ScanSteps, Zenon DEF Entry
  <2>4. /\ \A u \in Poller : DOMAIN scans'[u] = DOMAIN scans[u]
        /\ Len(scans[t]) \in DOMAIN scans[t]
        /\ scans'[t][Len(scans[t])] = [at |-> l, sig |-> s]
        /\ \A u \in Poller : \A i \in DOMAIN scans[u] :
             u # t \/ i # Len(scans[t]) => scans'[u][i] = scans[u][i]
    BY <2>2, <2>3, ScanAtFacts
  <2>5. ASSUME NEW u \in Poller, NEW i \in DOMAIN scans[u], WillVisit(scans[u][i], x)
        PROVE  i \in DOMAIN scans'[u] /\ WillVisit(scans'[u][i], x)
    <3>1. CASE u = t /\ i = Len(scans[t])
      BY <2>2, <2>4, <2>5, <3>1, Zenon DEF Top
    <3>2. CASE ~ (u = t /\ i = Len(scans[t]))
      BY <2>4, <2>5, <3>2, Zenon
    <3>3. QED
      BY <3>1, <3>2, Zenon
  <2>6. QED
    BY <2>1, <2>5, Zenon DEF Found
<1>11. ASSUME NEW t \in Poller, HandlerThrows(t)
       PROVE  \A x \in SignalStates' : Found(x)'
  BY <1>11, Zenon DEF HandlerThrows, Found
<1>12. ASSUME NEW t \in Poller, ScanEnds(t)
       PROVE  \A x \in SignalStates' : Found(x)'
  <2> SUFFICES ASSUME NEW x \in SignalStates' PROVE Found(x)'
    OBVIOUS
  <2>1. /\ x \in SignalStates /\ x \in Sig /\ UNCHANGED <<AnySignalPending, threw, irq>>
        /\ scans[t] # <<>> /\ Top(t).at = "scan" /\ Top(t).sig = NSIG + 1
        /\ scans' = [scans EXCEPT ![t] = Popped(@, 1)]
    BY <1>0, <1>12, Zenon DEF ScanEnds, Scanning
  <2>2. scans[t] \in Seq(Entry) /\ 1 \in 1 .. Len(scans[t]) /\ Len(scans[t]) \in Nat
          /\ DOMAIN scans[t] = 1 .. Len(scans[t])
    BY <2>1 DEF Typed
  <2>3. \A u \in Poller : \A i \in DOMAIN scans[u] :
            u # t \/ i =< Len(scans[t]) - 1
              => i \in DOMAIN scans'[u] /\ scans'[u][i] = scans[u][i]
    BY <2>1, <2>2, PopFacts, Zenon
  <2>4. ~ WillVisit(Top(t), x)
    BY <1>0, <2>1 DEF WillVisit, Sig
  <2>5. ASSUME NEW u \in Poller, NEW i \in DOMAIN scans[u], WillVisit(scans[u][i], x)
        PROVE  i \in DOMAIN scans'[u] /\ WillVisit(scans'[u][i], x)
    <3>1. u # t \/ i # Len(scans[t])
      BY <2>4, <2>5, Zenon DEF Top
    <3>2. QED
      BY <2>2, <2>3, <2>5, <3>1
  <2>6. QED
    BY <2>1, <2>5, Zenon DEF Found
<1>13. QED
  BY <1>1, <1>2, <1>3, <1>4, <1>6, <1>7, <1>8, <1>9, <1>10, <1>11, <1>12, Zenon DEF SignalNext

\* AnySignalPending is raised before JitInterruptFlag, and cleared after it.
LEMMA FlagStep ==
  ASSUME Typed, FlagCoversPending, [SignalNext]_signalVars
  PROVE  FlagCoversPending'
<1> USE DEF flagVars, setVars
<1>0. /\ irq \in [Poller -> {"none", "any", "flag"}]
      /\ poll \in [Poller -> {"code", "clear", "take"}]
  BY Zenon DEF Typed
<1>1. CASE UNCHANGED signalVars
  BY <1>1, Zenon DEF signalVars, FlagCoversPending
<1>2. ASSUME NEW t \in Poller, NEW s \in Sig, Deliver(t, s) PROVE FlagCoversPending'
  <2>1. \A u \in Poller : irq[u] = "flag" => irq'[u] = "flag"
    BY <1>0, <1>2, Zenon DEF Deliver
  <2>2. QED
    BY <1>2, <2>1, Zenon DEF Deliver, FlagCoversPending
<1>3. ASSUME NEW t \in Poller, DeliverAny(t) PROVE FlagCoversPending'
  BY <1>0, <1>3, Zenon DEF DeliverAny, FlagCoversPending
<1>4. ASSUME NEW t \in Poller, DeliverFlag(t) \/ CheckSignals(t) \/ JitTake(t)
      PROVE  FlagCoversPending'
  BY <1>4, Zenon DEF DeliverFlag, CheckSignals, JitTake, FlagCoversPending
<1>5. ASSUME NEW t \in Poller, JitCheck(t) PROVE FlagCoversPending'
  <2>1. \A u \in Poller : poll[u] = "take" => poll'[u] = "take"
    BY <1>0, <1>5, Zenon DEF JitCheck, InCode
  <2>2. QED
    BY <1>5, <2>1, Zenon DEF JitCheck, FlagCoversPending
<1>6. ASSUME NEW t \in Poller, JitClear(t) PROVE FlagCoversPending'
  BY <1>0, <1>6, Zenon DEF JitClear, FlagCoversPending
<1>7. ASSUME NEW t \in Poller,
             ScanState(t) \/ ScanRead(t) \/ HandlerReturns(t) \/ HandlerThrows(t)
               \/ ScanEnds(t) \/ SigAction(t) \/ SigActionFails(t) \/ SetHandler(t)
      PROVE  FlagCoversPending'
  <2>1. UNCHANGED <<AnySignalPending, JitInterruptFlag, irq, poll>>
    BY <1>7, Zenon
       DEF ScanState, ScanRead, HandlerReturns, HandlerThrows, ScanEnds, SigAction,
           SigActionFails, SetHandler
  <2>2. QED
    BY <2>1, Zenon DEF FlagCoversPending
<1>8. ASSUME NEW t \in Poller, NEW s \in Sig, NEW f \in {"handler", "default"},
             SignalCall(t, s, f)
      PROVE  FlagCoversPending'
  BY <1>8, Zenon DEF SignalCall, FlagCoversPending
<1>9. QED
  BY <1>1, <1>2, <1>3, <1>4, <1>5, <1>6, <1>7, <1>8, Zenon DEF SignalNext

-----------------------------------------------------------------------------
(* Handlers are there *)

\* A call of os.signal() that no other crosses leaves the disposition and the
\* handler in agreement.
LEMMA RegisteringStep ==
  ASSUME Typed, Registering, RegisteredIsCallable, [SignalNext]_signalVars
  PROVE  Registering' /\ RegisteredIsCallable'
<1> USE DEF flagVars, setVars
<1>t. /\ setting \in [Poller -> [at : {"none", "sigaction", "set"}, sig : Nat,
                                 fn : {"handler", "default"}]]
      /\ SignalHandlers \in [Sig -> {"zero", "handler", "default"}]
      /\ action \in [Sig -> {"default", "vm"}] /\ crossed \subseteq Sig
      /\ \A t \in Poller : setting[t].at # "none" => setting[t].sig \in Sig
  BY Zenon DEF Typed
<1>1. ASSUME UNCHANGED <<SignalHandlers, action, setting, crossed>>
      PROVE  Registering' /\ RegisteredIsCallable'
  BY <1>1 DEF Registering, Setting, RegisteredIsCallable
<1>2. ASSUME NEW t \in Poller, NEW s \in Sig, NEW f \in {"handler", "default"},
             SignalCall(t, s, f)
      PROVE  Registering' /\ RegisteredIsCallable'
  <2>1. /\ setting[t].at = "none" /\ UNCHANGED action
        /\ setting'[t] = [at |-> "sigaction", sig |-> s, fn |-> f]
        /\ \A u \in Poller : u # t => setting'[u] = setting[u]
        /\ \A x \in Sig : x # s => SignalHandlers'[x] = SignalHandlers[x]
    BY <1>t, <1>2, Zenon DEF SignalCall, InCode
  <2>2. /\ crossed \subseteq crossed'
        /\ s \notin crossed' => \A u \in Poller : ~ Setting(u, s)
    BY <1>2, Zenon DEF SignalCall, Setting
  <2>3. /\ \A u \in Poller, x \in Sig : u # t => (Setting(u, x)' <=> Setting(u, x))
        /\ \A x \in Sig : Setting(t, x)' <=> x = s
        /\ \A x \in Sig : ~ Setting(t, x)
    BY <2>1 DEF Setting
  <2>4. Registering'
    <3> SUFFICES ASSUME NEW x \in Sig \ crossed', NEW u \in Poller, Setting(u, x)'
                 PROVE  /\ \A v \in Poller : Setting(v, x)' => v = u
                        /\ setting'[u].at = "set" =>
                             action'[x] = IF setting'[u].fn = "handler" THEN "vm" ELSE "default"
      BY Zenon DEF Registering
    <3>1. CASE u = t
      BY <2>1, <2>2, <2>3, <3>1
    <3>2. CASE u # t
      <4>1. x # s /\ Setting(u, x) /\ x \in Sig \ crossed
        BY <2>2, <2>3, <3>2, Zenon
      <4>2. QED
        BY <2>1, <2>3, <3>2, <4>1 DEF Registering
    <3>3. QED
      BY <3>1, <3>2, Zenon
  <2>5. RegisteredIsCallable'
    <3> SUFFICES ASSUME NEW x \in Sig \ crossed', action'[x] = "vm",
                        \A u \in Poller : ~ Setting(u, x)'
                 PROVE  SignalHandlers'[x] = "handler"
      BY Zenon DEF RegisteredIsCallable, Setting
    <3>1. x # s /\ x \in Sig \ crossed
      BY <2>2, <2>3, Zenon
    <3>2. \A u \in Poller : ~ Setting(u, x)
      BY <2>3, <3>1, Zenon
    <3>3. QED
      BY <2>1, <3>1, <3>2, Zenon DEF RegisteredIsCallable, Setting
  <2>6. QED
    BY <2>4, <2>5, Zenon
<1>3. ASSUME NEW t \in Poller, SigAction(t)
      PROVE  Registering' /\ RegisteredIsCallable'
  <2> DEFINE c == setting[t].sig
  <2>1. /\ setting[t].at = "sigaction" /\ UNCHANGED <<SignalHandlers, crossed>>
        /\ action' = [action EXCEPT ![c] = IF setting[t].fn = "handler" THEN "vm" ELSE "default"]
        /\ setting' = [setting EXCEPT ![t].at = "set"]
    BY <1>3, Zenon DEF SigAction
  <2>2. c \in Sig /\ action'[c] = IF setting[t].fn = "handler" THEN "vm" ELSE "default"
    BY <1>t, <2>1, Zenon
  <2>3. \A x \in Sig : x # c => action'[x] = action[x]
    BY <1>t, <2>1, Zenon
  <2>4. /\ setting'[t].at = "set" /\ setting'[t].sig = c /\ setting'[t].fn = setting[t].fn
        /\ \A u \in Poller : u # t => setting'[u] = setting[u]
    BY <1>t, <2>1, Zenon
  <2>5. \A u \in Poller, x \in Sig : Setting(u, x)' <=> Setting(u, x)
    BY <2>1, <2>4, Zenon DEF Setting
  <2>6. Setting(t, c)
    BY <2>1, Zenon DEF Setting
  <2> HIDE DEF c
  <2>7. Registering'
    <3> SUFFICES ASSUME NEW x \in Sig \ crossed', NEW u \in Poller, Setting(u, x)'
                 PROVE  /\ \A v \in Poller : Setting(v, x)' => v = u
                        /\ setting'[u].at = "set" =>
                             action'[x] = IF setting'[u].fn = "handler" THEN "vm" ELSE "default"
      BY Zenon DEF Registering
    <3>1. x \in Sig \ crossed /\ Setting(u, x) /\ \A v \in Poller : Setting(v, x) => v = u
      BY <2>1, <2>5, Zenon DEF Registering
    <3>2. CASE u = t
      <4>1. x = c
        BY <3>1, <3>2, Zenon DEF Setting, c
      <4>2. QED
        BY <2>2, <2>4, <2>5, <3>1, <3>2, <4>1, Zenon
    <3>3. CASE u # t
      <4>1. x # c
        BY <2>6, <3>1, <3>3, Zenon
      <4>2. QED
        BY <2>3, <2>4, <2>5, <3>1, <3>3, <4>1 DEF Registering
    <3>4. QED
      BY <3>2, <3>3, Zenon
  <2>8. RegisteredIsCallable'
    <3> SUFFICES ASSUME NEW x \in Sig \ crossed', action'[x] = "vm",
                        \A u \in Poller : ~ Setting(u, x)'
                 PROVE  SignalHandlers'[x] = "handler"
      BY Zenon DEF RegisteredIsCallable, Setting
    <3>1. x # c /\ \A u \in Poller : ~ Setting(u, x)
      BY <2>5, <2>6, Zenon
    <3>2. QED
      BY <2>1, <2>3, <3>1, Zenon DEF RegisteredIsCallable, Setting
  <2>9. QED
    BY <2>7, <2>8, Zenon
<1>4. ASSUME NEW t \in Poller, SetHandler(t)
      PROVE  Registering' /\ RegisteredIsCallable'
  <2> DEFINE c == setting[t].sig
  <2>1. /\ setting[t].at = "set" /\ UNCHANGED <<action, crossed>>
        /\ SignalHandlers' = [SignalHandlers EXCEPT ![c] = setting[t].fn]
        /\ setting' = [setting EXCEPT ![t].at = "none"]
    BY <1>4, Zenon DEF SetHandler
  <2>2. c \in Sig /\ SignalHandlers'[c] = setting[t].fn
    BY <1>t, <2>1, Zenon
  <2>3. \A x \in Sig : x # c => SignalHandlers'[x] = SignalHandlers[x]
    BY <1>t, <2>1, Zenon
  <2>4. /\ setting'[t].at = "none"
        /\ \A u \in Poller : u # t => setting'[u] = setting[u]
    BY <1>t, <2>1, Zenon
  <2>5. /\ \A u \in Poller, x \in Sig : u # t => (Setting(u, x)' <=> Setting(u, x))
        /\ \A x \in Sig : ~ Setting(t, x)' /\ (Setting(t, x) <=> x = c)
    BY <2>1, <2>4, Zenon DEF Setting
  <2>6. Setting(t, c)
    BY <2>1, Zenon DEF Setting
  <2> HIDE DEF c
  <2>7. Registering'
    BY <2>1, <2>4, <2>5 DEF Registering
  <2>8. RegisteredIsCallable'
    <3> SUFFICES ASSUME NEW x \in Sig \ crossed', action'[x] = "vm",
                        \A u \in Poller : ~ Setting(u, x)'
                 PROVE  SignalHandlers'[x] = "handler"
      BY Zenon DEF RegisteredIsCallable, Setting
    <3>1. CASE x = c
      <4>1. action[c] = IF setting[t].fn = "handler" THEN "vm" ELSE "default"
        BY <2>1, <2>6, <3>1, Zenon DEF Registering
      <4>2. QED
        BY <1>t, <2>1, <2>2, <3>1, <4>1, Zenon
    <3>2. CASE x # c
      <4>1. \A u \in Poller : ~ Setting(u, x)
        BY <2>5, <3>2, Zenon
      <4>2. QED
        BY <2>1, <2>3, <3>2, <4>1, Zenon DEF RegisteredIsCallable, Setting
    <3>3. QED
      BY <3>1, <3>2, Zenon
  <2>9. QED
    BY <2>7, <2>8, Zenon
<1>5. ASSUME NEW t \in Poller,
             DeliverAny(t) \/ DeliverFlag(t) \/ CheckSignals(t) \/ JitCheck(t) \/ JitClear(t)
               \/ JitTake(t) \/ ScanState(t) \/ ScanRead(t) \/ HandlerReturns(t)
               \/ HandlerThrows(t) \/ ScanEnds(t) \/ \E s \in Sig : Deliver(t, s)
      PROVE  UNCHANGED <<SignalHandlers, action, setting, crossed>>
  BY <1>5, Zenon
     DEF DeliverAny, DeliverFlag, CheckSignals, JitCheck, JitClear, JitTake, ScanState,
         ScanRead, HandlerReturns, HandlerThrows, ScanEnds, Deliver
<1>6. CASE UNCHANGED signalVars
  BY <1>1, <1>6, Zenon DEF signalVars
<1>7. ASSUME NEW t \in Poller, SigActionFails(t)
      PROVE  Registering' /\ RegisteredIsCallable'
  <2>1. /\ setting[t].at = "sigaction" /\ action[setting[t].sig] = "default"
        /\ UNCHANGED <<SignalHandlers, action, crossed>>
        /\ setting' = [setting EXCEPT ![t].at = "none"]
    BY <1>7, Zenon DEF SigActionFails
  <2>2. setting'[t].at = "none" /\ \A u \in Poller : u # t => setting'[u] = setting[u]
    BY <1>t, <2>1, Zenon
  <2>3. /\ \A u \in Poller, x \in Sig : u # t => (Setting(u, x)' <=> Setting(u, x))
        /\ \A x \in Sig : ~ Setting(t, x)' /\ (Setting(t, x) <=> x = setting[t].sig)
    BY <2>1, <2>2, Zenon DEF Setting
  <2>4. Registering'
    BY <2>1, <2>2, <2>3 DEF Registering
  <2>5. RegisteredIsCallable'
    <3> SUFFICES ASSUME NEW x \in Sig \ crossed', action'[x] = "vm",
                        \A u \in Poller : ~ Setting(u, x)'
                 PROVE  SignalHandlers'[x] = "handler"
      BY Zenon DEF RegisteredIsCallable, Setting
    <3>1. x # setting[t].sig
      BY <2>1, Zenon
    <3>2. \A u \in Poller : ~ Setting(u, x)
      BY <2>3, <3>1, Zenon
    <3>3. QED
      BY <2>1, <3>2, Zenon DEF RegisteredIsCallable, Setting
  <2>6. QED
    BY <2>4, <2>5, Zenon
<1>8. QED
  BY <1>1, <1>2, <1>3, <1>4, <1>5, <1>6, <1>7, Zenon DEF SignalNext

-----------------------------------------------------------------------------
(* The theorems *)

\* SignalInv in every state.
LEMMA SignalInvHolds == SignalSpec => []SignalInv
<1>1. SignalInit => SignalInv
  BY TypedInit DEF SignalInit, SignalInv, FlagCoversPending, Registering, Setting,
                   RegisteredIsCallable
<1>2. SignalInv /\ [SignalNext]_signalVars => SignalInv'
  BY TypedStep, FoundStep, FlagStep, RegisteringStep, Zenon DEF SignalInv
<1>3. QED
  BY <1>1, <1>2, PTL DEF SignalSpec

\* A signal that vm_do_signal recorded is found: no interleaving of deliveries
\* with polls and nested scans of HandlePendingSignals leaves it behind, unless
\* a handler threw out of a scan.
THEOREM SignalsAreFound == SignalSpec => []NoSignalLost
<1>1. SignalInv => NoSignalLost
  <2> SUFFICES ASSUME SignalInv PROVE NoSignalLost
    OBVIOUS
  <2>1. Typed /\ \A s \in SignalStates : Found(s)
    BY Zenon DEF SignalInv
  <2>2. \A t \in Poller : \A i \in DOMAIN scans[t] : scans[t][i] \in Entry
    BY <2>1 DEF Typed
  <2>3. SignalTypeOK
    BY <2>1, <2>2, Zenon DEF Typed, SignalTypeOK, Entry
  <2>4. QED
    BY <2>1, <2>3, Zenon DEF NoSignalLost, Found
<1>2. QED
  BY <1>1, SignalInvHolds, PTL

\* Compiled code, which polls JitInterruptFlag only, is told of every signal.
THEOREM CompiledCodeIsTold == SignalSpec => []FlagCoversPending
  BY SignalInvHolds, PTL DEF SignalInv

\* After os.signal() the signal finds its function, unless calls for the same
\* signal overlapped.
THEOREM HandlersAreCallable == SignalSpec => []RegisteredIsCallable
  BY SignalInvHolds, PTL DEF SignalInv

(***************************************************************************)
(* Finalizers.                                                             *)
(***************************************************************************)

Lists == {"own", "dead"}
Unfreed == (1 .. count) \ freed

\* The entries that count: all but the stale ones behind the walk.
Pos(s, l, k) == s.in # l \/ k <= s.n \/ k >= s.i

\* The entries that this sweep frees no more.
Passed(s, l, k) == \/ s.in = "none"
                   \/ s.in = "own" /\ l = "own" /\ k <= s.n
                   \/ s.in = "dead" /\ (l = "own" \/ k <= s.n)

\* The objects that this sweep does not free.
Safe == {o \in Unfreed : \/ sweeper.in = "none"
                         \/ o \in marks
                         \/ \E l \in Lists : \E k \in 1 .. Len(allocs[l]) :
                              allocs[l][k] = o /\ Passed(sweeper, l, k)}

\* The types, and where the walk is.
FinTyped ==
  /\ allocs \in [Lists -> Seq(Id)]
  /\ count \in 0 .. MaxAllocs
  /\ ref \in [Id -> 0 .. count]
  /\ \A o \in Id : o > count \/ o \in freed => ref[o] = 0
  /\ held \subseteq 1 .. count /\ marks \subseteq 1 .. count /\ freed \subseteq 1 .. count
  /\ inherited \subseteq 1 .. count
  /\ final \subseteq 1 .. count
  /\ escaped \subseteq 1 .. count
  /\ twice \in BOOLEAN /\ off \in BOOLEAN

Walk ==
  /\ sweeper \in [in : {"none", "own", "dead"}, i : Nat, n : Nat, at : {"test", "finalizer"}]
  /\ sweeper.in = "none" => sweeper = AtRest
  /\ off => sweeper = AtRest
  /\ sweeper.in # "none" => sweeper.n < sweeper.i /\ sweeper.i <= Len(List) + 1
  /\ sweeper.at = "finalizer" => sweeper.i <= Len(List) /\ This \notin marks

\* What the lists hold.
Sides == \A l \in Lists : \A k \in 1 .. Len(allocs[l]) :
           allocs[l][k] \in 1 .. count /\ (allocs[l][k] \in inherited <=> l = "dead")
Sorted == \A l \in Lists : \A j, k \in 1 .. Len(allocs[l]) :
            j < k /\ Pos(sweeper, l, j) /\ Pos(sweeper, l, k) => allocs[l][j] < allocs[l][k]
NotFreed == \A l \in Lists : \A k \in 1 .. Len(allocs[l]) : Pos(sweeper, l, k) => allocs[l][k] \notin freed
Listed == \A o \in Unfreed : \E l \in Lists : \E k \in 1 .. Len(allocs[l]) :
            allocs[l][k] = o /\ Pos(sweeper, l, k)
Unmarked == \A l \in Lists : \A k \in 1 .. Len(allocs[l]) : Passed(sweeper, l, k) => allocs[l][k] \notin marks

\* What is safe: what the program holds, and what a safe object refers to.
HeldSafe == held \ escaped \subseteq Safe
Closed == \A x \in Safe \ escaped : ref[x] \in Safe \cup escaped \cup {0}

\* A member that is gone: its object will be visited later by this sweep.
Gone == \A x \in Unfreed : ref[x] \in freed =>
          \/ {x, ref[x]} \cap escaped # {}
          \/ /\ x \notin Safe
             /\ ref[x] < x \/ (x \in inherited /\ ref[x] \notin inherited)

\* Some set of objects that are not freed holds all that the program reaches.
Shielded == \E K \in SUBSET Unfreed :
              /\ held \ escaped \subseteq K
              /\ \A x \in K \ escaped : ref[x] \in K \cup escaped \cup {0}

ListsRight == Sides /\ Sorted /\ NotFreed /\ Listed /\ Unmarked
RefsRight == HeldSafe /\ Closed /\ Gone

FinInv == /\ FinTyped /\ Walk /\ ~twice
          /\ IF off THEN Shielded ELSE ListsRight /\ RefsRight

-----------------------------------------------------------------------------
(* Facts about the walk and about the steps that change a list *)

\* During a sweep the walk is in one of the two lists.
LEMMA WalkFacts ==
  ASSUME FinTyped, Walk, sweeper # AtRest
  PROVE  /\ sweeper.in \in Lists /\ sweeper.i \in Nat /\ sweeper.n \in Nat
         /\ sweeper.n < sweeper.i /\ sweeper.i <= Len(List) + 1
         /\ ~off
         /\ allocs[sweeper.in] \in Seq(Id) /\ Len(List) \in Nat
         /\ sweeper.i <= Len(List) => sweeper.i \in 1 .. Len(List) /\ This \in Id
<1>1. sweeper.in # "none" /\ ~off
  BY Zenon DEF Walk
<1>2. sweeper.in \in Lists
  BY <1>1, Zenon DEF Walk, Lists
<1>3. allocs[sweeper.in] \in Seq(Id)
  BY <1>2, Zenon DEF FinTyped
<1>4. sweeper.i \in Nat /\ sweeper.n \in Nat /\ sweeper.n < sweeper.i /\ sweeper.i <= Len(List) + 1
  BY <1>1, Zenon DEF Walk
<1>5. Len(List) \in Nat
  BY <1>3 DEF List
<1>6. QED
  BY <1>1, <1>2, <1>3, <1>4, <1>5 DEF List, This

\* The object at the walk is not safe when its mark is clear: no other entry
\* that counts is the same.
LEMMA ThisIsNotSafe ==
  ASSUME FinTyped, Walk, ListsRight, sweeper # AtRest, sweeper.i <= Len(List), This \notin marks
  PROVE  /\ This \in Unfreed /\ This \notin Safe
         /\ \A l \in Lists : \A k \in 1 .. Len(allocs[l]) :
              Pos(sweeper, l, k) /\ allocs[l][k] = This => l = sweeper.in /\ k = sweeper.i
<1>1. sweeper.in \in Lists /\ sweeper.i \in 1 .. Len(allocs[sweeper.in])
  BY WalkFacts, Zenon DEF List
<1>2. Pos(sweeper, sweeper.in, sweeper.i) /\ sweeper.n < sweeper.i
  BY WalkFacts DEF Pos
<1>3. This \in Unfreed
  BY <1>1, <1>2, Zenon DEF ListsRight, Sides, NotFreed, Unfreed, This, List
<1>4. ASSUME NEW l \in Lists, NEW k \in 1 .. Len(allocs[l]), Pos(sweeper, l, k), allocs[l][k] = This
      PROVE  l = sweeper.in /\ k = sweeper.i
  <2>1. l = sweeper.in
    BY <1>1, <1>4, Zenon DEF ListsRight, Sides, This, List, Lists
  <2>2. ~(k < sweeper.i) /\ ~(sweeper.i < k)
    BY <1>1, <1>2, <1>3, <1>4, <2>1 DEF ListsRight, Sorted, This, List, Unfreed
  <2>3. QED
    BY <1>1, <1>4, <2>1, <2>2
<1>5. ASSUME NEW l \in Lists, NEW k \in 1 .. Len(allocs[l]), Passed(sweeper, l, k), allocs[l][k] = This
      PROVE  FALSE
  <2>1. Pos(sweeper, l, k)
    BY <1>1, <1>5, Zenon DEF Pos, Passed, Lists
  <2>2. l = sweeper.in /\ k = sweeper.i
    BY <1>4, <1>5, <2>1, Zenon
  <2>3. QED
    BY <1>1, <1>2, <1>5, <2>2, WalkFacts DEF Passed, Lists
<1>6. QED
  BY <1>1, <1>3, <1>4, <1>5, Zenon DEF Safe, Lists

\* AddAlloc puts the new object at the end of one list.
LEMMA PushFacts ==
  ASSUME FinTyped, NEW l \in Lists, NEW f \in BOOLEAN, NewObject(l, f)
  PROVE  /\ count + 1 \in Id /\ count' = count + 1
         /\ allocs' \in [Lists -> Seq(Id)]
         /\ Len(allocs'[l]) = Len(allocs[l]) + 1 /\ Len(allocs[l]) \in Nat
         /\ allocs'[l][Len(allocs[l]) + 1] = count + 1
         /\ \A k \in 1 .. Len(allocs[l]) : allocs'[l][k] = allocs[l][k]
         /\ \A m \in Lists \ {l} : allocs'[m] = allocs[m]
         /\ inherited' = IF l = "dead" THEN inherited \cup {count + 1} ELSE inherited
<1>1. count + 1 \in Id /\ count' = count + 1 /\ count \in Nat
  BY AllocsAssumption DEF NewObject, FinTyped, Id
<1>2. allocs' = [allocs EXCEPT ![l] = Append(@, count + 1)]
  BY Zenon DEF NewObject, AddAlloc
<1>3. allocs \in [Lists -> Seq(Id)] /\ allocs[l] \in Seq(Id)
  BY Zenon DEF FinTyped
<1>4. allocs'[l] = Append(allocs[l], count + 1) /\ \A m \in Lists \ {l} : allocs'[m] = allocs[m]
  BY <1>2, <1>3, Zenon
<1>5. Append(allocs[l], count + 1) \in Seq(Id)
  BY <1>1, <1>3
<1>6. allocs' \in [Lists -> Seq(Id)]
  BY <1>2, <1>3, <1>5, Zenon
<1>7. QED
  BY <1>1, <1>3, <1>4, <1>6 DEF NewObject

\* A kept entry is copied to the place after the last one that was kept.
LEMMA KeepFacts ==
  ASSUME FinTyped, Walk, SweepKeep
  PROVE  /\ sweeper # AtRest /\ sweeper.i <= Len(List) /\ This \in marks
         /\ allocs' \in [Lists -> Seq(Id)]
         /\ Len(allocs'[sweeper.in]) = Len(List)
         /\ \A k \in 1 .. Len(List) :
              allocs'[sweeper.in][k] = IF k = sweeper.n + 1 THEN This ELSE List[k]
         /\ \A m \in Lists \ {sweeper.in} : allocs'[m] = allocs[m]
         /\ sweeper'.in = sweeper.in /\ sweeper'.i = sweeper.i + 1
         /\ sweeper'.n = sweeper.n + 1 /\ sweeper'.at = "test"
         /\ sweeper' \in [in : {"none", "own", "dead"}, i : Nat, n : Nat, at : {"test", "finalizer"}]
<1> DEFINE c == sweeper.in
<1>1. sweeper # AtRest /\ sweeper.at = "test" /\ sweeper.i <= Len(List) /\ This \in marks
  BY Zenon DEF SweepKeep, AtTest
<1>2. c \in Lists /\ allocs[c] \in Seq(Id) /\ This \in Id /\ sweeper.n + 1 \in 1 .. Len(allocs[c])
  BY <1>1, WalkFacts DEF List
<1>3. allocs' = [allocs EXCEPT ![c] = [allocs[c] EXCEPT ![sweeper.n + 1] = This]]
  BY Zenon DEF SweepKeep
<1>4. allocs \in [Lists -> Seq(Id)]
  BY Zenon DEF FinTyped
<1>5. allocs'[c] = [allocs[c] EXCEPT ![sweeper.n + 1] = This]
      /\ \A m \in Lists \ {c} : allocs'[m] = allocs[m]
  BY <1>2, <1>3, <1>4, Zenon
<1>6. [allocs[c] EXCEPT ![sweeper.n + 1] = This] \in Seq(Id)
      /\ Len([allocs[c] EXCEPT ![sweeper.n + 1] = This]) = Len(allocs[c])
      /\ \A k \in 1 .. Len(allocs[c]) : [allocs[c] EXCEPT ![sweeper.n + 1] = This][k]
           = IF k = sweeper.n + 1 THEN This ELSE allocs[c][k]
  BY <1>2
<1>7. allocs' \in [Lists -> Seq(Id)]
  BY <1>3, <1>4, <1>6, Zenon
<1>8. sweeper' = [sweeper EXCEPT !.i = @ + 1, !.n = @ + 1]
  BY Zenon DEF SweepKeep
<1>9. sweeper \in [in : {"none", "own", "dead"}, i : Nat, n : Nat, at : {"test", "finalizer"}]
  BY Zenon DEF Walk
<1> HIDE DEF c
<1>10. /\ sweeper'.in = sweeper.in /\ sweeper'.i = sweeper.i + 1
       /\ sweeper'.n = sweeper.n + 1 /\ sweeper'.at = sweeper.at
       /\ sweeper' \in [in : {"none", "own", "dead"}, i : Nat, n : Nat, at : {"test", "finalizer"}]
  <2>1. sweeper' = [in |-> sweeper.in, i |-> sweeper.i + 1, n |-> sweeper.n + 1, at |-> sweeper.at]
    BY <1>8, <1>9, Zenon
  <2>2. QED
    BY <1>9, <2>1
<1> USE DEF c
<1>11. Len(allocs'[c]) = Len(List)
       /\ \A k \in 1 .. Len(List) : allocs'[c][k] = IF k = sweeper.n + 1 THEN This ELSE List[k]
  BY <1>5, <1>6, Zenon DEF List
<1>12. QED
  BY <1>1, <1>5, <1>7, <1>10, <1>11, Zenon

\* At the end of a walk the list keeps what was kept.
LEMMA EndFacts ==
  ASSUME FinTyped, Walk, SweepEnd
  PROVE  /\ sweeper # AtRest /\ sweeper.i = Len(List) + 1 /\ sweeper.at = "test"
         /\ allocs' \in [Lists -> Seq(Id)]
         /\ Len(allocs'[sweeper.in]) = sweeper.n /\ sweeper.n <= Len(List)
         /\ \A k \in 1 .. sweeper.n : allocs'[sweeper.in][k] = List[k]
         /\ \A m \in Lists \ {sweeper.in} : allocs'[m] = allocs[m]
         /\ sweeper' = IF sweeper.in = "own" THEN [AtRest EXCEPT !.in = "dead"] ELSE AtRest
<1> DEFINE c == sweeper.in
<1>1. sweeper # AtRest /\ sweeper.i > Len(List)
  BY Zenon DEF SweepEnd
<1>2. c \in Lists /\ allocs[c] \in Seq(Id) /\ sweeper.n \in Nat /\ sweeper.n <= Len(allocs[c])
      /\ sweeper.i = Len(allocs[c]) + 1
  BY <1>1, WalkFacts DEF List
<1>3. sweeper.at = "test"
  BY <1>1, <1>2 DEF Walk, List
<1>4. allocs' = [allocs EXCEPT ![c] = SubSeq(allocs[c], 1, sweeper.n)]
  BY Zenon DEF SweepEnd
<1>5. allocs \in [Lists -> Seq(Id)]
  BY Zenon DEF FinTyped
<1>6. allocs'[c] = SubSeq(allocs[c], 1, sweeper.n) /\ \A m \in Lists \ {c} : allocs'[m] = allocs[m]
  BY <1>2, <1>4, <1>5, Zenon
<1>7. SubSeq(allocs[c], 1, sweeper.n) \in Seq(Id)
      /\ Len(SubSeq(allocs[c], 1, sweeper.n)) = sweeper.n
      /\ \A k \in 1 .. sweeper.n : SubSeq(allocs[c], 1, sweeper.n)[k] = allocs[c][k]
  BY <1>2
<1>8. allocs' \in [Lists -> Seq(Id)]
  BY <1>4, <1>5, <1>7, Zenon
<1>9. QED
  BY <1>1, <1>2, <1>3, <1>6, <1>7, <1>8, Zenon DEF List, SweepEnd

-----------------------------------------------------------------------------
(* An entry is kept *)

\* Keeping an object moves it from the part to be visited to the end of the part kept.
LEMMA KeepLists ==
  ASSUME FinTyped, Walk, ListsRight, SweepKeep
  PROVE  ListsRight'
<1> DEFINE c == sweeper.in
<1>1. /\ c \in Lists /\ sweeper.i \in 1 .. Len(allocs[c]) /\ sweeper.n \in Nat /\ sweeper.n < sweeper.i
      /\ allocs[c] \in Seq(Id) /\ Len(allocs[c]) \in Nat /\ This = allocs[c][sweeper.i]
  BY KeepFacts, WalkFacts, Zenon DEF List, This
<1>2. /\ Len(allocs'[c]) = Len(allocs[c])
      /\ \A k \in 1 .. Len(allocs[c]) :
           allocs'[c][k] = IF k = sweeper.n + 1 THEN allocs[c][sweeper.i] ELSE allocs[c][k]
      /\ \A m \in Lists \ {c} : allocs'[m] = allocs[m]
  BY <1>1, KeepFacts, Zenon DEF List
<1>3. sweeper'.in = c /\ sweeper'.i = sweeper.i + 1 /\ sweeper'.n = sweeper.n + 1
  BY KeepFacts, Zenon
<1>4. count' = count /\ inherited' = inherited /\ freed' = freed /\ marks' = marks \ {This}
  BY Zenon DEF SweepKeep, objVars
<1>5. Sides'
  <2> SUFFICES ASSUME NEW l \in Lists, NEW k \in 1 .. Len(allocs'[l])
               PROVE  allocs'[l][k] \in 1 .. count /\ (allocs'[l][k] \in inherited <=> l = "dead")
    BY <1>4, Zenon DEF Sides
  <2>1. PICK j \in 1 .. Len(allocs[l]) : allocs'[l][k] = allocs[l][j]
    BY <1>1, <1>2, Zenon
  <2>2. QED
    BY <2>1, Zenon DEF ListsRight, Sides
<1>6. Sorted'
  <2> SUFFICES ASSUME NEW l \in Lists, NEW j \in 1 .. Len(allocs'[l]), NEW k \in 1 .. Len(allocs'[l]),
                      j < k, Pos(sweeper', l, j), Pos(sweeper', l, k)
               PROVE  allocs'[l][j] < allocs'[l][k]
    BY Zenon DEF Sorted
  <2>1. CASE l # c
    BY <1>2, <1>3, <2>1, Zenon DEF ListsRight, Sorted, Pos
  <2>2. CASE l = c
    <3> DEFINE src(x) == IF x = sweeper.n + 1 THEN sweeper.i ELSE x
    <3>1. j \in 1 .. Len(allocs[c]) /\ k \in 1 .. Len(allocs[c])
      BY <1>2, <2>2, Zenon
    <3>2. allocs'[c][j] = allocs[c][src(j)] /\ allocs'[c][k] = allocs[c][src(k)]
      BY <1>2, <3>1, Zenon
    <3>3. (j <= sweeper.n + 1 \/ j >= sweeper.i + 1) /\ (k <= sweeper.n + 1 \/ k >= sweeper.i + 1)
      BY <1>3, <2>2, Zenon DEF Pos
    <3>4. src(j) < src(k) /\ src(j) \in 1 .. Len(allocs[c]) /\ src(k) \in 1 .. Len(allocs[c])
      BY <1>1, <3>1, <3>3
    <3>5. Pos(sweeper, c, src(j)) /\ Pos(sweeper, c, src(k))
      BY <1>1, <3>1, <3>3 DEF Pos
    <3> HIDE DEF src
    <3>6. QED
      BY <1>1, <2>2, <3>2, <3>4, <3>5, Zenon DEF ListsRight, Sorted
  <2>3. QED
    BY <2>1, <2>2, Zenon
<1>7. NotFreed'
  <2> SUFFICES ASSUME NEW l \in Lists, NEW k \in 1 .. Len(allocs'[l]), Pos(sweeper', l, k)
               PROVE  allocs'[l][k] \notin freed
    BY <1>4, Zenon DEF NotFreed
  <2>1. CASE l # c
    BY <1>2, <1>3, <2>1, Zenon DEF ListsRight, NotFreed, Pos
  <2>2. CASE l = c /\ k = sweeper.n + 1
    BY <1>1, <1>2, <2>2 DEF ListsRight, NotFreed, Pos
  <2>3. CASE l = c /\ k # sweeper.n + 1
    <3>1. Pos(sweeper, c, k) /\ k \in 1 .. Len(allocs[c])
      BY <1>1, <1>2, <1>3, <2>3 DEF Pos
    <3>2. QED
      BY <1>1, <1>2, <2>3, <3>1, Zenon DEF ListsRight, NotFreed
  <2>4. QED
    BY <2>1, <2>2, <2>3, Zenon
<1>8. Listed'
  <2> SUFFICES ASSUME NEW o \in Unfreed
               PROVE  \E l \in Lists : \E k \in 1 .. Len(allocs'[l]) : allocs'[l][k] = o /\ Pos(sweeper', l, k)
    BY <1>4, Zenon DEF Listed, Unfreed
  <2>1. PICK l, k : l \in Lists /\ k \in 1 .. Len(allocs[l]) /\ allocs[l][k] = o /\ Pos(sweeper, l, k)
    BY Zenon DEF ListsRight, Listed
  <2>2. CASE l # c
    BY <1>2, <1>3, <2>1, <2>2, Zenon DEF Pos
  <2>3. CASE l = c /\ k = sweeper.i
    <3>1. sweeper.n + 1 \in 1 .. Len(allocs'[c]) /\ allocs'[c][sweeper.n + 1] = o /\ Pos(sweeper', c, sweeper.n + 1)
      BY <1>1, <1>2, <1>3, <2>1, <2>3 DEF Pos
    <3>2. QED
      BY <1>1, <3>1, Zenon
  <2>4. CASE l = c /\ k # sweeper.i
    <3>1. k # sweeper.n + 1 /\ Pos(sweeper', c, k)
      BY <1>1, <1>3, <2>1, <2>4 DEF Pos
    <3>2. k \in 1 .. Len(allocs'[c]) /\ allocs'[c][k] = o
      BY <1>2, <2>1, <2>4, <3>1, Zenon
    <3>3. QED
      BY <1>1, <3>1, <3>2, Zenon
  <2>5. QED
    BY <2>2, <2>3, <2>4, Zenon
<1>9. Unmarked'
  <2> SUFFICES ASSUME NEW l \in Lists, NEW k \in 1 .. Len(allocs'[l]), Passed(sweeper', l, k)
               PROVE  allocs'[l][k] \notin marks \ {This}
    BY <1>4, Zenon DEF Unmarked
  <2>1. CASE l # c
    <3>1. Passed(sweeper, l, k)
      BY <1>1, <1>3, <2>1, Zenon DEF Passed, Lists
    <3>2. QED
      BY <1>2, <2>1, <3>1, Zenon DEF ListsRight, Unmarked
  <2>2. CASE l = c /\ k = sweeper.n + 1
    BY <1>1, <1>2, <2>2, Zenon
  <2>3. CASE l = c /\ k # sweeper.n + 1
    <3>1. Passed(sweeper, c, k) /\ k \in 1 .. Len(allocs[c])
      BY <1>1, <1>2, <1>3, <2>3 DEF Passed, Lists
    <3>2. QED
      BY <1>1, <1>2, <2>3, <3>1, Zenon DEF ListsRight, Unmarked
  <2>4. QED
    BY <2>1, <2>2, <2>3, Zenon
<1>10. QED
  BY <1>5, <1>6, <1>7, <1>8, <1>9, Zenon DEF ListsRight

\* Its mark made it safe, its place among the kept ones does from now on.
LEMMA KeepSafe ==
  ASSUME FinTyped, Walk, ListsRight, SweepKeep
  PROVE  Safe' = Safe
<1> DEFINE c == sweeper.in
<1>1. /\ c \in Lists /\ sweeper.i \in 1 .. Len(allocs[c]) /\ sweeper.n \in Nat /\ sweeper.n < sweeper.i
      /\ allocs[c] \in Seq(Id) /\ Len(allocs[c]) \in Nat /\ This = allocs[c][sweeper.i] /\ This \in marks
  BY KeepFacts, WalkFacts, Zenon DEF List, This
<1>2. /\ Len(allocs'[c]) = Len(allocs[c])
      /\ \A k \in 1 .. Len(allocs[c]) :
           allocs'[c][k] = IF k = sweeper.n + 1 THEN This ELSE allocs[c][k]
      /\ \A m \in Lists \ {c} : allocs'[m] = allocs[m]
  BY <1>1, KeepFacts, Zenon DEF List
<1>3. sweeper'.in = c /\ sweeper'.i = sweeper.i + 1 /\ sweeper'.n = sweeper.n + 1 /\ c # "none"
  BY <1>1, KeepFacts, Zenon DEF Lists
<1>4. Unfreed' = Unfreed /\ marks' = marks \ {This}
  BY Zenon DEF SweepKeep, objVars, Unfreed
<1>5. ASSUME NEW o \in Unfreed, o \in Safe PROVE o \in Safe'
  <2>1. CASE o = This
    <3>1. sweeper.n + 1 \in 1 .. Len(allocs'[c]) /\ allocs'[c][sweeper.n + 1] = o
      BY <1>1, <1>2, <2>1
    <3>2. Passed(sweeper', c, sweeper.n + 1)
      BY <1>1, <1>3 DEF Passed, Lists
    <3>3. QED
      BY <1>1, <1>4, <3>1, <3>2, Zenon DEF Safe
  <2>2. CASE o # This /\ o \in marks
    BY <1>4, <2>2, Zenon DEF Safe
  <2>3. CASE o # This /\ o \notin marks
    <3>1. PICK l, k : l \in Lists /\ k \in 1 .. Len(allocs[l]) /\ allocs[l][k] = o /\ Passed(sweeper, l, k)
      BY <1>3, <1>5, <2>3, Zenon DEF Safe
    <3>2. k \in 1 .. Len(allocs'[l]) /\ Passed(sweeper', l, k)
      BY <1>1, <1>2, <1>3, <3>1 DEF Passed, Lists
    <3>3. l = c => k # sweeper.n + 1
      BY <1>1, <3>1 DEF Passed, Lists
    <3>4. allocs'[l][k] = o
      BY <1>2, <3>1, <3>3, Zenon
    <3>5. QED
      BY <1>4, <3>1, <3>2, <3>4, Zenon DEF Safe
  <2>4. QED
    BY <2>1, <2>2, <2>3, Zenon
<1>6. ASSUME NEW o \in Unfreed, o \in Safe' PROVE o \in Safe
  <2>1. CASE o \in marks
    BY <2>1, Zenon DEF Safe
  <2>2. CASE o \notin marks
    <3>1. PICK l, k : l \in Lists /\ k \in 1 .. Len(allocs'[l]) /\ allocs'[l][k] = o /\ Passed(sweeper', l, k)
      BY <1>3, <1>4, <1>6, <2>2, Zenon DEF Safe
    <3>2. l = c => k # sweeper.n + 1
      BY <1>1, <1>2, <2>2, <3>1, Zenon
    <3>3. k \in 1 .. Len(allocs[l]) /\ allocs[l][k] = o
      BY <1>1, <1>2, <3>1, <3>2, Zenon
    <3>4. Passed(sweeper, l, k)
      BY <1>1, <1>3, <3>1, <3>2, <3>3 DEF Passed, Lists
    <3>5. QED
      BY <3>1, <3>3, <3>4, Zenon DEF Safe
  <2>3. QED
    BY <2>1, <2>2, Zenon
<1>7. Safe \subseteq Unfreed /\ Safe' \subseteq Unfreed
  BY <1>4, Zenon DEF Safe
<1>8. QED
  BY <1>5, <1>6, <1>7, Zenon

\* A step of the sweep that keeps a marked object preserves the invariant.
LEMMA KeepStep ==
  ASSUME FinInv, SweepKeep
  PROVE  FinInv'
<1>1. FinTyped /\ Walk /\ ~twice
  BY Zenon DEF FinInv
<1>2. sweeper # AtRest /\ ~off /\ ListsRight /\ RefsRight
  BY <1>1, KeepFacts, WalkFacts, Zenon DEF FinInv
<1>3. UNCHANGED <<count, final, inherited, ref, held, freed, twice, off, escaped>> /\ marks' \subseteq marks
  BY Zenon DEF SweepKeep, objVars
<1>4. FinTyped'
  BY <1>1, <1>3, KeepFacts, Zenon DEF FinTyped
<1>5. Walk'
  <2>1. sweeper.in \in Lists /\ sweeper.n \in Nat /\ sweeper.n < sweeper.i /\ sweeper.i <= Len(List)
        /\ sweeper.i \in Nat /\ Len(List) \in Nat
    BY <1>1, <1>2, KeepFacts, WalkFacts, Zenon
  <2>2. sweeper'.in = sweeper.in /\ sweeper'.i = sweeper.i + 1 /\ sweeper'.n = sweeper.n + 1
        /\ sweeper'.at = "test" /\ Len(List') = Len(List)
        /\ sweeper' \in [in : {"none", "own", "dead"}, i : Nat, n : Nat, at : {"test", "finalizer"}]
    BY <1>1, KeepFacts, Zenon DEF List
  <2>3. sweeper'.in # "none" /\ ~off'
    BY <1>2, <1>3, <2>1, <2>2, Zenon DEF Lists
  <2>4. sweeper'.n < sweeper'.i /\ sweeper'.i <= Len(List') + 1
    BY <2>1, <2>2
  <2>5. QED
    BY <2>2, <2>3, <2>4, Zenon DEF Walk
<1>6. ListsRight'
  BY <1>1, <1>2, KeepLists, Zenon
<1>7. Safe' = Safe
  BY <1>1, <1>2, KeepSafe, Zenon
<1>8. RefsRight'
  BY <1>2, <1>3, <1>7, Zenon DEF RefsRight, HeldSafe, Closed, Gone, Unfreed
<1>9. QED
  BY <1>1, <1>2, <1>3, <1>4, <1>5, <1>6, <1>8, Zenon DEF FinInv

-----------------------------------------------------------------------------
(* An object is freed *)

\* The object that is freed is the first of those still to be visited.
LEMMA FreeFacts ==
  ASSUME FinTyped, Walk, Free
  PROVE  /\ UNCHANGED <<allocs, count, final, inherited, held, marks, off, escaped>>
         /\ freed' = freed \cup {This} /\ twice' = (twice \/ This \in freed)
         /\ sweeper'.in = sweeper.in /\ sweeper'.i = sweeper.i + 1 /\ sweeper'.n = sweeper.n
         /\ sweeper'.at = "test"
         /\ sweeper' \in [in : {"none", "own", "dead"}, i : Nat, n : Nat, at : {"test", "finalizer"}]
         /\ ref' = [ref EXCEPT ![This] = 0]
<1>1. sweeper \in [in : {"none", "own", "dead"}, i : Nat, n : Nat, at : {"test", "finalizer"}]
  BY Zenon DEF Walk
<1>2. sweeper' = [sweeper EXCEPT !.i = @ + 1, !.at = "test"]
  BY Zenon DEF Free
<1>3. sweeper' = [in |-> sweeper.in, i |-> sweeper.i + 1, n |-> sweeper.n, at |-> "test"]
  BY <1>1, <1>2, Zenon
<1>4. QED
  BY <1>1, <1>3 DEF Free

\* Freeing an object takes it off the part to be visited and changes nothing else.
LEMMA FreeLists ==
  ASSUME FinTyped, Walk, ListsRight, Free, sweeper # AtRest, sweeper.i <= Len(List), This \notin marks
  PROVE  ListsRight' /\ Safe' = Safe
<1> DEFINE c == sweeper.in
<1>1. c \in Lists /\ sweeper.i \in 1 .. Len(allocs[c]) /\ sweeper.n \in Nat /\ sweeper.n < sweeper.i
  BY WalkFacts, Zenon DEF List
<1>2. /\ allocs' = allocs /\ count' = count /\ inherited' = inherited /\ marks' = marks
      /\ freed' = freed \cup {This}
      /\ sweeper'.in = c /\ sweeper'.i = sweeper.i + 1 /\ sweeper'.n = sweeper.n
  BY FreeFacts, Zenon
<1>3. \A l \in Lists : \A k \in 1 .. Len(allocs[l]) :
        Pos(sweeper', l, k) <=> Pos(sweeper, l, k) /\ ~(l = c /\ k = sweeper.i)
  BY <1>1, <1>2 DEF Pos
<1>4. \A l, k : Passed(sweeper', l, k) <=> Passed(sweeper, l, k)
  BY <1>2, Zenon DEF Passed
<1>5. \A l \in Lists : \A k \in 1 .. Len(allocs[l]) :
        Pos(sweeper, l, k) /\ allocs[l][k] = This => l = c /\ k = sweeper.i
  BY ThisIsNotSafe, Zenon
<1>6. This = allocs[c][sweeper.i] /\ This \notin Safe
  BY ThisIsNotSafe, Zenon DEF This, List
<1> HIDE DEF c
<1>7. Sides'
  BY <1>2, Zenon DEF ListsRight, Sides
<1>8. Sorted'
  BY <1>2, <1>3, Zenon DEF ListsRight, Sorted
<1>9. NotFreed'
  BY <1>2, <1>3, <1>5, Zenon DEF ListsRight, NotFreed
<1>10. Listed'
  <2> SUFFICES ASSUME NEW o \in Unfreed, o # This
               PROVE  \E l \in Lists : \E k \in 1 .. Len(allocs[l]) : allocs[l][k] = o /\ Pos(sweeper', l, k)
    BY <1>2, Zenon DEF Listed, Unfreed
  <2>1. PICK l, k : l \in Lists /\ k \in 1 .. Len(allocs[l]) /\ allocs[l][k] = o /\ Pos(sweeper, l, k)
    BY Zenon DEF ListsRight, Listed
  <2>2. ~(l = c /\ k = sweeper.i)
    BY <1>6, <2>1, Zenon
  <2>3. QED
    BY <1>3, <2>1, <2>2, Zenon
<1>11. Unmarked'
  BY <1>2, <1>4, Zenon DEF ListsRight, Unmarked
<1>12. Unfreed' = Unfreed \ {This}
  BY <1>2, Zenon DEF Unfreed
<1>13. Safe' = Safe
  BY <1>2, <1>4, <1>6, <1>12, Zenon DEF Safe, c
<1>14. QED
  BY <1>7, <1>8, <1>9, <1>10, <1>11, <1>13, Zenon DEF ListsRight

\* What is neither safe nor at the walk is visited later: it is further on in
\* the list, or in the list of those that have exited.
LEMMA NotSafeIsAhead ==
  ASSUME FinTyped, Walk, ListsRight, sweeper # AtRest, sweeper.i <= Len(List), This \notin marks,
         NEW x \in Unfreed, x \notin Safe, x # This
  PROVE  This < x \/ (x \in inherited /\ This \notin inherited)
<1> DEFINE c == sweeper.in
<1>1. c \in Lists /\ sweeper.i \in 1 .. Len(allocs[c]) /\ sweeper.n \in Nat /\ sweeper.n < sweeper.i
  BY WalkFacts, Zenon DEF List
<1>2. PICK l, k : l \in Lists /\ k \in 1 .. Len(allocs[l]) /\ allocs[l][k] = x /\ Pos(sweeper, l, k)
  BY Zenon DEF ListsRight, Listed
<1>3. ~Passed(sweeper, l, k)
  BY <1>2, Zenon DEF Safe
<1>4. This = allocs[c][sweeper.i]
  BY Zenon DEF This, List
<1>5. CASE l = c
  <2>1. sweeper.i < k
    BY <1>1, <1>2, <1>3, <1>4, <1>5 DEF Pos, Passed, Lists
  <2>2. Pos(sweeper, c, sweeper.i)
    BY <1>1 DEF Pos
  <2>3. QED
    BY <1>1, <1>2, <1>4, <1>5, <2>1, <2>2, Zenon DEF ListsRight, Sorted
<1>6. CASE l # c
  <2>1. l = "dead" /\ c = "own"
    BY <1>1, <1>2, <1>3, <1>6, Zenon DEF Passed, Lists
  <2>2. QED
    BY <1>1, <1>2, <1>4, <2>1, Zenon DEF ListsRight, Sides
<1>7. QED
  BY <1>5, <1>6, Zenon

\* A step of the sweep that frees an object preserves the invariant.
LEMMA FreeStep ==
  ASSUME FinInv, Free, sweeper # AtRest, sweeper.i <= Len(List), This \notin marks
  PROVE  FinInv'
<1>1. FinTyped /\ Walk /\ ~twice
  BY Zenon DEF FinInv
<1>2. ~off /\ ListsRight /\ RefsRight
  BY <1>1, WalkFacts, Zenon DEF FinInv
<1>3. This \in Unfreed /\ This \notin Safe /\ This \in Id
  BY <1>1, <1>2, ThisIsNotSafe, WalkFacts, Zenon
<1>4. ListsRight' /\ Safe' = Safe
  BY <1>1, <1>2, FreeLists, Zenon
<1>5. /\ UNCHANGED <<allocs, count, final, inherited, held, marks, off, escaped>>
      /\ freed' = freed \cup {This} /\ ref' = [ref EXCEPT ![This] = 0]
      /\ twice' = (twice \/ This \in freed)
  BY <1>1, FreeFacts, Zenon
<1>6. ref'[This] = 0 /\ \A x \in Id \ {This} : ref'[x] = ref[x]
  BY <1>1, <1>3, <1>5, Zenon DEF FinTyped
<1>7. FinTyped' /\ ~twice'
  <2> 0 \in 0 .. count /\ ref \in [Id -> 0 .. count]
    BY <1>1, AllocsAssumption DEF FinTyped
  <2>1. ref' \in [Id -> 0 .. count]
    BY <1>5, Zenon
  <2>2. \A o \in Id : o > count \/ o \in freed' => ref'[o] = 0
    BY <1>1, <1>5, <1>6, Zenon DEF FinTyped
  <2>3. freed' \subseteq 1 .. count /\ ~twice'
    BY <1>1, <1>3, <1>5, Zenon DEF FinTyped, Unfreed
  <2>4. QED
    BY <1>1, <1>5, <2>1, <2>2, <2>3, Zenon DEF FinTyped
<1>8. Walk'
  <2>1. sweeper.in \in Lists /\ sweeper.n \in Nat /\ sweeper.n < sweeper.i /\ sweeper.i \in Nat /\ Len(List) \in Nat
    BY <1>1, WalkFacts, Zenon
  <2>2. /\ sweeper'.in = sweeper.in /\ sweeper'.i = sweeper.i + 1 /\ sweeper'.n = sweeper.n
        /\ sweeper'.at = "test"
        /\ sweeper' \in [in : {"none", "own", "dead"}, i : Nat, n : Nat, at : {"test", "finalizer"}]
    BY <1>1, FreeFacts, Zenon
  <2>3. Len(List') = Len(List) /\ sweeper'.in # "none" /\ ~off'
    BY <1>2, <1>5, <2>1, <2>2, Zenon DEF List, Lists
  <2>4. QED
    BY <2>1, <2>2, <2>3 DEF Walk
<1>9. HeldSafe'
  BY <1>2, <1>4, <1>5, Zenon DEF RefsRight, HeldSafe
<1>10. Safe \subseteq Id /\ Unfreed \subseteq Id
  BY <1>1, AllocsAssumption DEF Safe, Unfreed, FinTyped, Id
<1>11. Closed'
  BY <1>2, <1>3, <1>4, <1>5, <1>6, <1>10, Zenon DEF RefsRight, Closed
<1>12. Gone'
  <2> SUFFICES ASSUME NEW x \in Unfreed \ {This}, ref[x] \in freed \cup {This}
               PROVE  \/ {x, ref[x]} \cap escaped # {}
                      \/ /\ x \notin Safe
                         /\ ref[x] < x \/ (x \in inherited /\ ref[x] \notin inherited)
    BY <1>4, <1>5, <1>6, <1>10 DEF Gone, Unfreed
  <2>1. CASE ref[x] \in freed
    BY <1>2, <2>1, Zenon DEF RefsRight, Gone
  <2>2. CASE ref[x] = This /\ x \in Safe
    <3>1. x \in escaped \/ This \in escaped
      BY <1>1, <1>2, <1>3, <2>2 DEF RefsRight, Closed, Id
    <3>2. QED
      BY <2>2, <3>1, Zenon
  <2>3. CASE ref[x] = This /\ x \notin Safe
    BY <1>1, <1>2, <2>3, NotSafeIsAhead, Zenon
  <2>4. QED
    BY <2>1, <2>2, <2>3, Zenon
<1>13. QED
  BY <1>2, <1>4, <1>5, <1>7, <1>8, <1>9, <1>11, <1>12, Zenon DEF FinInv, RefsRight

-----------------------------------------------------------------------------
(* A walk ends *)

\* At the end of a list its stale entries are cut off and what was kept is left.
LEMMA EndLists ==
  ASSUME FinTyped, Walk, ListsRight, SweepEnd
  PROVE  ListsRight'
<1> DEFINE c == sweeper.in
<1>1. /\ c \in Lists /\ sweeper.n \in Nat /\ sweeper.n <= Len(allocs[c]) /\ Len(allocs[c]) \in Nat
      /\ sweeper.i = Len(allocs[c]) + 1
      /\ Len(allocs'[c]) = sweeper.n /\ \A k \in 1 .. sweeper.n : allocs'[c][k] = allocs[c][k]
      /\ \A m \in Lists \ {c} : allocs'[m] = allocs[m]
  BY EndFacts, WalkFacts, Zenon DEF List
<1>2. sweeper' = IF c = "own" THEN [AtRest EXCEPT !.in = "dead"] ELSE AtRest
  BY EndFacts, Zenon
<1>3. sweeper'.in = (IF c = "own" THEN "dead" ELSE "none") /\ sweeper'.i = 1 /\ sweeper'.n = 0
  BY <1>2, Zenon DEF AtRest
<1>4. count' = count /\ inherited' = inherited /\ freed' = freed /\ marks' = marks
  BY Zenon DEF SweepEnd, objVars
<1>5. \A l \in Lists : \A k \in 1 .. Len(allocs'[l]) :
        k \in 1 .. Len(allocs[l]) /\ allocs'[l][k] = allocs[l][k] /\ Pos(sweeper, l, k)
  BY <1>1 DEF Pos
<1>6. \A l \in Lists : \A k \in 1 .. Len(allocs[l]) : Pos(sweeper, l, k) =>
        k \in 1 .. Len(allocs'[l]) /\ Pos(sweeper', l, k)
  BY <1>1, <1>3 DEF Pos, Lists
<1>7. \A l \in Lists : \A k \in 1 .. Len(allocs'[l]) : Passed(sweeper', l, k) => Passed(sweeper, l, k)
  BY <1>1, <1>3 DEF Passed, Lists
<1> HIDE DEF c
<1>8. Sides'
  BY <1>4, <1>5, Zenon DEF ListsRight, Sides
<1>9. Sorted'
  BY <1>5, Zenon DEF ListsRight, Sorted
<1>10. NotFreed'
  BY <1>4, <1>5, Zenon DEF ListsRight, NotFreed
<1>11. Listed'
  BY <1>4, <1>5, <1>6, Zenon DEF ListsRight, Listed, Unfreed
<1>12. Unmarked'
  BY <1>4, <1>5, <1>7, Zenon DEF ListsRight, Unmarked
<1>13. QED
  BY <1>8, <1>9, <1>10, <1>11, <1>12, Zenon DEF ListsRight

\* What was safe stays so; when the last walk ends all that is left is.
LEMMA EndSafe ==
  ASSUME FinTyped, Walk, ListsRight, SweepEnd
  PROVE  Safe' = Safe
<1> DEFINE c == sweeper.in
<1>1. /\ c \in Lists /\ sweeper.n \in Nat /\ sweeper.n <= Len(allocs[c]) /\ Len(allocs[c]) \in Nat
      /\ sweeper.i = Len(allocs[c]) + 1
      /\ Len(allocs'[c]) = sweeper.n /\ \A k \in 1 .. sweeper.n : allocs'[c][k] = allocs[c][k]
      /\ \A m \in Lists \ {c} : allocs'[m] = allocs[m]
  BY EndFacts, WalkFacts, Zenon DEF List
<1>2. sweeper' = IF c = "own" THEN [AtRest EXCEPT !.in = "dead"] ELSE AtRest
  BY EndFacts, Zenon
<1>3. sweeper'.in = (IF c = "own" THEN "dead" ELSE "none") /\ sweeper'.i = 1 /\ sweeper'.n = 0
  BY <1>2, Zenon DEF AtRest
<1>4. Unfreed' = Unfreed /\ marks' = marks
  BY Zenon DEF SweepEnd, objVars, Unfreed
<1>5. CASE c = "own"
  <2>1. ASSUME NEW o \in Safe PROVE o \in Safe'
    <3>1. CASE o \in marks
      BY <1>4, <3>1, Zenon DEF Safe
    <3>2. CASE o \notin marks
      <4>1. PICK l, k : l \in Lists /\ k \in 1 .. Len(allocs[l]) /\ allocs[l][k] = o /\ Passed(sweeper, l, k)
        BY <1>5, <3>2, Zenon DEF Safe
      <4>2. l = "own" /\ k <= sweeper.n
        BY <1>5, <4>1, Zenon DEF Passed
      <4>3. k \in 1 .. Len(allocs'[l]) /\ allocs'[l][k] = o /\ Passed(sweeper', l, k)
        BY <1>1, <1>3, <1>5, <4>1, <4>2 DEF Passed
      <4>4. QED
        BY <1>4, <4>1, <4>3, Zenon DEF Safe
    <3>3. QED
      BY <3>1, <3>2, Zenon
  <2>2. ASSUME NEW o \in Safe' PROVE o \in Safe
    <3>1. CASE o \in marks
      BY <1>4, <3>1, Zenon DEF Safe
    <3>2. CASE o \notin marks
      <4>1. PICK l, k : l \in Lists /\ k \in 1 .. Len(allocs'[l]) /\ allocs'[l][k] = o /\ Passed(sweeper', l, k)
        BY <1>3, <1>4, <1>5, <3>2, Zenon DEF Safe
      <4>2. l = "own"
        BY <1>3, <1>5, <4>1 DEF Passed
      <4>3. k \in 1 .. Len(allocs[l]) /\ allocs[l][k] = o /\ Passed(sweeper, l, k)
        BY <1>1, <1>5, <4>1, <4>2 DEF Passed
      <4>4. QED
        BY <1>4, <4>1, <4>3, Zenon DEF Safe
    <3>3. QED
      BY <3>1, <3>2, Zenon
  <2>3. QED
    BY <2>1, <2>2, Zenon
<1>6. CASE c = "dead"
  <2>1. Safe' = Unfreed
    BY <1>3, <1>4, <1>6, Zenon DEF Safe
  <2>2. ASSUME NEW o \in Unfreed PROVE o \in Safe
    <3>1. PICK l, k : l \in Lists /\ k \in 1 .. Len(allocs[l]) /\ allocs[l][k] = o /\ Pos(sweeper, l, k)
      BY Zenon DEF ListsRight, Listed
    <3>2. Passed(sweeper, l, k)
      BY <1>1, <1>6, <3>1 DEF Pos, Passed, Lists
    <3>3. QED
      BY <3>1, <3>2, Zenon DEF Safe
  <2>3. QED
    BY <2>1, <2>2, Zenon DEF Safe
<1>7. QED
  BY <1>1, <1>5, <1>6, Zenon DEF Lists

\* The end of the sweep of one list, or of the whole sweep, preserves the invariant.
LEMMA EndStep ==
  ASSUME FinInv, SweepEnd
  PROVE  FinInv'
<1>1. FinTyped /\ Walk /\ ~twice
  BY Zenon DEF FinInv
<1>2. sweeper # AtRest /\ ~off /\ ListsRight /\ RefsRight
  BY <1>1, EndFacts, WalkFacts, Zenon DEF FinInv
<1>3. UNCHANGED <<count, final, inherited, ref, held, marks, freed, twice, off, escaped>>
  BY Zenon DEF SweepEnd, objVars
<1>4. FinTyped'
  BY <1>1, <1>3, EndFacts, Zenon DEF FinTyped
<1>5. Walk'
  <2>1. allocs' \in [Lists -> Seq(Id)]
    BY <1>1, EndFacts, Zenon
  <2>2. sweeper' = AtRest \/ sweeper' = [in |-> "dead", i |-> 1, n |-> 0, at |-> "test"]
    BY <1>1, EndFacts, Zenon DEF AtRest
  <2>3. Len(allocs'["dead"]) \in Nat
    BY <2>1 DEF Lists
  <2>4. CASE sweeper' = AtRest
    BY <2>4, Zenon DEF Walk, AtRest
  <2>5. CASE sweeper' = [in |-> "dead", i |-> 1, n |-> 0, at |-> "test"]
    BY <1>2, <1>3, <2>3, <2>5 DEF Walk, List
  <2>6. QED
    BY <2>2, <2>4, <2>5, Zenon
<1>6. ListsRight' /\ Safe' = Safe
  BY <1>1, <1>2, EndLists, EndSafe, Zenon
<1>7. RefsRight'
  BY <1>2, <1>3, <1>6, Zenon DEF RefsRight, HeldSafe, Closed, Gone, Unfreed
<1>8. QED
  BY <1>1, <1>2, <1>3, <1>4, <1>5, <1>6, <1>7, Zenon DEF FinInv

-----------------------------------------------------------------------------
(* A new object *)

\* It is safe between sweeps, and when a finalizer from DeadAllocs allocates
\* it; the others are as safe as before.
LEMMA PushLists ==
  ASSUME FinTyped, Walk, ListsRight, NEW l \in Lists, NEW f \in BOOLEAN, NewObject(l, f),
         sweeper' = sweeper, marks' = marks, freed' = freed, sweeper.in = "none" \/ l = "own"
  PROVE  /\ ListsRight'
         /\ Safe' = IF sweeper.in = "own" THEN Safe ELSE Safe \cup {count + 1}
<1> DEFINE o == count + 1
           e == Len(allocs[l]) + 1
<1>1. /\ o \in Id /\ count' = o /\ e \in Nat /\ Len(allocs'[l]) = e
      /\ allocs'[l][e] = o /\ \A k \in 1 .. (e - 1) : allocs'[l][k] = allocs[l][k]
      /\ \A m \in Lists \ {l} : allocs'[m] = allocs[m]
      /\ inherited' = IF l = "dead" THEN inherited \cup {o} ELSE inherited
  BY PushFacts
<1>2. count \in Nat /\ o \notin freed /\ o \notin marks /\ o \notin inherited
  BY AllocsAssumption DEF FinTyped
<1>3. sweeper.i <= e \/ sweeper.in # l
  BY Zenon DEF Walk, List, Lists
<1>4. \A m \in Lists : \A k \in 1 .. Len(allocs[m]) :
        k \in 1 .. Len(allocs'[m]) /\ allocs'[m][k] = allocs[m][k]
  BY <1>1
<1>5. \A m \in Lists : \A k \in 1 .. Len(allocs'[m]) :
        (k \in 1 .. Len(allocs[m]) /\ allocs'[m][k] = allocs[m][k]) \/ (m = l /\ k = e /\ allocs'[m][k] = o)
  <2>1. \A k \in 1 .. e : k \in 1 .. (e - 1) \/ k = e
    BY <1>1
  <2>2. QED
    BY <1>1, <2>1
<1>6. e \in 1 .. Len(allocs'[l]) /\ Pos(sweeper, l, e)
  BY <1>1, <1>3 DEF Pos
<1>7. Unfreed' = Unfreed \cup {o} /\ o \notin Unfreed
  BY <1>1, <1>2 DEF Unfreed
<1>8. \A m \in Lists : \A k \in 1 .. Len(allocs[m]) : allocs[m][k] \in 1 .. count
  BY Zenon DEF ListsRight, Sides
<1>9. Sides'
  <2> SUFFICES ASSUME NEW m \in Lists, NEW k \in 1 .. Len(allocs'[m])
               PROVE  allocs'[m][k] \in 1 .. o /\ (allocs'[m][k] \in inherited' <=> m = "dead")
    BY <1>1, Zenon DEF Sides
  <2>1. CASE k \in 1 .. Len(allocs[m]) /\ allocs'[m][k] = allocs[m][k]
    BY <1>1, <1>2, <1>8, <2>1 DEF ListsRight, Sides
  <2>2. CASE m = l /\ k = e /\ allocs'[m][k] = o
    BY <1>1, <1>2, <2>2 DEF Lists
  <2>3. QED
    BY <1>5, <2>1, <2>2, Zenon
<1>10. Sorted'
  <2> SUFFICES ASSUME NEW m \in Lists, NEW j \in 1 .. Len(allocs'[m]), NEW k \in 1 .. Len(allocs'[m]),
                      j < k, Pos(sweeper, m, j), Pos(sweeper, m, k)
               PROVE  allocs'[m][j] < allocs'[m][k]
    BY Zenon DEF Sorted
  <2>1. CASE k \in 1 .. Len(allocs[m]) /\ allocs'[m][k] = allocs[m][k]
    <3>1. j \in 1 .. Len(allocs[m]) /\ allocs'[m][j] = allocs[m][j]
      BY <1>4, <2>1
    <3>2. QED
      BY <2>1, <3>1, Zenon DEF ListsRight, Sorted
  <2>2. CASE m = l /\ k = e /\ allocs'[m][k] = o
    <3>1. allocs'[m][j] \in 1 .. count
      BY <1>1, <1>8, <2>2
    <3>2. QED
      BY <1>2, <2>2, <3>1
  <2>3. QED
    BY <1>5, <2>1, <2>2, Zenon
<1>11. NotFreed'
  BY <1>2, <1>5, Zenon DEF ListsRight, NotFreed
<1>12. Listed'
  <2> SUFFICES ASSUME NEW x \in Unfreed \cup {o}
               PROVE  \E m \in Lists : \E k \in 1 .. Len(allocs'[m]) : allocs'[m][k] = x /\ Pos(sweeper, m, k)
    BY <1>7, Zenon DEF Listed
  <2>1. CASE x = o
    BY <1>1, <1>6, <2>1, Zenon
  <2>2. CASE x \in Unfreed
    BY <1>4, <2>2, Zenon DEF ListsRight, Listed
  <2>3. QED
    BY <2>1, <2>2, Zenon
<1>13. Unmarked'
  BY <1>2, <1>5, Zenon DEF ListsRight, Unmarked
<1>14. ASSUME NEW x \in Unfreed PROVE x \in Safe' <=> x \in Safe
  <2>1. ASSUME NEW m \in Lists PROVE
          (\E k \in 1 .. Len(allocs'[m]) : allocs'[m][k] = x /\ Passed(sweeper, m, k))
            <=> (\E k \in 1 .. Len(allocs[m]) : allocs[m][k] = x /\ Passed(sweeper, m, k))
    BY <1>4, <1>5, <1>7
  <2>2. QED
    BY <1>7, <2>1, Zenon DEF Safe
<1>15. o \in Safe' <=> sweeper.in # "own"
  <2>1. CASE sweeper.in = "none"
    BY <1>7, <2>1, Zenon DEF Safe
  <2>2. CASE sweeper.in = "dead"
    <3>1. l = "own" /\ Passed(sweeper, l, e)
      BY <2>2, Zenon DEF Passed
    <3>2. QED
      BY <1>1, <1>6, <1>7, <2>2, <3>1, Zenon DEF Safe
  <2>3. CASE sweeper.in = "own"
    <3>1. ~ Passed(sweeper, l, e)
      BY <1>1, <1>3, <2>3 DEF Passed, Walk, Lists
    <3>2. ASSUME NEW m \in Lists, NEW k \in 1 .. Len(allocs'[m]), allocs'[m][k] = o, Passed(sweeper, m, k)
          PROVE  FALSE
      BY <1>2, <1>5, <1>8, <3>1, <3>2
    <3>3. QED
      BY <1>2, <2>3, <3>2, Zenon DEF Safe
  <2>4. QED
    BY <2>1, <2>2, <2>3, Zenon DEF Walk
<1>16. Safe \subseteq Unfreed /\ Safe' \subseteq Unfreed \cup {o}
  BY <1>7, Zenon DEF Safe
<1>17. QED
  BY <1>7, <1>9, <1>10, <1>11, <1>12, <1>13, <1>14, <1>15, <1>16 DEF ListsRight

\* A list that nobody relies on any more: the step only has to shield what the
\* program reaches.
LEMMA PushShielded ==
  ASSUME FinTyped, Shielded, NEW l \in Lists, NEW f \in BOOLEAN, NewObject(l, f),
         UNCHANGED <<ref, freed, escaped>>, held' = held \cup {count + 1}
  PROVE  Shielded'
<1>1. PICK K \in SUBSET Unfreed :
        held \ escaped \subseteq K /\ \A x \in K \ escaped : ref[x] \in K \cup escaped \cup {0}
  BY Zenon DEF Shielded
<1>2. count + 1 \in Id /\ count' = count + 1 /\ count \in Nat
  BY PushFacts, AllocsAssumption DEF FinTyped
<1>3. ref[count + 1] = 0 /\ count + 1 \notin freed
  BY <1>2 DEF FinTyped
<1>4. K \cup {count + 1} \subseteq Unfreed'
  BY <1>1, <1>2, <1>3 DEF Unfreed
<1>5. held' \ escaped' \subseteq K \cup {count + 1}
  BY <1>1, Zenon
<1>6. \A x \in (K \cup {count + 1}) \ escaped' : ref'[x] \in (K \cup {count + 1}) \cup escaped' \cup {0}
  BY <1>1, <1>3, Zenon
<1>7. QED
  BY <1>4, <1>5, <1>6, Zenon DEF Shielded

\* The types after an allocation.
LEMMA PushTyped ==
  ASSUME FinTyped, NEW l \in Lists, NEW f \in BOOLEAN, NewObject(l, f),
         UNCHANGED <<ref, marks, freed, twice, off>>,
         held' \subseteq held \cup {count + 1}, escaped' \subseteq escaped \cup {count + 1}
  PROVE  FinTyped'
<1>1. count + 1 \in Id /\ count' = count + 1 /\ count \in Nat /\ allocs' \in [Lists -> Seq(Id)]
  BY PushFacts, AllocsAssumption DEF FinTyped
<1>2. count' \in 0 .. MaxAllocs /\ 1 .. count \subseteq 1 .. count' /\ 0 .. count \subseteq 0 .. count'
      /\ count + 1 \in 1 .. count'
  BY <1>1, AllocsAssumption DEF Id
<1>3. inherited' \subseteq inherited \cup {count + 1} /\ final' \subseteq final \cup {count + 1}
  BY Zenon DEF NewObject
<1>4. ref' \in [Id -> 0 .. count']
  BY <1>2, Zenon DEF FinTyped
<1>5. \A o \in Id : o > count' \/ o \in freed' => ref'[o] = 0
  BY <1>1 DEF FinTyped, Id
<1>6. /\ held' \subseteq 1 .. count' /\ marks' \subseteq 1 .. count' /\ freed' \subseteq 1 .. count'
      /\ inherited' \subseteq 1 .. count' /\ final' \subseteq 1 .. count' /\ escaped' \subseteq 1 .. count'
  BY <1>2, <1>3, Zenon DEF FinTyped
<1>7. QED
  BY <1>1, <1>2, <1>4, <1>5, <1>6, Zenon DEF FinTyped

\* References after an allocation: the new object refers to nothing.
LEMMA PushRefs ==
  ASSUME FinTyped, Walk, ListsRight, RefsRight, NEW l \in Lists, NEW f \in BOOLEAN, NewObject(l, f),
         UNCHANGED <<ref, marks, freed, sweeper>>, sweeper.in = "none" \/ l = "own",
         escaped \subseteq escaped', held' \subseteq held \cup {count + 1},
         sweeper.in = "own" => count + 1 \notin held' \/ count + 1 \in escaped'
  PROVE  RefsRight'
<1>1. Safe' = IF sweeper.in = "own" THEN Safe ELSE Safe \cup {count + 1}
  BY PushLists, Zenon
<1>2. count + 1 \in Id /\ count' = count + 1 /\ count \in Nat
  BY PushFacts, AllocsAssumption DEF FinTyped
<1>3. ref[count + 1] = 0 /\ count + 1 \notin freed /\ 0 \notin freed
  BY <1>2 DEF FinTyped
<1>4. Unfreed' = Unfreed \cup {count + 1} /\ count + 1 \notin Unfreed
  BY <1>2, <1>3 DEF Unfreed
<1>5. HeldSafe'
  BY <1>1, Zenon DEF RefsRight, HeldSafe
<1>6. Closed'
  BY <1>1, <1>3, Zenon DEF RefsRight, Closed
<1>7. Gone'
  <2> SUFFICES ASSUME NEW x \in Unfreed \cup {count + 1}, ref[x] \in freed
               PROVE  \/ {x, ref[x]} \cap escaped' # {}
                      \/ /\ x \notin Safe'
                         /\ ref[x] < x \/ (x \in inherited' /\ ref[x] \notin inherited')
    BY <1>4, Zenon DEF Gone
  <2>1. x \in Unfreed /\ x # count + 1 /\ ref[x] # count + 1
    BY <1>3, <1>4, Zenon
  <2>2. (x \in Safe' <=> x \in Safe) /\ (x \in inherited' <=> x \in inherited)
        /\ (ref[x] \in inherited' <=> ref[x] \in inherited)
    BY <1>1, <2>1, Zenon DEF NewObject
  <2>3. \/ {x, ref[x]} \cap escaped # {}
        \/ /\ x \notin Safe
           /\ ref[x] < x \/ (x \in inherited /\ ref[x] \notin inherited)
    BY <2>1, Zenon DEF RefsRight, Gone
  <2>4. QED
    BY <2>2, <2>3, Zenon
<1>8. QED
  BY <1>5, <1>6, <1>7, Zenon DEF RefsRight

\* An allocation of the program preserves the invariant.
LEMMA AllocateStep ==
  ASSUME FinInv, NEW l \in Lists, NEW f \in BOOLEAN, Allocate(l, f)
  PROVE  FinInv'
<1>1. FinTyped /\ Walk /\ ~twice
  BY Zenon DEF FinInv
<1>2. /\ sweeper = AtRest /\ sweeper.in = "none" /\ NewObject(l, f) /\ held' = held \cup {count + 1}
      /\ UNCHANGED <<ref, marks, freed, twice, sweeper, off, escaped>>
  BY Zenon DEF Allocate, AtRest
<1>3. FinTyped'
  BY <1>1, <1>2, PushTyped, Zenon
<1>4. Walk'
  BY <1>2, Zenon DEF Walk, AtRest
<1>5. CASE off
  BY <1>1, <1>2, <1>3, <1>4, <1>5, PushShielded, Zenon DEF FinInv
<1>6. CASE ~off
  <2>1. ListsRight /\ RefsRight
    BY <1>6, Zenon DEF FinInv
  <2>2. ListsRight'
    BY <1>1, <1>2, <2>1, PushLists, Zenon
  <2>3. RefsRight'
    BY <1>1, <1>2, <2>1, PushRefs, Zenon
  <2>4. QED
    BY <1>1, <1>2, <1>3, <1>4, <1>6, <2>2, <2>3, Zenon DEF FinInv
<1>7. QED
  BY <1>5, <1>6, Zenon

\* An allocation of a finalizer, at the end of a list that is being swept, preserves it.
LEMMA FinalizerAllocatesStep ==
  ASSUME FinInv, NEW f \in BOOLEAN, FinalizerAllocates(f)
  PROVE  FinInv'
<1>1. FinTyped /\ Walk /\ ~twice
  BY Zenon DEF FinInv
<1>2. /\ sweeper.at = "finalizer" /\ NewObject("own", f) /\ "own" \in Lists
      /\ UNCHANGED <<ref, marks, freed, twice, sweeper, off>>
  BY Zenon DEF FinalizerAllocates, Finalizing, Lists
<1>3. /\ held' \subseteq held \cup {count + 1} /\ escaped \subseteq escaped'
      /\ escaped' \subseteq escaped \cup {count + 1}
  BY Zenon DEF FinalizerAllocates
<1>4. sweeper # AtRest
  BY <1>2 DEF AtRest
<1>5. ~off /\ ListsRight /\ RefsRight
  BY <1>1, <1>4, WalkFacts, Zenon DEF FinInv
<1>6. sweeper.in = "own" => count + 1 \notin held' \/ count + 1 \in escaped'
  <2>1. count + 1 \notin held
    BY <1>1, AllocsAssumption DEF FinTyped
  <2>2. QED
    BY <2>1, Zenon DEF FinalizerAllocates
<1>7. FinTyped'
  BY <1>1, <1>2, <1>3, PushTyped, Zenon
<1>8. Walk'
  <2>1. sweeper.in \in Lists /\ Len(List) \in Nat /\ sweeper.i \in 1 .. Len(List)
    BY <1>1, <1>2, <1>4, WalkFacts, Zenon DEF Walk
  <2>2. Len(List') >= Len(List) /\ Len(List') \in Nat /\ List'[sweeper.i] = List[sweeper.i]
    BY <1>1, <1>2, <2>1, PushFacts DEF List
  <2>3. This' = This
    BY <1>2, <2>2, Zenon DEF This
  <2>4. QED
    BY <1>1, <1>2, <2>1, <2>2, <2>3 DEF Walk
<1>9. ListsRight'
  BY <1>1, <1>2, <1>5, PushLists, Zenon
<1>10. RefsRight'
  BY <1>1, <1>2, <1>3, <1>5, <1>6, PushRefs, Zenon
<1>11. QED
  BY <1>1, <1>2, <1>5, <1>7, <1>8, <1>9, <1>10, Zenon DEF FinInv

-----------------------------------------------------------------------------
(* The steps that leave the lists alone *)

\* What a traversal reaches: where it starts, and on from each object that it
\* goes through.
LEMMA ReachedFacts ==
  ASSUME FinTyped, NEW S \in SUBSET Id, NEW X
  PROVE  /\ S \subseteq ReachedFrom(S, X)
         /\ \A x \in ReachedFrom(S, X) \ X : ref[x] \in ReachedFrom(S, X) \cup {0}
<1>1. S \subseteq ReachedFrom(S, X)
  BY Zenon DEF ReachedFrom
<1>2. \A x \in Id : ref[x] \in Id \cup {0}
  BY AllocsAssumption DEF FinTyped, Id
<1>3. \A x \in ReachedFrom(S, X) \ X : ref[x] \in ReachedFrom(S, X) \cup {0}
  BY <1>2, Zenon DEF ReachedFrom
<1>4. QED
  BY <1>1, <1>3, Zenon

\* ... and nothing outside of a set that is closed.
LEMMA ReachedWithin ==
  ASSUME NEW S, NEW X, NEW C \in SUBSET Id, S \subseteq C, \A x \in C \ X : ref[x] \in C \cup {0}
  PROVE  ReachedFrom(S, X) \subseteq C
BY Zenon DEF ReachedFrom

\* An assignment of the program to a member preserves it.
LEMMA AssignStep ==
  ASSUME FinInv, NEW o \in held, NEW v \in held \cup {0}, AssignMember(o, v)
  PROVE  FinInv'
<1>1. FinTyped /\ Walk /\ ~twice
  BY Zenon DEF FinInv
<1>2. /\ sweeper = AtRest /\ sweeper.in = "none" /\ o \notin freed /\ ref' = [ref EXCEPT ![o] = v]
      /\ UNCHANGED <<allocs, count, final, inherited, held, marks, freed, twice, sweeper, off, escaped>>
  BY Zenon DEF AssignMember, AtRest
<1>3. o \in Id /\ o <= count /\ v \in 0 .. count /\ count \in Nat
  BY <1>1, AllocsAssumption DEF FinTyped, Id
<1>4. ref'[o] = v /\ \A x \in Id \ {o} : ref'[x] = ref[x]
  BY <1>1, <1>2, <1>3, Zenon DEF FinTyped
<1>5. FinTyped'
  <2>1. ref' \in [Id -> 0 .. count]
    BY <1>1, <1>2, <1>3, Zenon DEF FinTyped
  <2>2. \A x \in Id : x > count \/ x \in freed => ref'[x] = 0
    BY <1>1, <1>2, <1>3, <1>4 DEF FinTyped
  <2>3. QED
    BY <1>1, <1>2, <2>1, <2>2, Zenon DEF FinTyped
<1>6. Walk'
  BY <1>2, Zenon DEF Walk, AtRest
<1>7. Unfreed \subseteq Id /\ Unfreed' = Unfreed
  BY <1>1, <1>2, AllocsAssumption DEF FinTyped, Unfreed, Id
<1>8. CASE off
  <2>1. PICK K \in SUBSET Unfreed :
          held \ escaped \subseteq K /\ \A x \in K \ escaped : ref[x] \in K \cup escaped \cup {0}
    BY <1>8, Zenon DEF FinInv, Shielded
  <2>2. \A x \in K \ escaped : ref'[x] \in K \cup escaped \cup {0}
    BY <1>4, <1>7, <2>1, Zenon
  <2>3. Shielded'
    BY <1>2, <1>7, <2>1, <2>2, Zenon DEF Shielded
  <2>4. QED
    BY <1>1, <1>2, <1>5, <1>6, <1>8, <2>3, Zenon DEF FinInv
<1>9. CASE ~off
  <2>1. ListsRight /\ HeldSafe /\ Closed /\ Gone
    BY <1>9, Zenon DEF FinInv, RefsRight
  <2>2. ListsRight'
    BY <1>2, <1>7, <2>1, Zenon DEF ListsRight, Sides, Sorted, NotFreed, Listed, Unmarked
  <2>3. Safe' = Safe /\ Safe \subseteq Unfreed
    BY <1>2, <1>7, Zenon DEF Safe
  <2>4. v \in Safe \cup escaped \cup {0}
    BY <2>1, Zenon DEF HeldSafe
  <2>5. HeldSafe' /\ Closed'
    BY <1>2, <1>4, <1>7, <2>1, <2>3, <2>4, Zenon DEF HeldSafe, Closed
  <2>6. v \in freed => v \in escaped
    BY <1>1, <2>3, <2>4 DEF Unfreed, FinTyped
  <2>7. Gone'
    BY <1>2, <1>4, <1>7, <2>1, <2>3, <2>6 DEF Gone
  <2>8. QED
    BY <1>1, <1>2, <1>5, <1>6, <1>9, <2>2, <2>5, <2>7, Zenon DEF FinInv, RefsRight
<1>10. QED
  BY <1>8, <1>9, Zenon

\* Marking what is held, and the start of the sweep, preserve it.
LEMMA BeginSweepStep ==
  ASSUME FinInv, NEW H \in SUBSET held, BeginSweep(H)
  PROVE  FinInv'
<1> DEFINE R == ReachedFrom(H, marks)
<1>1. FinTyped /\ Walk /\ ~twice /\ ~off /\ ListsRight /\ HeldSafe /\ Closed /\ Gone
  BY Zenon DEF FinInv, BeginSweep, RefsRight
<1>2. /\ sweeper = AtRest /\ sweeper.in = "none" /\ held' = H /\ marks' = marks \cup R
      /\ sweeper' = [in |-> "own", i |-> 1, n |-> 0, at |-> "test"]
      /\ UNCHANGED <<allocs, count, final, inherited, ref, freed, twice, off, escaped>>
  BY Zenon DEF BeginSweep, AtRest
<1>3. H \subseteq Id /\ 1 .. count \subseteq Id /\ H \subseteq 1 .. count
  BY <1>1, AllocsAssumption DEF FinTyped, Id
<1>4. H \subseteq R /\ \A x \in R \ marks : ref[x] \in R \cup {0}
  BY <1>1, <1>3, ReachedFacts, Zenon
<1>5. R \subseteq 1 .. count
  <2>1. \A x \in 1 .. count : ref[x] \in (1 .. count) \cup {0}
    BY <1>1, <1>3, AllocsAssumption DEF FinTyped
  <2>2. QED
    BY <1>3, <2>1, ReachedWithin, Zenon
<1> HIDE DEF R
<1>6. FinTyped'
  BY <1>1, <1>2, <1>3, <1>5, Zenon DEF FinTyped
<1>7. Walk'
  <2>1. Len(allocs["own"]) \in Nat
    BY <1>1 DEF FinTyped, Lists
  <2>2. QED
    BY <1>1, <1>2, <2>1 DEF Walk, List
<1>8. \A l \in Lists : \A k \in 1 .. Len(allocs[l]) :
        Pos(sweeper, l, k) /\ Pos(sweeper', l, k) /\ Passed(sweeper, l, k) /\ ~Passed(sweeper', l, k)
  BY <1>2 DEF Pos, Passed, Lists
<1>9. Unfreed' = Unfreed
  BY <1>2, Zenon DEF Unfreed
<1>10. ListsRight'
  BY <1>1, <1>2, <1>8, <1>9 DEF ListsRight, Sides, Sorted, NotFreed, Listed, Unmarked
<1>11. marks \subseteq freed
  <2>1. \A o \in Unfreed : o \notin marks
    BY <1>1, <1>8 DEF ListsRight, Listed, Unmarked
  <2>2. QED
    BY <1>1, <2>1, Zenon DEF FinTyped, Unfreed
<1>12. Safe = Unfreed
  BY <1>2, Zenon DEF Safe
<1>13. Safe' = Unfreed \cap R
  <2>1. \A o \in Unfreed : o \in Safe' <=> o \in marks \cup R
    BY <1>2, <1>8, <1>9, Zenon DEF Safe
  <2>2. Safe' \subseteq Unfreed
    BY <1>9, Zenon DEF Safe
  <2>3. QED
    BY <1>11, <2>1, <2>2, Zenon DEF Unfreed
<1>14. HeldSafe'
  BY <1>1, <1>2, <1>4, <1>12, <1>13, Zenon DEF HeldSafe
<1>15. Closed'
  <2> SUFFICES ASSUME NEW x \in (Unfreed \cap R) \ escaped
               PROVE  ref[x] \in (Unfreed \cap R) \cup escaped \cup {0}
    BY <1>2, <1>13, Zenon DEF Closed
  <2>1. ref[x] \in Unfreed \cup escaped \cup {0}
    BY <1>1, <1>12, Zenon DEF Closed
  <2>2. ref[x] \in R \cup {0}
    BY <1>4, <1>11, Zenon DEF Unfreed
  <2>3. QED
    BY <2>1, <2>2, Zenon
<1>16. Gone'
  BY <1>1, <1>2, <1>9, <1>12, Zenon DEF Gone
<1>17. QED
  BY <1>1, <1>2, <1>6, <1>7, <1>10, <1>14, <1>15, <1>16, Zenon DEF FinInv, RefsRight

\* The call of a finalizer preserves it.
LEMMA CallFinalizerStep ==
  ASSUME FinInv, CallFinalizer
  PROVE  FinInv'
<1>1. FinTyped /\ Walk /\ ~twice
  BY Zenon DEF FinInv
<1>2. /\ sweeper # AtRest /\ sweeper.i <= Len(List) /\ This \notin marks
      /\ sweeper' = [sweeper EXCEPT !.at = "finalizer"]
      /\ UNCHANGED <<allocs, count, final, inherited, ref, held, marks, freed, twice, off, escaped>>
  BY Zenon DEF CallFinalizer, AtTest, objVars
<1>3. ~off /\ ListsRight /\ RefsRight
  BY <1>1, <1>2, WalkFacts, Zenon DEF FinInv
<1>4. sweeper \in [in : {"none", "own", "dead"}, i : Nat, n : Nat, at : {"test", "finalizer"}]
  BY <1>1, Zenon DEF Walk
<1>5. /\ sweeper' \in [in : {"none", "own", "dead"}, i : Nat, n : Nat, at : {"test", "finalizer"}]
      /\ sweeper'.in = sweeper.in /\ sweeper'.i = sweeper.i /\ sweeper'.n = sweeper.n
  <2>1. sweeper' = [in |-> sweeper.in, i |-> sweeper.i, n |-> sweeper.n, at |-> "finalizer"]
    BY <1>2, <1>4, Zenon
  <2>2. QED
    BY <1>4, <2>1, Zenon
<1>6. FinTyped'
  BY <1>1, <1>2, Zenon DEF FinTyped
<1>7. Walk'
  <2>1. List' = List /\ This' = This
    BY <1>2, <1>5, Zenon DEF List, This
  <2>2. sweeper.in # "none" /\ ~off
    BY <1>1, <1>2, <1>3, Zenon DEF Walk
  <2>3. QED
    BY <1>1, <1>2, <1>5, <2>1, <2>2, Zenon DEF Walk
<1>8. \A l, k : (Pos(sweeper', l, k) <=> Pos(sweeper, l, k)) /\ (Passed(sweeper', l, k) <=> Passed(sweeper, l, k))
  BY <1>5, Zenon DEF Pos, Passed
<1>9. ListsRight'
  BY <1>2, <1>3, <1>8, Zenon
     DEF ListsRight, Sides, Sorted, NotFreed, Listed, Unmarked, Unfreed
<1>10. Safe' = Safe
  BY <1>2, <1>5, <1>8, Zenon DEF Safe, Unfreed
<1>11. RefsRight'
  BY <1>2, <1>3, <1>10, Zenon DEF RefsRight, HeldSafe, Closed, Gone, Unfreed
<1>12. QED
  BY <1>1, <1>2, <1>3, <1>6, <1>7, <1>9, <1>11, Zenon DEF FinInv

\* A finalizer that stores its object where the program sees it preserves it.
LEMMA FinalizerStoresStep ==
  ASSUME FinInv, FinalizerStores
  PROVE  FinInv'
<1>1. FinTyped /\ Walk /\ ~twice
  BY Zenon DEF FinInv
<1>2. /\ sweeper.at = "finalizer"
      /\ UNCHANGED <<allocs, count, final, inherited, ref, marks, freed, twice, sweeper, off>>
  BY Zenon DEF FinalizerStores, Finalizing
<1>3. PICK o \in {This, ref[This]} \ {0} : held' = held \cup {o} /\ escaped' = escaped \cup {o}
  BY Zenon DEF FinalizerStores
<1>4. sweeper # AtRest /\ sweeper.i <= Len(List) /\ This \notin marks
  BY <1>1, <1>2 DEF AtRest, Walk
<1>5. ~off /\ ListsRight /\ RefsRight
  BY <1>1, <1>4, WalkFacts, Zenon DEF FinInv
<1>6. o \in 1 .. count
  <2>1. This \in Unfreed /\ This \in Id
    BY <1>1, <1>4, <1>5, ThisIsNotSafe, WalkFacts, Zenon
  <2>2. ref[This] \in 0 .. count
    BY <1>1, <2>1, Zenon DEF FinTyped
  <2>3. QED
    BY <1>3, <2>1, <2>2 DEF Unfreed
<1>7. FinTyped'
  BY <1>1, <1>2, <1>3, <1>6, Zenon DEF FinTyped
<1>8. Walk'
  BY <1>1, <1>2, Zenon DEF Walk, List, This
<1>9. ListsRight'
  BY <1>2, <1>5, Zenon DEF ListsRight, Sides, Sorted, NotFreed, Listed, Unmarked, Unfreed
<1>10. Safe' = Safe /\ Unfreed' = Unfreed
  BY <1>2, Zenon DEF Safe, Unfreed
<1>11. HeldSafe' /\ Closed'
  BY <1>2, <1>3, <1>5, <1>10, Zenon DEF RefsRight, HeldSafe, Closed
<1>12. Gone'
  BY <1>2, <1>3, <1>5, <1>10, Zenon DEF RefsRight, Gone
<1>13. QED
  BY <1>1, <1>2, <1>5, <1>7, <1>8, <1>9, <1>11, <1>12, Zenon DEF FinInv, RefsRight

\* What is safe shields all that the program reaches.
LEMMA SafeShields ==
  ASSUME HeldSafe, Closed
  PROVE  Shielded
<1>1. Safe \in SUBSET Unfreed
  BY Zenon DEF Safe
<1>2. QED
  BY <1>1, Zenon DEF HeldSafe, Closed, Shielded

\* A finalizer that throws out of the sweep preserves it.
LEMMA FinalizerThrowsStep ==
  ASSUME FinInv, FinalizerThrows
  PROVE  FinInv'
<1>1. FinTyped /\ Walk /\ ~twice
  BY Zenon DEF FinInv
<1>2. /\ sweeper.at = "finalizer" /\ sweeper' = AtRest /\ off' = TRUE
      /\ UNCHANGED <<allocs, count, final, inherited, ref, held, marks, freed, twice, escaped>>
  BY Zenon DEF FinalizerThrows, Finalizing, objVars
<1>3. ~off /\ RefsRight
  BY <1>1, <1>2, WalkFacts DEF FinInv, AtRest
<1>4. Shielded'
  BY <1>2, <1>3, SafeShields, Zenon DEF RefsRight, Shielded, Unfreed
<1>5. FinTyped' /\ Walk'
  BY <1>1, <1>2, Zenon DEF FinTyped, Walk, AtRest
<1>6. QED
  BY <1>1, <1>2, <1>4, <1>5, Zenon DEF FinInv

-----------------------------------------------------------------------------
(* The invariant, and what follows *)

\* The invariant holds at the start, with empty lists.
LEMMA FinInvInit == FinalizersInit => FinInv
<1> SUFFICES ASSUME FinalizersInit PROVE FinInv
  OBVIOUS
<1>1. \A l \in Lists : allocs[l] = <<>> /\ Len(allocs[l]) = 0
  BY Zenon DEF FinalizersInit, Lists
<1>2. /\ count = 0 /\ final = {} /\ held = {} /\ inherited = {} /\ marks = {} /\ freed = {}
      /\ twice = FALSE /\ sweeper = AtRest /\ off = FALSE /\ escaped = {}
      /\ ref = [o \in Id |-> 0] /\ allocs = [l \in Lists |-> <<>>]
  BY Zenon DEF FinalizersInit, Lists
<1>3. FinTyped
  <2>1. allocs \in [Lists -> Seq(Id)]
    BY <1>2
  <2>2. count \in 0 .. MaxAllocs /\ ref \in [Id -> 0 .. count] /\ \A o \in Id : ref[o] = 0
    BY <1>2, AllocsAssumption
  <2>3. QED
    BY <1>2, <2>1, <2>2, Zenon DEF FinTyped
<1>4. Walk
  BY <1>2, Zenon DEF Walk, AtRest
<1>5. Unfreed = {} /\ Safe = {}
  BY <1>2 DEF Unfreed, Safe
<1>6. ListsRight /\ RefsRight
  BY <1>1, <1>2, <1>5 DEF ListsRight, Sides, Sorted, NotFreed, Listed, Unmarked, RefsRight, HeldSafe, Closed, Gone
<1>7. QED
  BY <1>2, <1>3, <1>4, <1>6, Zenon DEF FinInv

\* Every step preserves the invariant.
LEMMA FinInvStep == FinInv /\ [FinalizersNext]_finalizerVars => FinInv'
<1> SUFFICES ASSUME FinInv, [FinalizersNext]_finalizerVars PROVE FinInv'
  OBVIOUS
<1>1. ASSUME NEW f \in BOOLEAN, FinalizerAllocates(f) PROVE FinInv'
  BY <1>1, FinalizerAllocatesStep, Zenon
<1>2. ASSUME NEW f \in BOOLEAN, NEW l \in {"own", "dead"}, Allocate(l, f) PROVE FinInv'
  BY <1>2, AllocateStep, Zenon DEF Lists
<1>3. ASSUME NEW o \in held, NEW v \in held \cup {0}, AssignMember(o, v) PROVE FinInv'
  BY <1>3, AssignStep, Zenon
<1>4. ASSUME NEW H \in SUBSET held, BeginSweep(H) PROVE FinInv'
  BY <1>4, BeginSweepStep, Zenon
<1>5. CASE SweepKeep
  BY <1>5, KeepStep, Zenon
<1>6. CASE SweepFree
  BY <1>6, FreeStep, Zenon DEF SweepFree, AtTest
<1>7. CASE CallFinalizer
  BY <1>7, CallFinalizerStep, Zenon
<1>8. CASE SweepEnd
  BY <1>8, EndStep, Zenon
<1>9. CASE FinalizerStores
  BY <1>9, FinalizerStoresStep, Zenon
<1>10. CASE FinalizerReturns
  <2>1. Walk /\ sweeper.at = "finalizer" /\ Free
    BY <1>10, Zenon DEF FinInv, FinalizerReturns, Finalizing
  <2>2. sweeper # AtRest /\ sweeper.i <= Len(List) /\ This \notin marks
    BY <2>1 DEF Walk, AtRest
  <2>3. QED
    BY <2>1, <2>2, FreeStep, Zenon
<1>11. CASE FinalizerThrows
  BY <1>11, FinalizerThrowsStep, Zenon
<1>12. CASE UNCHANGED finalizerVars
  <2>1. UNCHANGED <<allocs, count, final, inherited, ref, held, marks, freed, twice, sweeper, off, escaped>>
    BY <1>12, Zenon DEF finalizerVars, objVars
  <2>2. FinTyped' = FinTyped /\ Walk' = Walk /\ Safe' = Safe /\ Unfreed' = Unfreed
    BY <2>1, Zenon DEF FinTyped, Walk, List, This, Safe, Unfreed
  <2>3. ListsRight' = ListsRight
    BY <2>1, <2>2, Zenon DEF ListsRight, Sides, Sorted, NotFreed, Listed, Unmarked
  <2>4. RefsRight' = RefsRight /\ Shielded' = Shielded
    BY <2>1, <2>2, Zenon DEF RefsRight, HeldSafe, Closed, Gone, Shielded
  <2>5. QED
    BY <2>1, <2>2, <2>3, <2>4, Zenon DEF FinInv
<1>13. QED
  BY <1>1, <1>2, <1>3, <1>4, <1>5, <1>6, <1>7, <1>8, <1>9, <1>10, <1>11, <1>12, Zenon
     DEF FinalizersNext

\* The invariant holds in every reachable state.
LEMMA FinInvHolds == FinalizersSpec => []FinInv
BY FinInvInit, FinInvStep, PTL DEF FinalizersSpec

\* The sweep frees nothing twice, and the compaction loses, repeats and
\* reorders nothing, with any finalizers and any number of sweeps.
THEOREM SurvivorsAreListed == FinalizersSpec => []SurvivorsListed
<1>1. FinInv => SurvivorsListed
  <2> SUFFICES ASSUME FinInv, sweeper = AtRest, ~off
               PROVE  /\ Range(allocs["own"]) \cup Range(allocs["dead"]) = (1 .. count) \ freed
                      /\ Range(allocs["own"]) \cap Range(allocs["dead"]) = {}
                      /\ \A l \in {"own", "dead"} : \A i, j \in DOMAIN allocs[l] :
                           i < j => allocs[l][i] < allocs[l][j]
    BY Zenon DEF SurvivorsListed, FinInv
  <2>1. \A l \in Lists : DOMAIN allocs[l] = 1 .. Len(allocs[l])
    BY DEF FinInv, FinTyped
  <2>2. \A l \in Lists : \A k \in 1 .. Len(allocs[l]) : Pos(sweeper, l, k)
    BY Zenon DEF Pos, AtRest, Lists
  <2>3. \A l \in Lists : \A x : x \in Range(allocs[l]) <=> \E k \in 1 .. Len(allocs[l]) : allocs[l][k] = x
    BY <2>1, Zenon DEF Range
  <2>4. \A x : x \in Range(allocs["own"]) \/ x \in Range(allocs["dead"]) <=> x \in Unfreed
    <3>1. ASSUME NEW x, NEW l \in Lists, x \in Range(allocs[l]) PROVE x \in Unfreed
      BY <2>2, <2>3, <3>1 DEF FinInv, ListsRight, Sides, NotFreed, Unfreed
    <3>2. ASSUME NEW x \in Unfreed PROVE \E l \in Lists : x \in Range(allocs[l])
      BY <2>3, Zenon DEF FinInv, ListsRight, Listed
    <3>3. QED
      BY <3>1, <3>2, Zenon DEF Lists
  <2>5. \A x : ~(x \in Range(allocs["own"]) /\ x \in Range(allocs["dead"]))
    BY <2>3 DEF FinInv, ListsRight, Sides, Lists
  <2>6. \A l \in {"own", "dead"} : \A i, j \in DOMAIN allocs[l] : i < j => allocs[l][i] < allocs[l][j]
    BY <2>1, <2>2, Zenon DEF FinInv, ListsRight, Sorted, Lists
  <2>7. QED
    BY <2>4, <2>5, <2>6, Zenon DEF Unfreed
<1>2. QED
  BY <1>1, FinInvHolds, PTL

\* Nothing the program can reach is freed, except through what a finalizer
\* stored.
THEOREM FinalizersFreeNothingLive == FinalizersSpec => []FinalizersKeepLive
<1>1. FinInv => FinalizersKeepLive
  <2> SUFFICES ASSUME FinInv PROVE FinalizersKeepLive
    OBVIOUS
  <2>1. Shielded
    BY SafeShields, Zenon DEF FinInv, RefsRight
  <2>2. PICK K \in SUBSET Unfreed :
          held \ escaped \subseteq K /\ \A x \in K \ escaped : ref[x] \in K \cup escaped \cup {0}
    BY <2>1, Zenon DEF Shielded
  <2>3. K \cup escaped \in SUBSET Id
    BY AllocsAssumption DEF FinInv, FinTyped, Unfreed, Id
  <2>4. held \ escaped \subseteq K \cup escaped
    BY <2>2, Zenon
  <2>5. \A x \in (K \cup escaped) \ escaped : ref[x] \in (K \cup escaped) \cup {0}
    BY <2>2, Zenon
  <2>6. ReachedFrom(held \ escaped, escaped) \subseteq K \cup escaped
    BY <2>3, <2>4, <2>5, ReachedWithin, Zenon
  <2>7. QED
    BY <2>2, <2>6, Zenon DEF FinalizersKeepLive, Unfreed
<1>2. QED
  BY <1>1, FinInvHolds, PTL

\* A finalizer can use what its object allocated in init, as the __free__ of
\* Mutex, CondVar and Note does.
THEOREM MembersOutliveFinalizers == FinalizersSpec => []MemberOutlivesFinalizer
<1>1. FinInv => MemberOutlivesFinalizer
  <2> SUFFICES ASSUME FinInv, Finalizing, ref[This] \in freed
               PROVE  \/ ref[This] < This
                      \/ This \in inherited /\ ref[This] \notin inherited
                      \/ {This, ref[This]} \cap escaped # {}
    BY Zenon DEF MemberOutlivesFinalizer
  <2>1. FinTyped /\ Walk /\ sweeper # AtRest /\ sweeper.i <= Len(List) /\ This \notin marks
    BY DEF FinInv, Finalizing, Walk, AtRest
  <2>2. ListsRight /\ Gone
    BY <2>1, WalkFacts, Zenon DEF FinInv, RefsRight
  <2>3. This \in Unfreed
    BY <2>1, <2>2, ThisIsNotSafe, Zenon
  <2>4. QED
    BY <2>2, <2>3, Zenon DEF Gone
<1>2. QED
  BY <1>1, FinInvHolds, PTL

=============================================================================
