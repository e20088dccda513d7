------------------------------ MODULE QueueOps ------------------------------
(***************************************************************************)
(* The ring buffer under Queue and SharedQueue (include/queue.h).  A ring  *)
(* is a record: items is the array (a function on 0..cap-1), head the slot *)
(* of the first element, tail the slot after the last one.  The code's     *)
(* usize arithmetic wraps at 2^64, but every expression adds cap before it *)
(* takes the remainder, so the integers below never go negative under %.   *)
(***************************************************************************)
EXTENDS Integers, Sequences

CONSTANTS Value,        \* what a queue can hold
          InitialCap,   \* QUEUE_INITIAL_CAP (8 in the source)
          Junk          \* the content of a slot nobody has written

\* With an initial capacity of 1 the first push would fill the ring, and a
\* full ring is indistinguishable from an empty one.
ASSUME QueueAssumption == /\ InitialCap \in Nat
                          /\ InitialCap >= 2
                          /\ Junk \notin Value

-----------------------------------------------------------------------------
\* queue_new: a zeroed object, no array yet.
QueueNew == [items |-> [i \in {} |-> Junk], head |-> 0, tail |-> 0, cap |-> 0]

\* _queue_count
QueueCount(q) ==
  IF q.cap = 0 THEN 0 ELSE (q.tail - q.head + q.cap) % q.cap

\* The slot of the i-th element, counting from 0.
Slot(q, i) == (q.head + i) % q.cap

\* The slot before slot i: (i - 1 + cap) % cap.
SlotBefore(q, i) == (i - 1 + q.cap) % q.cap

\* Mutant: the copy starts at the first slot of the array instead of at head.
QueueGrowFromSlot0(q) ==
  LET n      == QueueCount(q)
      newCap == IF q.cap = 0 THEN InitialCap ELSE q.cap * 2
  IN [items |-> [i \in 0 .. newCap - 1 |-> IF i < n THEN q.items[i] ELSE Junk],
      head  |-> 0,
      tail  |-> n,
      cap   |-> newCap]

\* _queue_grow: copy the elements to the front of a larger array.
QueueGrow(q) ==
  LET n      == QueueCount(q)
      newCap == IF q.cap = 0 THEN InitialCap ELSE q.cap * 2
  IN [items |-> [i \in 0 .. newCap - 1 |->
                   IF i < n THEN q.items[Slot(q, i)] ELSE Junk],
      head  |-> 0,
      tail  |-> n,
      cap   |-> newCap]

\* _queue_push_back_one: make room if the ring is full, then store.
FullAtBack(q) == q.cap = 0 \/ (q.tail + 1) % q.cap = q.head
StoreBack(q, v) == [items |-> [q.items EXCEPT ![q.tail] = v],
                    head  |-> q.head,
                    tail  |-> (q.tail + 1) % q.cap,
                    cap   |-> q.cap]
PushBackOne(q, v) ==
  StoreBack(IF FullAtBack(q) THEN QueueGrow(q) ELSE q, v)

\* _queue_push_front_one
FullAtFront(q) == q.cap = 0 \/ SlotBefore(q, q.head) = q.tail
StoreFront(q, v) == [items |-> [q.items EXCEPT ![SlotBefore(q, q.head)] = v],
                     head  |-> SlotBefore(q, q.head),
                     tail  |-> q.tail,
                     cap   |-> q.cap]
PushFrontOne(q, v) ==
  StoreFront(IF FullAtFront(q) THEN QueueGrow(q) ELSE q, v)

\* Mutant: the head does not wrap around.
PopFrontNoWrap(q) == [q EXCEPT !.head = q.head + 1]

\* The removal at either end, as queue_pop and queue_pop_back do it.
PopFront(q) == [q EXCEPT !.head = (q.head + 1) % q.cap]
PopBack(q)  == [q EXCEPT !.tail = SlotBefore(q, q.tail)]

Front(q) == q.items[q.head]
Back(q)  == q.items[SlotBefore(q, q.tail)]

\* queue_clear: the array is kept.
QueueClear(q) == [items |-> q.items, head |-> 0, tail |-> 0, cap |-> q.cap]

\* The elements in order, as the loops of queue_mark and queue_to_array
\* visit them.
Elements(q) == [i \in 1 .. QueueCount(q) |-> q.items[Slot(q, i - 1)]]

-----------------------------------------------------------------------------
\* The rings the operations can build.  head = tail means empty, so at least
\* one slot of an array stays free.
IsRing(q) ==
  /\ q = [items |-> q.items, head |-> q.head, tail |-> q.tail, cap |-> q.cap]
  /\ q.cap \in Nat /\ q.head \in Nat /\ q.tail \in Nat
  /\ q.items \in [0 .. q.cap - 1 -> Value \cup {Junk}]
  /\ IF q.cap = 0 THEN q.head = 0 /\ q.tail = 0
                  ELSE q.cap >= 2 /\ q.head < q.cap /\ q.tail < q.cap
  /\ \A i \in 0 .. QueueCount(q) - 1 : q.items[Slot(q, i)] \in Value
=============================================================================
