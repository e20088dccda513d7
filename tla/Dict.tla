-------------------------------- MODULE Dict --------------------------------
(***************************************************************************)
(* Dict (src/dict.c): an open-addressing hash table with tombstones and    *)
(* robin-hood insertion, whose occupied slots form a doubly linked list in *)
(* the order of insertion.                                                 *)
(*                                                                         *)
(* A method without a callback is one step.  The methods that call back    *)
(* into the program (a default, getOrPutWith, keep!, and update, intersect *)
(* and subtract with a function) are a step before and a step after each   *)
(* call; in between the program may change the same dict.                  *)
(***************************************************************************)
EXTENDS OrderedMap, FiniteSets, Functions

CONSTANTS Keys,
          Given,        \* the values that the program puts
          Results,      \* the values that callbacks return
          Hash,         \* value_hash
          INITIAL_SIZE, \* slots of the first table
          MaxSize,      \* bound: slots of the largest table
          MaxPairs,     \* bound: entries of the argument of update and subtract
          Callbacks     \* the methods with a callback that the program calls

Methods == {"get", "ensure", "getOrPut", "merge", "keep", "intersect", "subtract"}

\* The keys of the slots that no entry is in.
NoKey == "empty"
Tombstone == "tombstone"

ASSUME DictAssumption == /\ Keys \cap {NoKey, Tombstone} = {}
                         /\ Hash \in [Keys -> Nat]
                         /\ INITIAL_SIZE \in Nat /\ INITIAL_SIZE >= 4
                         /\ MaxSize \in Nat /\ INITIAL_SIZE <= MaxSize
                         /\ MaxPairs \in Nat
                         /\ Callbacks \subseteq Methods

VARIABLES
  dict,   \* the Dict: items (a function on the slots), last, count, tombs
  frame,  \* the method waiting for its callback
  map,    \* the ordered map the program should see
  lost    \* the first method that went on with a slot that was no longer its own,
          \* and what its callback had done

dictVars == <<dict, frame, map, lost>>

Null == -1
Zero == [k |-> NoKey, v |-> NoKey, h |-> 0, prev |-> Null, next |-> Null]

Size(d) == Cardinality(DOMAIN d.items)
EmptyTable(n) == [items |-> [i \in 0 .. n - 1 |-> Zero], last |-> Null, count |-> 0, tombs |-> 0]
Occupied(d, i) == i \in DOMAIN d.items /\ d.items[i].k \notin {NoKey, Tombstone}

\* ENSURE_INIT
Ensure(d) == IF Size(d) = 0 THEN EmptyTable(INITIAL_SIZE) ELSE d

\* find_spot: probe from the ideal slot to the first empty one; the answer is the
\* slot of the key, else the first tombstone passed, else the empty slot. Comparing
\* and hashing keys (v_eq, value_hash) changes nothing here: the __eq__ and
\* __hash__ methods a program may give its own classes do not touch the dict.
Probe(d, h, n) == (h + n) % Size(d)
FindSpot(d, k) ==
  LET h == Hash[k]
      Steps == 0 .. Size(d) - 1
      AtKey(i) == d.items[i].k
      end == CHOOSE n \in Steps : /\ AtKey(Probe(d, h, n)) = NoKey
                                  /\ \A m \in 0 .. n - 1 : AtKey(Probe(d, h, m)) # NoKey
      First(P) == {n \in 0 .. end - 1 : /\ AtKey(Probe(d, h, n)) = P
                                        /\ \A m \in 0 .. n - 1 : AtKey(Probe(d, h, m)) # P}
  IN IF Size(d) = 0 THEN Null
     ELSE Probe(d, h, CHOOSE n \in IF First(k) # {} THEN First(k)
                                   ELSE IF First(Tombstone) # {} THEN First(Tombstone)
                                   ELSE {end} : TRUE)
Has(d, k) == Occupied(d, FindSpot(d, k))

\* The slots from i along the list.
Walk(d, i, way) ==
  LET step == [j \in DOMAIN d.items \cup {Null} |-> IF j = Null THEN Null ELSE d.items[j][way]]
      w[n \in 0 .. Size(d)] == IF n = 0 THEN i ELSE step[w[n - 1]]
      len == Cardinality({n \in 0 .. Size(d) : w[n] # Null})
  IN [m \in 1 .. len |-> w[m - 1]]

\* DictFirst and dfor: back from d->last to the first entry, then along next.
Backwards(d) == Walk(d, d.last, "prev")
Slots(d) == IF d.last = Null THEN <<>>
            ELSE LET back == Backwards(d) IN Walk(d, back[Len(back)], "next")
EntryAt(d, i) == [k |-> d.items[i].k, v |-> d.items[i].v]
Entries(d) == LET slots == Slots(d) IN [n \in 1 .. Len(slots) |-> EntryAt(d, slots[n])]

\* The loops over a table visit the occupied slots in their order.
Tabled(u) ==
  LET seen[n \in 0 .. Size(u)] == IF n = 0 THEN <<>>
                                  ELSE IF Occupied(u, n - 1)
                                       THEN Append(seen[n - 1], EntryAt(u, n - 1))
                                       ELSE seen[n - 1]
  IN seen[Size(u)]

-----------------------------------------------------------------------------
(* The table                                                                *)

\* linkxd: the neighbours of the entry in slot i point back to it.
LinkNext(d, i) == LET n == d.items[i].next
                  IN IF n # Null THEN [d EXCEPT !.items[n].prev = i] ELSE [d EXCEPT !.last = i]
LinkPrev(d, i) == LET p == d.items[i].prev
                  IN IF p # Null THEN [d EXCEPT !.items[p].next = i] ELSE d
Link(d, i) == LinkPrev(LinkNext(d, i), i)

\* swap: entries that are neighbours in the list point at each other's new slot.
Moved(e, i, j) == [e EXCEPT !.next = IF @ = i THEN j ELSE @, !.prev = IF @ = i THEN j ELSE @]
Exchange(d, i, j) == [d EXCEPT !.items[i] = Moved(d.items[j], i, j),
                               !.items[j] = Moved(d.items[i], j, i)]

\* Mutant: entries that are neighbours of each other are forgotten.
SwapPlain(d, i, j) == Link(Link([d EXCEPT !.items[i] = d.items[j],
                                          !.items[j] = d.items[i]], i), j)

Swap(d, i, j) == Link(Link(Exchange(d, i, j), i), j)

\* robinhood: the new entry in slot i changes places with every entry on its way
\* that is nearer to its ideal slot.
Away(d, i) == (i + Size(d) - (d.items[i].h % Size(d))) % Size(d)
Settle(d, i, lo) == IF Away(d, i) > Away(d, lo) THEN Swap(d, lo, i) ELSE d
RobinHood(d, i) ==
  LET after[m \in 0 .. Away(d, i)] ==
        IF m = 0 THEN d ELSE Settle(after[m - 1], i, Probe(d, d.items[i].h, m - 1))
  IN after[Away(d, i)]

\* An entry for k in slot i, last in the list.
Place(d, i, k, v) ==
  LET e == [k |-> k, v |-> v, h |-> Hash[k], prev |-> d.last, next |-> Null]
      linked == IF d.last = Null THEN d ELSE [d EXCEPT !.items[d.last].next = i]
  IN [linked EXCEPT !.items[i] = e, !.last = i]

\* A table of n slots with the entries es.
Table(d, es, n) ==
  LET after[m \in 0 .. Len(es)] ==
        IF m = 0 THEN EmptyTable(n)
        ELSE Place(after[m - 1], FindSpot(after[m - 1], es[m].k), es[m].k, es[m].v)
  IN [after[Len(es)] EXCEPT !.count = d.count]

\* Mutant: the entries move in the order of the slots.
RehashTabled(d, n) == Table(d, Tabled(d), n)

\* rehash: the entries move in the order of the list.
Rehash(d, n) == Table(d, Entries(d), n)

\* Mutant: tombstones are not counted.
ShouldRehashLive(d) == 4 * d.count >= 3 * Size(d)

ShouldRehash(d) == 4 * (d.count + d.tombs) >= 3 * Size(d)

Grown(d) == IF ShouldRehash(d) THEN Rehash(d, 2 * Size(d)) ELSE d

\* put: the key is not there; at is its slot, unless the table is replaced.
Put(e, at, k, v) ==
  LET d == Grown(Ensure(e))
      i == IF ShouldRehash(Ensure(e)) THEN FindSpot(d, k) ELSE at
      placed == Place(d, i, k, v)
  IN RobinHood([placed EXCEPT !.count = @ + 1,
                              !.tombs = IF d.items[i].k = Tombstone THEN @ - 1 ELSE @], i)

\* Unlink the entry and leave e in its slot.
Unlink(d, i, e) ==
  LET n == d.items[i].next
      p == d.items[i].prev
      ahead == IF n # Null THEN [d EXCEPT !.items[n].prev = p] ELSE [d EXCEPT !.last = p]
      around == IF p # Null THEN [ahead EXCEPT !.items[p].next = n] ELSE ahead
  IN [around EXCEPT !.items[i] = e, !.count = @ - 1]

\* Mutant: the slot becomes empty, so that the probes of other keys end there.
DeleteEmpty(d, i) == Unlink(d, i, Zero)

\* delete
Delete(d, i) == [Unlink(d, i, [Zero EXCEPT !.k = Tombstone]) EXCEPT !.tombs = @ + 1]

SetValue(d, i, v) == [d EXCEPT !.items[i].v = v]

\* dict_put_value
PutValue(e, k, v) == LET d == Ensure(e)
                         i == FindSpot(d, k)
                     IN IF Occupied(d, i) THEN SetValue(d, i, v) ELSE Put(d, i, k, v)

\* dict_remove
RemoveKey(d, k) == IF Has(d, k) THEN Delete(d, FindSpot(d, k)) ELSE d

\* The loops of DictUpdate and dict_subtract, over the entries m of another dict.
PutAll(d, m) ==
  LET after[i \in 0 .. Len(m)] == IF i = 0 THEN d ELSE PutValue(after[i - 1], m[i].k, m[i].v)
  IN after[Len(m)]
RemoveAll(d, m) ==
  LET after[i \in 0 .. Len(m)] == IF i = 0 THEN d ELSE RemoveKey(after[i - 1], m[i].k)
  IN after[Len(m)]

\* The loop of dict_intersect, over the slots.
Drop(d, i, K) == IF Occupied(d, i) /\ d.items[i].k \notin K THEN Delete(d, i) ELSE d
KeepKeys(d, K) ==
  LET after[n \in 0 .. Size(d)] == IF n = 0 THEN d ELSE Drop(after[n - 1], n - 1, K)
  IN after[Size(d)]

-----------------------------------------------------------------------------
(* Methods without a callback                                               *)

NoFrame == [op |-> "none", key |-> NoKey, slot |-> 0, size |-> 0, u |-> <<>>,
            call |-> FALSE, did |-> {}]
NotLost == [op |-> "none", did |-> {}]

DictInit == /\ dict = EmptyTable(0)
            /\ frame = NoFrame
            /\ map = <<>>
            /\ lost = NotLost

\* The program runs: outside of any method, or in a callback.
NoMethod == frame.op = "none"
Program == NoMethod \/ frame.call
Seen(what) == /\ frame' = IF frame.call THEN [frame EXCEPT !.did = @ \cup {what}] ELSE frame
              /\ UNCHANGED lost
Room(d) == ShouldRehash(Ensure(d)) => 2 * Size(Ensure(d)) <= MaxSize

\* The other dicts, each as the entries that a loop over its table meets.
Arguments == {Tabled(PutAll(EmptyTable(0), m)) :
                m \in UNION {[1 .. n -> [k : Keys, v : Given]] : n \in 0 .. MaxPairs}}

DictPut(k, v) == /\ Program /\ Room(dict)
                 /\ dict' = PutValue(dict, k, v)
                 /\ map' = Assign(map, [k |-> k, v |-> v])
                 /\ IF Has(dict, k) THEN UNCHANGED <<frame, lost>> ELSE Seen("add")

DictRemove(k) == /\ Program /\ Has(dict, k)
                 /\ dict' = RemoveKey(dict, k)
                 /\ map' = Except(map, {k})
                 /\ Seen("remove")

\* dict_pop: the i-th entry, reached from the nearer end.
DictPop(i) == /\ Program /\ i \in 0 .. dict.count - 1
              /\ dict' = Delete(dict, IF i < dict.count \div 2 THEN Slots(dict)[i + 1]
                                      ELSE Backwards(dict)[dict.count - i])
              /\ map' = [j \in 1 .. Len(map) - 1 |-> IF j <= i THEN map[j] ELSE map[j + 1]]
              /\ Seen("remove")

DictClear == /\ Program
             /\ dict' = EmptyTable(Size(dict))
             /\ map' = <<>>
             /\ Seen("remove")

\* DictUpdate, dict_subtract and dict_intersect with one argument.
DictUpdate(m) == /\ NoMethod
                 /\ dict' = PutAll(dict, m)
                 /\ Size(dict') <= MaxSize
                 /\ map' = AssignAll(map, m)
                 /\ UNCHANGED <<frame, lost>>

DictSubtract(m) == /\ NoMethod
                   /\ dict' = RemoveAll(dict, m)
                   /\ map' = Except(map, KeysOf(m))
                   /\ UNCHANGED <<frame, lost>>

DictIntersect(m) == /\ NoMethod
                    /\ dict' = KeepKeys(dict, KeysOf(m))
                    /\ map' = Only(map, KeysOf(m))
                    /\ UNCHANGED <<frame, lost>>

-----------------------------------------------------------------------------
(* Methods with a callback                                                  *)

\* The method calls back, remembering the slot it found.
CallBack(op, k, d) == /\ op \in Callbacks
                      /\ dict' = d
                      /\ frame' = [NoFrame EXCEPT !.op = op, !.key = k, !.slot = FindSpot(d, k),
                                                  !.size = Size(d), !.call = TRUE]
                      /\ UNCHANGED <<map, lost>>

\* dict_get_value with a default, dict_put_key_if_not_exists, dict_get_or_put_with:
\* the key is missing; dict_put_value_with: it is there.
CallDefault(op, k) == /\ NoMethod /\ op \in {"get", "ensure", "getOrPut"}
                      /\ ~ Has(dict, k)
                      /\ CallBack(op, k, Ensure(dict))
CallMerge(k) == NoMethod /\ Has(dict, k) /\ CallBack("merge", k, dict)

Returning(op) == frame.call /\ frame.op = op
Result(v) == [k |-> frame.key, v |-> v]
Done == frame' = NoFrame
Keep == UNCHANGED lost
Whole == lost = NotLost
Lose(own) == lost' = IF own \/ ~ Whole THEN lost ELSE [op |-> frame.op, did |-> frame.did]

\* dict_get_value and dict_put_key_if_not_exists look for the key again.
ReturnGet(v) == /\ Returning("get") /\ Room(dict)
                /\ dict' = PutValue(dict, frame.key, v)
                /\ map' = Assign(map, Result(v))
                /\ Done /\ Keep

ReturnEnsure(v) == /\ Returning("ensure") /\ Room(dict)
                   /\ dict' = IF Has(dict, frame.key) THEN dict ELSE PutValue(dict, frame.key, v)
                   /\ map' = IF frame.key \in KeysOf(map) THEN map ELSE Assign(map, Result(v))
                   /\ Done /\ Keep

\* Mutant: only when the table has changed.
RefindGrown == frame.size # Size(dict)

\* dict_get_or_put_with does so when the table has changed or its slot was taken.
Refind == frame.size # Size(dict) \/ Occupied(dict, frame.slot)

PutAgain(again, v) == LET i == IF again THEN FindSpot(dict, frame.key) ELSE frame.slot
                      IN /\ dict' = IF Occupied(dict, i) THEN SetValue(dict, i, v)
                                    ELSE Put(dict, i, frame.key, v)
                         /\ map' = Assign(map, Result(v))
                         /\ Lose(i = FindSpot(dict, frame.key))
ReturnGetOrPut(v) == /\ Returning("getOrPut") /\ Room(dict)
                     /\ PutAgain(Refind, v)
                     /\ Done

\* dict_put_value_with stores the result in the slot it found; when the table was
\* replaced meanwhile the compiler may have taken the address of the old one.
Own == Occupied(dict, frame.slot) /\ dict.items[frame.slot].k = frame.key
ReturnMerge(v) == /\ Returning("merge")
                  /\ dict' \in {SetValue(dict, frame.slot, v)}
                                 \cup (IF frame.size # Size(dict) THEN {dict} ELSE {})
                  /\ map' = Assign(map, Result(v))
                  /\ Lose(Own /\ frame.size = Size(dict))
                  /\ Done

\* dict_keep_mut and dict_intersect with a function go through the slots,
\* dict_subtract with a function through the entries of the other dict.
Begin(op, m) == /\ NoMethod /\ op \in Callbacks \cap {"keep", "intersect", "subtract"}
                /\ op = "keep" => m = <<>>
                /\ frame' = [NoFrame EXCEPT !.op = op, !.u = m]
                /\ UNCHANGED <<dict, map, lost>>

Scanning(ops) == frame.op \in ops /\ ~ frame.call
Common(k) == \E i \in DOMAIN frame.u : frame.u[i].k = k

\* The loop over the slots comes to slot frame.slot.
ScanSlot ==
  /\ Scanning({"keep", "intersect"})
  /\ LET i == frame.slot
         k == dict.items[i].k
     IN \/ /\ i \notin DOMAIN dict.items
           /\ Done /\ UNCHANGED <<dict, map>>
        \/ /\ i \in DOMAIN dict.items /\ ~ Occupied(dict, i)
           /\ frame' = [frame EXCEPT !.slot = i + 1] /\ UNCHANGED <<dict, map>>
        \/ /\ Occupied(dict, i) /\ frame.op = "intersect" /\ ~ Common(k)
           /\ dict' = Delete(dict, i) /\ map' = Except(map, {k}) /\ UNCHANGED frame
        \/ /\ Occupied(dict, i) /\ (frame.op = "keep" \/ Common(k))
           /\ frame' = [frame EXCEPT !.key = k, !.size = Size(dict), !.call = TRUE]
           /\ UNCHANGED <<dict, map>>
  /\ Keep

\* The loop over the other dict comes to its next entry.
ScanEntry ==
  /\ Scanning({"subtract"})
  /\ IF frame.u = <<>> THEN Done
     ELSE LET k == Head(frame.u).k
          IN frame' = IF Has(dict, k)
                      THEN [frame EXCEPT !.key = k, !.slot = FindSpot(dict, k), !.call = TRUE]
                      ELSE [frame EXCEPT !.u = Tail(@)]
  /\ Keep /\ UNCHANGED <<dict, map>>

ReturnKeep(truthy) == /\ Returning("keep")
                      /\ dict' = IF truthy THEN dict ELSE Delete(dict, frame.slot)
                      /\ map' = IF truthy THEN map ELSE Except(map, {frame.key})
                      /\ Lose(truthy \/ Own)
                      /\ frame' = [frame EXCEPT !.slot = @ + 1, !.call = FALSE, !.did = {}]

\* dict_intersect stores the result as dict_put_value_with does.
ReturnIntersect(v) == /\ Returning("intersect")
                      /\ dict' \in {SetValue(dict, frame.slot, v)}
                                     \cup (IF frame.size # Size(dict) THEN {dict} ELSE {})
                      /\ map' = Assign(map, Result(v))
                      /\ Lose(Own /\ frame.size = Size(dict))
                      /\ frame' = [frame EXCEPT !.slot = @ + 1, !.call = FALSE, !.did = {}]

ReturnSubtract == /\ Returning("subtract")
                  /\ dict' = Delete(dict, frame.slot)
                  /\ map' = Except(map, {frame.key})
                  /\ Lose(Own)
                  /\ frame' = [frame EXCEPT !.u = Tail(@), !.call = FALSE, !.did = {}]

DictNext == \/ \E k \in Keys : DictRemove(k) \/ CallMerge(k)
            \/ \E k \in Keys, v \in Given : DictPut(k, v)
            \/ \E i \in 0 .. dict.count - 1 : DictPop(i)
            \/ DictClear
            \/ \E m \in Arguments : DictUpdate(m) \/ DictSubtract(m) \/ DictIntersect(m)
            \/ \E op \in Methods, k \in Keys : CallDefault(op, k)
            \/ \E op \in Methods, m \in Arguments : Begin(op, m)
            \/ \E v \in Results : \/ ReturnGet(v) \/ ReturnEnsure(v) \/ ReturnGetOrPut(v)
                                  \/ ReturnMerge(v) \/ ReturnIntersect(v)
            \/ ScanSlot \/ ScanEntry \/ ReturnSubtract
            \/ \E truthy \in BOOLEAN : ReturnKeep(truthy)

DictSpec == DictInit /\ [][DictNext]_dictVars

-----------------------------------------------------------------------------
(* Properties                                                               *)

Filled == {i \in DOMAIN dict.items : Occupied(dict, i)}
SlotOrNull(d) == DOMAIN d.items \cup {Null}

\* The table has INITIAL_SIZE slots, doubled some number of times; links lead to slots.
DictTypeOK ==
  /\ Size(dict) \in {0} \cup {INITIAL_SIZE * 2^p : p \in 0 .. MaxSize}
  /\ Size(dict) <= MaxSize
  /\ dict.last \in SlotOrNull(dict)
  /\ {dict.count, dict.tombs} \subseteq Int
  /\ \A i \in DOMAIN dict.items : {dict.items[i].prev, dict.items[i].next} \subseteq SlotOrNull(dict)
  /\ frame.op \in Methods \cup {"none"}

\* Every probe ends, on an empty slot, although tombstones pile up and the table never
\* shrinks; find_spot has no other way to stop.
ProbesEnd == (Whole /\ Size(dict) > 0) =>
               \E i \in DOMAIN dict.items : dict.items[i].k = NoKey

\* A key that is in the table is found where it is, and only there, wherever removals
\* and robin-hood swaps have left it.
KeysAreFound == Whole => \A i \in Filled : FindSpot(dict, dict.items[i].k) = i

\* The list runs through the occupied slots, the same way in both directions, so that
\* the iterations, rehash and dict_mark, which follow it, miss nothing; and count and
\* tombs, which decide when to rehash, agree with the slots.
ListIsTable ==
  LET slots == Slots(dict)
      back == Backwards(dict)
  IN  /\ DictTypeOK
      /\ Whole => /\ Range(slots) = Filled
                  /\ Len(slots) = Cardinality(Filled)
                  /\ Len(back) = Len(slots)
                  /\ \A n \in 1 .. Len(back) : back[n] = slots[Len(slots) - n + 1]
                  /\ dict.count = Cardinality(Filled)
                  /\ dict.tombs = Cardinality({i \in DOMAIN dict.items : dict.items[i].k = Tombstone})

\* A method goes on with a slot that is not its own only when its callback changed the
\* dict, and getOrPutWith only when the callback removed a key; a default never does.
CallbacksThatLose ==
  ~ Whole => /\ lost.op \notin {"get", "ensure"}
             /\ lost.did # {}
             /\ lost.op = "getOrPut" => "remove" \in lost.did

\* A Dict is an ordered map: what an iteration sees after any sequence of methods is
\* what the same methods make of a sequence of entries; nothing is lost, duplicated or
\* reordered by a rehash, a robin-hood swap or a removal.
IsOrderedMap == Whole => Entries(dict) = map

=============================================================================
