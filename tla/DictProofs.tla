---------------------------- MODULE DictProofs ------------------------------
(***************************************************************************)
(* A Dict is an ordered map, for every set of keys and values, every hash, *)
(* every initial size of at least four slots and every bound.              *)
(*                                                                         *)
(* DictInv: as long as every method has gone on with its own slot, the dict*)
(* holds the entries of the ordered map, and what a method that waits for  *)
(* its callback has remembered still says what the method needs, or the    *)
(* callback has changed the dict.                                          *)
(***************************************************************************)
EXTENDS DictTableProofs

\* Zenon proves every step that does not name another prover.
USE Zenon

-----------------------------------------------------------------------------
(* Methods that wait for a callback *)

Frames == [op : Methods \cup {"none"}, key : Keys \cup {NoKey}, slot : Int, size : Nat,
           u : Seq(Pair), call : BOOLEAN, did : SUBSET {"add", "remove"}]

\* Slot f.slot has the entry of key f.key.
Owns(d, f) == Occupied(d, f.slot) /\ d.items[f.slot].k = f.key

\* getOrPutWith: as long as the callback has removed nothing and the table is the same,
\* the slot is where its key would go, or it was taken.
Finds(d, f, m) ==
  /\ f.size # 0 /\ f.size <= Size(d)
  /\ "remove" \notin f.did /\ f.size = Size(d) /\ f.slot \notin Full(d) =>
       f.key \notin KeysOf(m) /\ Vacant(d, Size(d), f.key, f.slot)

\* What a method can rely on when its callback returns.
Waits(d, f, m) ==
  /\ f.op \in Methods /\ f.key \in Keys
  /\ f.op = "subtract" => f.u # <<>>
  /\ f.did = {} /\ f.op \in {"merge", "keep", "intersect", "subtract"} => Owns(d, f)
  /\ f.did = {} /\ f.op \in {"merge", "intersect"} => f.size = Size(d)
  /\ f.op = "getOrPut" => Finds(d, f, m)

FrameOK(d, f, m) == f \in Frames /\ IF f.call THEN Waits(d, f, m) ELSE f.did = {}

\* The Dict and the ordered map agree; no method has gone on with a slot not its own.
Good(d, f, m) == IsDict(d, m) /\ Size(d) <= MaxSize /\ FrameOK(d, f, m)

Idle(f) == f \in Frames /\ ~ f.call /\ f.did = {}

\* A frame between callbacks relies on nothing.
LEMMA IdleGood ==
  ASSUME NEW d, NEW f, NEW m, IsDict(d, m), Size(d) <= MaxSize, Idle(f)
  PROVE  Good(d, f, m)
BY DEF Good, FrameOK, Idle

AFrame(op, key, slot, size, u, call, did) ==
  [op |-> op, key |-> key, slot |-> slot, size |-> size, u |-> u, call |-> call, did |-> did]

\* The fields of a frame.
LEMMA FrameFields ==
  ASSUME NEW f \in Frames
  PROVE  /\ f.op \in Methods \cup {"none"} /\ f.key \in Keys \cup {NoKey} /\ f.slot \in Int
         /\ f.size \in Nat /\ f.u \in Seq(Pair) /\ f.call \in BOOLEAN
         /\ f.did \in SUBSET {"add", "remove"}
BY SMT DEF Frames

\* A frame from its fields.
LEMMA FrameOf ==
  ASSUME NEW op \in Methods \cup {"none"}, NEW key \in Keys \cup {NoKey}, NEW slot \in Int,
         NEW size \in Nat, NEW u \in Seq(Pair), NEW call \in BOOLEAN,
         NEW did \in SUBSET {"add", "remove"}
  PROVE  AFrame(op, key, slot, size, u, call, did) \in Frames
BY SMT DEF Frames, AFrame

\* A frame is its fields.
LEMMA FrameIs ==
  ASSUME NEW f \in Frames
  PROVE  f = AFrame(f.op, f.key, f.slot, f.size, f.u, f.call, f.did)
BY SMT DEF Frames, AFrame

\* A frame with other fields.
LEMMA WithSlot ==
  ASSUME NEW f \in Frames, NEW a
  PROVE  [f EXCEPT !.slot = a] = AFrame(f.op, f.key, a, f.size, f.u, f.call, f.did)
BY SMT DEF Frames, AFrame

\* Only the rest of the argument changes.
LEMMA WithU ==
  ASSUME NEW f \in Frames, NEW a
  PROVE  [f EXCEPT !.u = a] = AFrame(f.op, f.key, f.slot, f.size, a, f.call, f.did)
BY SMT DEF Frames, AFrame

\* Only what the callback did changes.
LEMMA WithDid ==
  ASSUME NEW f \in Frames, NEW a
  PROVE  [f EXCEPT !.did = a] = AFrame(f.op, f.key, f.slot, f.size, f.u, f.call, a)
BY SMT DEF Frames, AFrame

\* A callback for a key begins.
LEMMA WithKey ==
  ASSUME NEW f \in Frames, NEW a, NEW b, NEW n
  PROVE  [f EXCEPT !.key = a, !.size = n, !.call = b] = AFrame(f.op, a, f.slot, n, f.u, b, f.did)
<1>1. PICK o, k, s, z, u, l, x : /\ f = AFrame(o, k, s, z, u, l, x) /\ o = f.op /\ k = f.key /\ s = f.slot
                                    /\ z = f.size /\ u = f.u /\ l = f.call /\ x = f.did
  BY FrameIs
<1>2. [AFrame(o, k, s, z, u, l, x) EXCEPT !.key = a] = AFrame(o, a, s, z, u, l, x)
  BY SMT DEF AFrame
<1>3. [AFrame(o, a, s, z, u, l, x) EXCEPT !.size = n] = AFrame(o, a, s, n, u, l, x)
  BY SMT DEF AFrame
<1>4. [AFrame(o, a, s, n, u, l, x) EXCEPT !.call = b] = AFrame(o, a, s, n, u, b, x)
  BY SMT DEF AFrame
<1>5. [f EXCEPT !.key = a, !.size = n, !.call = b] = [[[f EXCEPT !.key = a] EXCEPT !.size = n] EXCEPT !.call = b]
  OBVIOUS
<1> QED
  BY <1>1, <1>2, <1>3, <1>4, <1>5

\* A callback for a key in its slot begins.
LEMMA WithKeySlot ==
  ASSUME NEW f \in Frames, NEW a, NEW b, NEW c
  PROVE  [f EXCEPT !.key = a, !.slot = c, !.call = b] = AFrame(f.op, a, c, f.size, f.u, b, f.did)
<1>1. PICK o, k, s, z, u, l, x : /\ f = AFrame(o, k, s, z, u, l, x) /\ o = f.op /\ k = f.key /\ s = f.slot
                                    /\ z = f.size /\ u = f.u /\ l = f.call /\ x = f.did
  BY FrameIs
<1>2. [AFrame(o, k, s, z, u, l, x) EXCEPT !.key = a] = AFrame(o, a, s, z, u, l, x)
  BY SMT DEF AFrame
<1>3. [AFrame(o, a, s, z, u, l, x) EXCEPT !.slot = c] = AFrame(o, a, c, z, u, l, x)
  BY SMT DEF AFrame
<1>4. [AFrame(o, a, c, z, u, l, x) EXCEPT !.call = b] = AFrame(o, a, c, z, u, b, x)
  BY SMT DEF AFrame
<1>5. [f EXCEPT !.key = a, !.slot = c, !.call = b] = [[[f EXCEPT !.key = a] EXCEPT !.slot = c] EXCEPT !.call = b]
  OBVIOUS
<1> QED
  BY <1>1, <1>2, <1>3, <1>4, <1>5

\* The frames between callbacks.
LEMMA IdleOf ==
  ASSUME NEW op \in Methods \cup {"none"}, NEW key \in Keys \cup {NoKey}, NEW slot \in Int,
         NEW size \in Nat, NEW u \in Seq(Pair), NEW call, NEW did, call = FALSE, did = {}
  PROVE  Idle(AFrame(op, key, slot, size, u, call, did))
<1> DEFINE g == AFrame(op, key, slot, size, u, call, did)
<1>1. call \in BOOLEAN /\ did \in SUBSET {"add", "remove"}
  OBVIOUS
<1>2. g \in Frames
  BY <1>1, FrameOf
<1>3. g.call = call /\ g.did = did
  BY DEF AFrame
<1> HIDE DEF g
<1>4. Idle(g)
  BY <1>2, <1>3 DEF Idle
<1> QED
  BY <1>4 DEF g

\* A method that has just begun.
LEMMA BegunIdle ==
  ASSUME NEW op \in Methods \cup {"none"}, NEW m \in Seq(Pair)
  PROVE  Idle(AFrame(op, NoKey, 0, 0, m, FALSE, {}))
<1>1. NoKey \in Keys \cup {NoKey} /\ 0 \in Int /\ 0 \in Nat
  BY SMT
<1> QED
  BY <1>1, IdleOf

\* No method.
LEMMA NoFrameIdle == NoFrame = AFrame("none", NoKey, 0, 0, <<>>, FALSE, {}) /\ Idle(NoFrame)
<1>1. NoFrame = AFrame("none", NoKey, 0, 0, <<>>, FALSE, {})
  BY DEF NoFrame, AFrame
<1>2. <<>> \in Seq(Pair) /\ "none" \in Methods \cup {"none"}
  BY SMT
<1>3. Idle(AFrame("none", NoKey, 0, 0, <<>>, FALSE, {}))
  BY <1>2, BegunIdle
<1> QED
  BY <1>1, <1>3

\* After a callback, or between two.
LEMMA NextIdle ==
  ASSUME NEW f \in Frames
  PROVE  /\ Idle([f EXCEPT !.slot = @ + 1, !.call = FALSE, !.did = {}])
         /\ f.u # <<>> => Idle([f EXCEPT !.u = Tail(@), !.call = FALSE, !.did = {}])
         /\ Idle(f) => Idle([f EXCEPT !.slot = f.slot + 1])
         /\ Idle(f) /\ f.u # <<>> => Idle([f EXCEPT !.u = Tail(@)])
<1> /\ f.op \in Methods \cup {"none"} /\ f.key \in Keys \cup {NoKey} /\ f.slot \in Int
    /\ f.size \in Nat /\ f.u \in Seq(Pair) /\ f.call \in BOOLEAN
  BY FrameFields
<1>2. f.slot + 1 \in Int
  BY SMT
<1>3. f.u # <<>> => Tail(f.u) \in Seq(Pair)
  BY SMT
<1>4. Idle([f EXCEPT !.slot = @ + 1, !.call = FALSE, !.did = {}])
  <2>1. [f EXCEPT !.slot = f.slot + 1, !.call = FALSE, !.did = {}]
          = AFrame(f.op, f.key, f.slot + 1, f.size, f.u, FALSE, {})
    <3>1. PICK a, b, c : a = f.slot + 1 /\ b = FALSE /\ c = {}
      OBVIOUS
    <3>2. [f EXCEPT !.slot = a, !.call = b, !.did = c] = AFrame(f.op, f.key, a, f.size, f.u, b, c)
      <4>1. PICK o, k, s, z, u, l, x : /\ f = AFrame(o, k, s, z, u, l, x) /\ o = f.op /\ k = f.key /\ s = f.slot
                                          /\ z = f.size /\ u = f.u /\ l = f.call /\ x = f.did
        BY FrameIs
      <4>2. [AFrame(o, k, s, z, u, l, x) EXCEPT !.slot = a] = AFrame(o, k, a, z, u, l, x)
        BY SMT DEF AFrame
      <4>3. [AFrame(o, k, a, z, u, l, x) EXCEPT !.call = b] = AFrame(o, k, a, z, u, b, x)
        BY SMT DEF AFrame
      <4>4. [AFrame(o, k, a, z, u, b, x) EXCEPT !.did = c] = AFrame(o, k, a, z, u, b, c)
        BY SMT DEF AFrame
      <4>5. [f EXCEPT !.slot = a, !.call = b, !.did = c] = [[[f EXCEPT !.slot = a] EXCEPT !.call = b] EXCEPT !.did = c]
        OBVIOUS
      <4> QED
        BY <4>1, <4>2, <4>3, <4>4, <4>5
    <3> QED
      BY <3>1, <3>2
  <2>2. Idle(AFrame(f.op, f.key, f.slot + 1, f.size, f.u, FALSE, {}))
    BY <1>2, IdleOf
  <2> QED
    BY <2>1, <2>2
<1>5. ASSUME f.u # <<>>
      PROVE  Idle([f EXCEPT !.u = Tail(@), !.call = FALSE, !.did = {}])
  <2>1. [f EXCEPT !.u = Tail(f.u), !.call = FALSE, !.did = {}]
          = AFrame(f.op, f.key, f.slot, f.size, Tail(f.u), FALSE, {})
    <3>1. PICK a, b, c : a = Tail(f.u) /\ b = FALSE /\ c = {}
      OBVIOUS
    <3>2. [f EXCEPT !.u = a, !.call = b, !.did = c] = AFrame(f.op, f.key, f.slot, f.size, a, b, c)
      <4>1. PICK o, k, s, z, u, l, x : /\ f = AFrame(o, k, s, z, u, l, x) /\ o = f.op /\ k = f.key /\ s = f.slot
                                          /\ z = f.size /\ u = f.u /\ l = f.call /\ x = f.did
        BY FrameIs
      <4>2. [AFrame(o, k, s, z, u, l, x) EXCEPT !.u = a] = AFrame(o, k, s, z, a, l, x)
        BY SMT DEF AFrame
      <4>3. [AFrame(o, k, s, z, a, l, x) EXCEPT !.call = b] = AFrame(o, k, s, z, a, b, x)
        BY SMT DEF AFrame
      <4>4. [AFrame(o, k, s, z, a, b, x) EXCEPT !.did = c] = AFrame(o, k, s, z, a, b, c)
        BY SMT DEF AFrame
      <4>5. [f EXCEPT !.u = a, !.call = b, !.did = c] = [[[f EXCEPT !.u = a] EXCEPT !.call = b] EXCEPT !.did = c]
        OBVIOUS
      <4> QED
        BY <4>1, <4>2, <4>3, <4>4, <4>5
    <3> QED
      BY <3>1, <3>2
  <2>2. Tail(f.u) \in Seq(Pair)
    BY <1>3, <1>5
  <2>3. Idle(AFrame(f.op, f.key, f.slot, f.size, Tail(f.u), FALSE, {}))
    BY <2>2, IdleOf
  <2> QED
    BY <2>1, <2>3
<1> ASSUME Idle(f)
    PROVE  f.call = FALSE /\ f.did = {}
  BY DEF Idle
<1>7. ASSUME Idle(f)
      PROVE  Idle([f EXCEPT !.slot = f.slot + 1])
  <2>1. [f EXCEPT !.slot = f.slot + 1] = AFrame(f.op, f.key, f.slot + 1, f.size, f.u, f.call, f.did)
    BY WithSlot
  <2>2. Idle(AFrame(f.op, f.key, f.slot + 1, f.size, f.u, f.call, f.did))
    BY <1>2, <1>7, IdleOf
  <2> QED
    BY <2>1, <2>2
<1> ASSUME Idle(f), f.u # <<>>
    PROVE  Idle([f EXCEPT !.u = Tail(@)])
  <2>1. [f EXCEPT !.u = Tail(f.u)] = AFrame(f.op, f.key, f.slot, f.size, Tail(f.u), f.call, f.did)
    BY WithU
  <2>2. Tail(f.u) \in Seq(Pair)
    BY <1>3
  <2>3. Idle(AFrame(f.op, f.key, f.slot, f.size, Tail(f.u), f.call, f.did))
    BY <2>2, IdleOf
  <2> QED
    BY <2>1, <2>3
<1> QED
  BY <1>4, <1>5, <1>7

\* The callback did something.
IsNoted(f, g, what) ==
  /\ g \in Frames /\ g.op = f.op /\ g.key = f.key /\ g.slot = f.slot /\ g.size = f.size /\ g.u = f.u
  /\ g.call = f.call /\ g.did = f.did \cup {what} /\ g.did # {}

\* What a callback does is noted in the frame, and nothing else changes there.
LEMMA Noted ==
  ASSUME NEW f \in Frames, NEW what \in {"add", "remove"}, NEW g, g = [f EXCEPT !.did = @ \cup {what}]
  PROVE  IsNoted(f, g, what)
<1>1. /\ f.op \in Methods \cup {"none"} /\ f.key \in Keys \cup {NoKey} /\ f.slot \in Int
      /\ f.size \in Nat /\ f.u \in Seq(Pair) /\ f.call \in BOOLEAN /\ f.did \in SUBSET {"add", "remove"}
  BY FrameFields
<1>2. g = AFrame(f.op, f.key, f.slot, f.size, f.u, f.call, f.did \cup {what})
  <2>1. g = [f EXCEPT !.did = f.did \cup {what}]
    OBVIOUS
  <2>2. [f EXCEPT !.did = f.did \cup {what}] = AFrame(f.op, f.key, f.slot, f.size, f.u, f.call, f.did \cup {what})
    BY WithDid
  <2> QED
    BY <2>1, <2>2
<1>3. f.did \cup {what} \in SUBSET {"add", "remove"} /\ f.did \cup {what} # {}
  BY <1>1
<1>4. g \in Frames
  <2>1. AFrame(f.op, f.key, f.slot, f.size, f.u, f.call, f.did \cup {what}) \in Frames
    BY <1>1, <1>3, FrameOf
  <2> QED
    BY <2>1, <1>2
<1>5. /\ g.op = f.op /\ g.key = f.key /\ g.slot = f.slot /\ g.size = f.size /\ g.u = f.u
      /\ g.call = f.call /\ g.did = f.did \cup {what}
  BY <1>2 DEF AFrame
<1> QED
  BY <1>3, <1>4, <1>5 DEF IsNoted

\* The callback removed something, and the table has the same size.
LEMMA RemovedGood ==
  ASSUME NEW d, NEW f, NEW m, Good(d, f, m), f.call, NEW e, NEW w, IsDict(e, w), Size(e) = Size(d),
         NEW g, g = [f EXCEPT !.did = @ \cup {"remove"}]
  PROVE  Good(e, g, w)
<1> f \in Frames /\ Waits(d, f, m) /\ Size(d) <= MaxSize
  BY DEF Good, FrameOK
<1>2. IsNoted(f, g, "remove")
  BY Noted
<1> /\ g \in Frames /\ g.op = f.op /\ g.key = f.key /\ g.slot = f.slot /\ g.size = f.size /\ g.u = f.u
    /\ g.call = f.call /\ "remove" \in g.did /\ g.did # {}
  BY <1>2 DEF IsNoted
<1>4. Waits(e, g, w)
  <2>1. f.op = "getOrPut" => Finds(d, f, m)
    BY DEF Waits
  <2>2. g.op = "getOrPut" => Finds(e, g, w)
    BY <2>1 DEF Finds
  <2> QED
    BY <2>2 DEF Waits
<1> QED
  BY <1>4 DEF Good, FrameOK

\* The callback gave a key that was there another value.
LEMMA ChangedGood ==
  ASSUME NEW d, NEW f, NEW m, Good(d, f, m), f.call, NEW k \in Keys, NEW v \in Val, Has(d, k),
         NEW e, IsAssigned(d, e, m, k, v)
  PROVE  Good(e, f, Assign(m, [k |-> k, v |-> v]))
<1> DEFINE w == Assign(m, [k |-> k, v |-> v])
<1> f \in Frames /\ Waits(d, f, m) /\ Size(d) <= MaxSize /\ IsDict(d, m)
  BY DEF Good, FrameOK
<1> /\ IsDict(e, w) /\ Size(e) = Size(d) /\ Full(e) = Full(d)
    /\ \A x \in Full(d) : e.items[x].k = d.items[x].k
  BY DEF IsAssigned
<1> /\ \A i : Occupied(d, i) <=> i \in Full(d)
    /\ Has(d, k) <=> k \in KeysOf(m)
    /\ m \in Seq(Pair)
  <2>1. IsRead(d, m)
    BY DictReads
  <2> QED
    BY <2>1 DEF IsRead
<1>4. \A i : Occupied(e, i) <=> i \in Full(e)
  <2>1. IsRead(e, w)
    BY DictReads
  <2> QED
    BY <2>1 DEF IsRead
<1>5. KeysOf(w) = KeysOf(m)
  <2>1. [k |-> k, v |-> v] \in Pair
    BY SMT DEF Pair
  <2>2. KeysOf(w) = KeysOf(m) \cup {[k |-> k, v |-> v].k}
    BY <2>1, AssignIs
  <2>3. [k |-> k, v |-> v].k = k
    OBVIOUS
  <2> QED
    BY <2>2, <2>3
<1> HIDE DEF w
<1>6. Owns(d, f) => Owns(e, f)
  BY <1>4 DEF Owns
<1>7. Finds(d, f, m) => Finds(e, f, w)
  <2>1. Vacant(d, Size(d), f.key, f.slot) => Vacant(e, Size(d), f.key, f.slot)
    BY DEF Vacant
  <2> QED
    BY <2>1, <1>5 DEF Finds
<1>8. Waits(e, f, w)
  BY <1>6, <1>7 DEF Waits
<1>9. Good(e, f, w)
  BY <1>8 DEF Good, FrameOK
<1> QED
  BY <1>9 DEF w

\* The callback added a key.
LEMMA AddedGood ==
  ASSUME NEW d, NEW f, NEW m, Good(d, f, m), f.call, NEW k \in Keys, NEW v \in Val, ~ Has(d, k),
         Room(d), NEW e, IsAssigned(d, e, m, k, v), NEW g, g = [f EXCEPT !.did = @ \cup {"add"}]
  PROVE  Good(e, g, Assign(m, [k |-> k, v |-> v]))
<1> DEFINE w == Assign(m, [k |-> k, v |-> v])
<1> f \in Frames /\ Waits(d, f, m) /\ Size(d) <= MaxSize /\ IsDict(d, m)
  BY DEF Good, FrameOK
<1>2. IsNoted(f, g, "add")
  BY Noted
<1> /\ g \in Frames /\ g.op = f.op /\ g.key = f.key /\ g.slot = f.slot /\ g.size = f.size /\ g.u = f.u
    /\ g.call = f.call /\ g.did # {} /\ ("remove" \notin g.did => "remove" \notin f.did)
  BY <1>2 DEF IsNoted
<1> /\ IsDict(e, w) /\ Size(d) <= Size(e) /\ Size(e) <= MaxSize
    /\ Size(d) # 0 /\ Size(e) = Size(d) => Full(d) \subseteq Full(e) /\ FindSpot(d, k) \in Full(e)
  BY DEF IsAssigned
<1> /\ m \in Seq(Pair) /\ Size(d) \in Nat /\ d \in Tables(Size(d))
    /\ Size(d) # 0 => Vacant(d, Size(d), k, FindSpot(d, k))
  <2>1. IsRead(d, m)
    BY DictReads
  <2> QED
    BY <2>1 DEF IsRead
<1>6. Size(e) \in Nat
  <2>1. IsRead(e, w)
    BY DictReads
  <2> QED
    BY <2>1 DEF IsRead
<1>7. KeysOf(w) = KeysOf(m) \cup {k}
  <2>1. [k |-> k, v |-> v] \in Pair
    BY SMT DEF Pair
  <2>2. KeysOf(w) = KeysOf(m) \cup {[k |-> k, v |-> v].k}
    BY <2>1, AssignIs
  <2>3. [k |-> k, v |-> v].k = k
    OBVIOUS
  <2> QED
    BY <2>2, <2>3
<1> HIDE DEF w
<1>8. ASSUME f.op = "getOrPut"
      PROVE  Finds(e, g, w)
  <2>1. Finds(d, f, m)
    BY <1>8 DEF Waits
  <2> f.size \in Nat /\ f.size # 0 /\ f.size <= Size(d) /\ f.key \in Keys
    BY <2>1, FrameFields DEF Finds, Waits
  <2>3. f.size <= Size(e)
    BY <1>6, SMT
  <2> ASSUME "remove" \notin g.did, f.size = Size(e), f.slot \notin Full(e)
      PROVE  f.key \notin KeysOf(w) /\ Vacant(e, Size(e), f.key, f.slot)
    <3> f.size = Size(d) /\ Size(d) # 0 /\ Size(d) > 0 /\ Size(e) = Size(d)
      BY <1>6, SMT
    <3> Full(d) \subseteq Full(e) /\ FindSpot(d, k) \in Full(e) /\ f.slot \notin Full(d)
      OBVIOUS
    <3> f.key \notin KeysOf(m) /\ Vacant(d, Size(d), f.key, f.slot)
      BY <2>1 DEF Finds
    <3>4. f.key # k
      <4> SUFFICES ASSUME f.key = k
                   PROVE  FALSE
        OBVIOUS
      <4>1. Vacant(d, Size(d), k, FindSpot(d, k)) /\ Vacant(d, Size(d), k, f.slot)
        OBVIOUS
      <4>2. f.slot = FindSpot(d, k)
        BY <4>1, VacantUnique
      <4> QED
        BY <4>2
    <3>5. f.key \notin KeysOf(w)
      BY <3>4, <1>7
    <3>6. Vacant(e, Size(d), f.key, f.slot)
      BY DEF Vacant
    <3> QED
      BY <3>5, <3>6
  <2> QED
    BY <2>3 DEF Finds
<1>9. Waits(e, g, w)
  BY <1>8 DEF Waits
<1>10. Good(e, g, w)
  BY <1>9 DEF Good, FrameOK
<1> QED
  BY <1>10 DEF w

\* A new value in a slot is a new value for its key.
LEMMA SetIsPut ==
  ASSUME NEW d, NEW m, IsDict(d, m), NEW i \in Full(d), NEW v
  PROVE  SetValue(d, i, v) = PutValue(d, d.items[i].k, v) /\ d.items[i].k \in Keys
<1>1. /\ FindSpot(d, d.items[i].k) = i /\ d.items[i].k \in Keys /\ Size(d) # 0
      /\ Occupied(d, i)
  <2>1. IsRead(d, m)
    BY DictReads
  <2> QED
    BY <2>1 DEF IsRead
<1>2. Ensure(d) = d
  BY <1>1 DEF Ensure
<1> QED
  BY <1>1, <1>2 DEF PutValue

\* The table is emptied.
LEMMA ClearIs ==
  ASSUME NEW d, NEW m, IsDict(d, m)
  PROVE  IsDict(EmptyTable(Size(d)), <<>>) /\ Size(EmptyTable(Size(d))) = Size(d)
<1> CASE d = EmptyTable(0) /\ m = <<>>
  <2>1. IsNew(d)
    BY NewIs
  <2>2. Size(d) = 0
    BY <2>1 DEF IsNew
  <2> QED
    BY <2>2 DEF IsDict
<1>2. CASE \E n \in Sizes : \E s : Holds(d, n, s, m)
  <2>1. PICK n \in Sizes : \E s : Holds(d, n, s, m)
    BY <1>2
  <2>2. Size(d) = n
    BY <2>1, HeldIs
  <2>3. Holds(EmptyTable(n), n, <<>>, <<>>)
    BY SizesAre, EmptyIs
  <2>4. IsDict(EmptyTable(n), <<>>) /\ Size(EmptyTable(n)) = n
    BY <2>3, HeldIs
  <2> QED
    BY <2>2, <2>4
<1> QED
  BY <1>2 DEF IsDict

\* The i-th entry from the nearer end.
Nth(d, i) == IF i < d.count \div 2 THEN Slots(d)[i + 1] ELSE Backwards(d)[d.count - i]

\* dict_pop removes the i-th entry, from whichever end it is reached.
LEMMA PopIs ==
  ASSUME NEW d, NEW m, IsDict(d, m), NEW i \in 0 .. d.count - 1
  PROVE  /\ IsDict(Delete(d, Nth(d, i)), [j \in 1 .. Len(m) - 1 |-> IF j <= i THEN m[j] ELSE m[j + 1]])
         /\ Size(Delete(d, Nth(d, i))) = Size(d)
<1>1. d # EmptyTable(0)
  <2> SUFFICES ASSUME d = EmptyTable(0)
               PROVE  FALSE
    OBVIOUS
  <2>1. d.count = 0
    BY NewIs DEF IsNew
  <2> QED
    BY <2>1, SMT
<1> PICK n \in Sizes : \E s : Holds(d, n, s, m)
  BY <1>1 DEF IsDict
<1> PICK s : Holds(d, n, s, m)
  BY SMT
<1> d.count = Len(s) /\ d.count = Len(m) /\ d.count \in Nat /\ s \in Seq(Spots(n)) /\ m \in Seq(Pair)
  <2>1. ListOf(d, n, s) /\ IsAlong(d, s, m) /\ d.count = Len(m) /\ d.count \in Nat
    BY HoldsFacts
  <2> QED
    BY <2>1 DEF ListOf, IsAlong
<1> DEFINE L == d.count
           j == i + 1
<1> j \in 1 .. L /\ L - i \in 1 .. L /\ (L - (L - i)) + 1 = j /\ L \in Nat
  BY SMT
<1>5. Nth(d, i) = s[j]
  <2>1. IsWalked(d, s, m)
    BY SlotsAre
  <2>2. Slots(d) = s /\ Backwards(d) = Rev(s)
    BY <2>1 DEF IsWalked
  <2>3. Rev(s)[L - i] = s[(L - (L - i)) + 1]
    <3>1. \A l \in 1 .. Len(s) : Rev(s)[l] = s[(Len(s) - l) + 1]
      BY RevIs
    <3>2. L - i \in 1 .. Len(s) /\ L = Len(s)
      OBVIOUS
    <3> HIDE DEF L
    <3>3. Rev(s)[L - i] = s[(Len(s) - (L - i)) + 1]
      BY <3>1, <3>2
    <3> QED
      BY <3>2, <3>3
  <2>4. Rev(s)[L - i] = s[j]
    BY <2>3
  <2> QED
    BY <2>2, <2>4 DEF Nth
<1>6. IsErased(d, Delete(d, s[j]), n, s, m, j)
  BY DeleteHolds
<1>7. Holds(Delete(d, s[j]), n, Without(s, j), Without(m, j))
  BY <1>6 DEF IsErased
<1>8. IsDict(Delete(d, s[j]), Without(m, j)) /\ Size(Delete(d, s[j])) = n /\ Size(d) = n
  BY <1>7, HeldIs
<1>9. Without(m, j) = [l \in 1 .. Len(m) - 1 |-> IF l <= i THEN m[l] ELSE m[l + 1]]
  <2>1. \A l \in 1 .. Len(m) - 1 : l < j <=> l <= i
    BY SMT
  <2> QED
    BY <2>1 DEF Without
<1> QED
  BY <1>5, <1>8, <1>9

\* The arguments of update, subtract and intersect are sequences of entries.
LEMMA ArgumentIs ==
  ASSUME NEW m \in Arguments
  PROVE  m \in Seq(Pair)
<1>1. PICK w \in UNION {[1 .. n -> [k : Keys, v : Given]] : n \in 0 .. MaxPairs} :
        m = Tabled(PutAll(EmptyTable(0), w))
  BY DEF Arguments
<1>2. PICK n \in 0 .. MaxPairs : w \in [1 .. n -> [k : Keys, v : Given]]
  OBVIOUS
<1>3. n \in Nat
  BY DictAssumption, SMT
<1>4. [k : Keys, v : Given] \subseteq Pair
  BY SMT DEF Pair, Val
<1>5. w \in Seq(Pair)
  <2>1. w \in [1 .. n -> Pair]
    BY <1>2, <1>4
  <2> QED
    BY <2>1, <1>3, SMT
<1>6. IsDict(EmptyTable(0), <<>>)
  BY DEF IsDict
<1>7. IsDict(PutAll(EmptyTable(0), w), AssignAll(<<>>, w))
  BY <1>5, <1>6, PutAllIs
<1> QED
  BY <1>1, <1>7, TabledIs

\* No method waits.
LEMMA IdleNow ==
  ASSUME NEW d, NEW f, NEW m, Good(d, f, m), f.op = "none" \/ ~ f.call
  PROVE  Idle(f)
<1>1. f \in Frames /\ (f.call => f.op \in Methods) /\ (~ f.call => f.did = {})
  BY DEF Good, FrameOK, Waits
<1>2. "none" \notin Methods
  BY SMT DEF Methods
<1> QED
  BY <1>1, <1>2 DEF Idle

\* A method calls back.
Calling(op, k, i, n) == AFrame(op, k, i, n, <<>>, TRUE, {})

Called(op, k, i, n) ==
  [NoFrame EXCEPT !.op = op, !.key = k, !.slot = i, !.size = n, !.call = TRUE]

IsCalled(g, op, k, i, n) ==
  g \in Frames /\ g.op = op /\ g.key = k /\ g.slot = i /\ g.size = n /\ g.call /\ g.did = {}

\* The fields of the frame of a method that calls back.
LEMMA CallingIs ==
  ASSUME NEW op \in Methods, NEW k \in Keys, NEW i \in Int, NEW n \in Nat,
         NEW g, g = Called(op, k, i, n)
  PROVE  IsCalled(g, op, k, i, n)
<1>1. g = Calling(op, k, i, n)
  BY DEF NoFrame, Called, Calling, AFrame
<1>2. op \in Methods \cup {"none"} /\ k \in Keys \cup {NoKey} /\ <<>> \in Seq(Pair) /\ TRUE \in BOOLEAN
      /\ {} \in SUBSET {"add", "remove"}
  BY SMT
<1>3. Calling(op, k, i, n) \in Frames
  BY <1>2, FrameOf DEF Calling
<1>4. g.op = op /\ g.key = k /\ g.slot = i /\ g.size = n /\ g.did = {}
  <2>1. PICK t, y, z : t = TRUE /\ y = {} /\ z = <<>>
    OBVIOUS
  <2>2. g = AFrame(op, k, i, n, z, t, y)
    BY <1>1, <2>1 DEF Calling
  <2>3. g.op = op /\ g.key = k /\ g.slot = i /\ g.size = n /\ g.did = y
    BY <2>2, SMT DEF AFrame
  <2> QED
    BY <2>1, <2>3
<1>5. g.call
  BY <1>1, SMT DEF Calling, AFrame
<1> QED
  BY <1>1, <1>3, <1>4, <1>5 DEF IsCalled

\* The frame of a method that goes through the entries.
LEMMA BeganIs ==
  ASSUME NEW op \in Methods, NEW m \in Seq(Pair), NEW g, g = [NoFrame EXCEPT !.op = op, !.u = m]
  PROVE  Idle(g)
<1>1. g = AFrame(op, NoKey, 0, 0, m, FALSE, {})
  BY DEF NoFrame, AFrame
<1>2. Idle(AFrame(op, NoKey, 0, 0, m, FALSE, {}))
  BY BegunIdle
<1> QED
  BY <1>1, <1>2

-----------------------------------------------------------------------------
(* The invariant *)

\* As long as every method has gone on with its own slot, the Dict and the ordered map
\* agree and the waiting method can rely on its frame.
DictInv == CallbacksThatLose /\ (Whole => Good(dict, frame, map))

\* A step of the program, or of a method with its own slot.
LEMMA Kept1 ==
  ASSUME Whole, lost' = lost, Good(dict', frame', map')
  PROVE  DictInv'
BY DEF DictInv, Whole, CallbacksThatLose

\* A method goes on after its callback: with its own slot, or as CallbacksThatLose says.
LEMMA Lost1 ==
  ASSUME Whole, NEW own \in BOOLEAN, Lose(own), own => Good(dict', frame', map'),
         ~ own => /\ frame.op \notin {"none", "get", "ensure"} /\ frame.did # {}
                  /\ frame.op = "getOrPut" => "remove" \in frame.did
  PROVE  DictInv'
<1> CASE own
  <2>1. lost' = lost
    BY DEF Lose
  <2> QED
    BY <2>1, Kept1
<1> CASE ~ own
  <2>1. lost' = [op |-> frame.op, did |-> frame.did]
    BY DEF Lose
  <2>2. lost'.op = frame.op /\ lost'.did = frame.did
    BY <2>1
  <2>3. NotLost.op = "none"
    BY DEF NotLost
  <2>4. lost' # NotLost
    BY <2>2, <2>3
  <2> QED
    BY <2>2, <2>4 DEF DictInv, Whole, CallbacksThatLose
<1> QED
  OBVIOUS

\* After the first loss nothing is said of the Dict.
LEMMA LostStays ==
  ASSUME ~ Whole, [DictNext]_dictVars
  PROVE  lost' = lost
<1>1. ASSUME NEW own, Lose(own)
      PROVE  lost' = lost
  BY <1>1 DEF Lose
<1>2. ASSUME NEW what, Seen(what)
      PROVE  lost' = lost
  BY <1>2 DEF Seen
<1> USE <1>1, <1>2
<1>3. CASE UNCHANGED dictVars
  BY <1>3 DEF dictVars
<1>4. ASSUME NEW k \in Keys, DictRemove(k) \/ CallMerge(k)
      PROVE  lost' = lost
  BY <1>4 DEF DictRemove, CallMerge, CallBack
<1>5. ASSUME NEW k \in Keys, NEW v \in Given, DictPut(k, v)
      PROVE  lost' = lost
  BY <1>5 DEF DictPut
<1>6. ASSUME NEW i \in 0 .. dict.count - 1, DictPop(i)
      PROVE  lost' = lost
  BY <1>6 DEF DictPop
<1>7. CASE DictClear
  BY <1>7 DEF DictClear
<1>8. ASSUME NEW m \in Arguments, DictUpdate(m) \/ DictSubtract(m) \/ DictIntersect(m)
      PROVE  lost' = lost
  BY <1>8 DEF DictUpdate, DictSubtract, DictIntersect
<1>9. ASSUME NEW op \in Methods, NEW k \in Keys, CallDefault(op, k)
      PROVE  lost' = lost
  BY <1>9 DEF CallDefault, CallBack
<1>10. ASSUME NEW op \in Methods, NEW m \in Arguments, Begin(op, m)
       PROVE  lost' = lost
  BY <1>10 DEF Begin
<1>11. ASSUME NEW v \in Results, ReturnGet(v) \/ ReturnEnsure(v)
       PROVE  lost' = lost
  BY <1>11 DEF ReturnGet, ReturnEnsure, Keep
<1>12. ASSUME NEW v \in Results, ReturnGetOrPut(v) \/ ReturnMerge(v) \/ ReturnIntersect(v)
       PROVE  lost' = lost
  BY <1>12 DEF ReturnGetOrPut, ReturnMerge, ReturnIntersect, PutAgain
<1>13. CASE ScanSlot \/ ScanEntry \/ ReturnSubtract
  BY <1>13 DEF ScanSlot, ScanEntry, ReturnSubtract, Keep
<1>14. ASSUME NEW truthy \in BOOLEAN, ReturnKeep(truthy)
       PROVE  lost' = lost
  BY <1>14 DEF ReturnKeep
<1> QED
  BY <1>3, <1>4, <1>5, <1>6, <1>7, <1>8, <1>9, <1>10, <1>11, <1>12, <1>13, <1>14 DEF DictNext

\* Initially there is no table.
LEMMA DictStarts == DictInit => DictInv
<1> SUFFICES ASSUME DictInit
             PROVE  DictInv
  OBVIOUS
<1> dict = EmptyTable(0) /\ frame = NoFrame /\ map = <<>> /\ Whole
  BY DEF DictInit, Whole
<1>2. IsDict(dict, map)
  BY DEF IsDict
<1>3. Size(dict) <= MaxSize
  <2>1. IsNew(dict)
    BY NewIs
  <2>2. Size(dict) = 0
    BY <2>1 DEF IsNew
  <2>3. MaxSize \in Nat
    BY DictAssumption
  <2> QED
    BY <2>2, <2>3, SMT
<1>4. Idle(frame)
  BY NoFrameIdle
<1>5. Good(dict, frame, map)
  BY <1>2, <1>3, <1>4, IdleGood
<1> QED
  BY <1>5 DEF DictInv, CallbacksThatLose

\* The program runs, and what it does is noted.
LEMMA SeenRemove ==
  ASSUME Whole, Good(dict, frame, map), Seen("remove"), IsDict(dict', map'), Size(dict') = Size(dict)
  PROVE  DictInv'
<1>1. lost' = lost
  BY DEF Seen
<1> CASE frame.call
  <2>1. frame' = [frame EXCEPT !.did = @ \cup {"remove"}]
    BY DEF Seen
  <2>2. Good(dict', frame', map')
    BY <2>1, RemovedGood
  <2> QED
    BY <2>2, <1>1, Kept1
<1> CASE ~ frame.call
  <2>1. frame' = frame
    BY DEF Seen
  <2>2. Idle(frame')
    BY <2>1, IdleNow
  <2>3. Size(dict') <= MaxSize
    BY DEF Good
  <2>4. Good(dict', frame', map')
    BY <2>2, <2>3, IdleGood
  <2> QED
    BY <2>4, <1>1, Kept1
<1> QED
  OBVIOUS

\* A method that needs no callback, or has had its last one.
LEMMA IdleStep ==
  ASSUME Whole, lost' = lost, IsDict(dict', map'), Size(dict') <= MaxSize, Idle(frame')
  PROVE  DictInv'
<1>1. Good(dict', frame', map')
  BY IdleGood
<1> QED
  BY <1>1, Kept1

\* DictPut keeps the invariant.
LEMMA PutStep ==
  ASSUME Whole, Good(dict, frame, map), NEW k \in Keys, NEW v \in Given, DictPut(k, v)
  PROVE  DictInv'
<1> /\ Room(dict) /\ dict' = PutValue(dict, k, v) /\ map' = Assign(map, [k |-> k, v |-> v])
    /\ IF Has(dict, k) THEN UNCHANGED <<frame, lost>> ELSE Seen("add")
  BY DEF DictPut
<1> IsDict(dict, map) /\ Size(dict) <= MaxSize /\ v \in Val
  BY DEF Good, Val
<1> IsAssigned(dict, dict', map, k, v)
  BY PutValueIs
<1>4. IsDict(dict', map') /\ Size(dict') <= MaxSize
  BY DEF IsAssigned
<1> lost' = lost
  BY DEF Seen
<1> CASE ~ frame.call
  <2>1. frame' = frame
    BY DEF Seen
  <2>2. Idle(frame')
    BY <2>1, IdleNow
  <2> QED
    BY <2>2, <1>4, IdleStep
<1> CASE frame.call /\ Has(dict, k)
  <2>1. frame' = frame
    OBVIOUS
  <2>2. Good(dict', frame, map')
    BY ChangedGood
  <2> QED
    BY <2>1, <2>2, Kept1
<1> CASE frame.call /\ ~ Has(dict, k)
  <2>1. frame' = [frame EXCEPT !.did = @ \cup {"add"}]
    BY DEF Seen
  <2>2. Good(dict', frame', map')
    BY <2>1, AddedGood
  <2> QED
    BY <2>2, Kept1
<1> QED
  OBVIOUS

\* DictRemove keeps the invariant.
LEMMA RemoveStep ==
  ASSUME Whole, Good(dict, frame, map), NEW k \in Keys, DictRemove(k)
  PROVE  DictInv'
<1>1. dict' = RemoveKey(dict, k) /\ map' = Except(map, {k}) /\ Seen("remove")
  BY DEF DictRemove
<1>2. IsDict(dict, map)
  BY DEF Good
<1>3. IsDict(dict', map') /\ Size(dict') = Size(dict)
  BY <1>1, <1>2, RemoveKeyIs
<1> QED
  BY <1>1, <1>3, SeenRemove

\* DictPop keeps the invariant.
LEMMA PopStep ==
  ASSUME Whole, Good(dict, frame, map), NEW i \in 0 .. dict.count - 1, DictPop(i)
  PROVE  DictInv'
<1>1. /\ dict' = Delete(dict, Nth(dict, i)) /\ Seen("remove")
      /\ map' = [j \in 1 .. Len(map) - 1 |-> IF j <= i THEN map[j] ELSE map[j + 1]]
  BY DEF DictPop, Nth
<1>2. IsDict(dict, map)
  BY DEF Good
<1>3. IsDict(dict', map') /\ Size(dict') = Size(dict)
  BY <1>1, <1>2, PopIs
<1> QED
  BY <1>1, <1>3, SeenRemove

\* DictClear keeps the invariant.
LEMMA ClearStep ==
  ASSUME Whole, Good(dict, frame, map), DictClear
  PROVE  DictInv'
<1>1. dict' = EmptyTable(Size(dict)) /\ map' = <<>> /\ Seen("remove")
  BY DEF DictClear
<1>2. IsDict(dict, map)
  BY DEF Good
<1>3. IsDict(dict', map') /\ Size(dict') = Size(dict)
  BY <1>1, <1>2, ClearIs
<1> QED
  BY <1>1, <1>3, SeenRemove

\* DictUpdate, dict_subtract and dict_intersect keep the invariant.
LEMMA ArgumentStep ==
  ASSUME Whole, Good(dict, frame, map), NEW m \in Arguments,
         DictUpdate(m) \/ DictSubtract(m) \/ DictIntersect(m)
  PROVE  DictInv'
<1> IsDict(dict, map) /\ Size(dict) <= MaxSize
  BY DEF Good
<1>2. m \in Seq(Pair)
  BY ArgumentIs
<1> Idle(frame') /\ lost' = lost
  <2>1. frame.op = "none" /\ frame' = frame /\ lost' = lost
    BY DEF DictUpdate, DictSubtract, DictIntersect, NoMethod
  <2>2. Idle(frame)
    BY <2>1, IdleNow
  <2> QED
    BY <2>1, <2>2
<1>4. CASE DictUpdate(m)
  <2>1. dict' = PutAll(dict, m) /\ map' = AssignAll(map, m) /\ Size(dict') <= MaxSize
    BY <1>4 DEF DictUpdate
  <2>2. IsDict(dict', map')
    BY <2>1, <1>2, PutAllIs
  <2> QED
    BY <2>1, <2>2, IdleStep
<1>5. CASE DictSubtract(m)
  <2>1. dict' = RemoveAll(dict, m) /\ map' = Except(map, KeysOf(m))
    BY <1>5 DEF DictSubtract
  <2>2. IsDict(dict', map') /\ Size(dict') = Size(dict)
    BY <2>1, <1>2, RemoveAllIs
  <2>3. Size(dict') <= MaxSize
    BY <2>2
  <2> QED
    BY <2>2, <2>3, IdleStep
<1>6. CASE DictIntersect(m)
  <2>1. dict' = KeepKeys(dict, KeysOf(m)) /\ map' = Only(map, KeysOf(m))
    BY <1>6 DEF DictIntersect
  <2>2. IsDict(dict', map') /\ Size(dict') = Size(dict)
    BY <2>1, KeepKeysIs
  <2>3. Size(dict') <= MaxSize
    BY <2>2
  <2> QED
    BY <2>2, <2>3, IdleStep
<1> QED
  BY <1>4, <1>5, <1>6

\* A method calls back, with a table that exists.
LEMMA CallStep ==
  ASSUME Whole, NEW op \in Methods, NEW k \in Keys, NEW d, CallBack(op, k, d), IsDict(d, map),
         Size(d) # 0, Size(d) <= MaxSize,
         \/ op \in {"get", "ensure", "getOrPut"} /\ ~ Has(d, k)
         \/ op = "merge" /\ Has(d, k)
  PROVE  DictInv'
<1> DEFINE g == frame'
<1> /\ dict' = d /\ map' = map /\ lost' = lost
    /\ g = Called(op, k, FindSpot(d, k), Size(d))
  BY DEF CallBack, Called
<1> /\ Size(d) \in Nat /\ d \in Tables(Size(d))
    /\ Has(d, k) => FindSpot(d, k) \in Full(d) /\ d.items[FindSpot(d, k)].k = k
    /\ ~ Has(d, k) => Vacant(d, Size(d), k, FindSpot(d, k)) /\ k \notin KeysOf(map)
    /\ \A i : Occupied(d, i) <=> i \in Full(d)
  <2>1. IsRead(d, map)
    BY DictReads
  <2> QED
    BY <2>1 DEF IsRead
<1>3. FindSpot(d, k) \in Int
  <2>1. FindSpot(d, k) \in Spots(Size(d))
    <3>1. \A x \in Full(d) : x \in Spots(Size(d))
      BY FullFacts
    <3> QED
      BY <3>1 DEF Vacant
  <2> QED
    BY <2>1, SMT DEF Spots
<1> HIDE DEF g
<1> g \in Frames /\ g.op = op /\ g.key = k /\ g.slot = FindSpot(d, k) /\ g.size = Size(d) /\ g.call /\ g.did = {}
  <2>1. IsCalled(g, op, k, FindSpot(d, k), Size(d))
    BY <1>3, CallingIs
  <2> QED
    BY <2>1 DEF IsCalled
<1>5. Size(d) <= Size(d)
  BY SMT
<1> CASE op \in {"get", "ensure", "getOrPut"} /\ ~ Has(d, k)
  <2>1. Finds(d, g, map)
    BY <1>5 DEF Finds
  <2>2. op \notin {"merge", "keep", "intersect", "subtract"}
    BY SMT
  <2>3. Waits(d, g, map)
    BY <2>1, <2>2 DEF Waits
  <2>4. Good(d, g, map)
    BY <2>3 DEF Good, FrameOK
  <2> QED
    BY <2>4, Kept1 DEF g
<1> CASE op = "merge" /\ Has(d, k)
  <2>1. Owns(d, g)
    BY DEF Owns
  <2>2. op # "getOrPut" /\ op # "subtract"
    BY SMT
  <2>3. Waits(d, g, map)
    BY <2>1, <2>2 DEF Waits
  <2>4. Good(d, g, map)
    BY <2>3 DEF Good, FrameOK
  <2> QED
    BY <2>4, Kept1 DEF g
<1> QED
  OBVIOUS

\* ENSURE_INIT before a callback.
LEMMA EnsuredIs ==
  ASSUME NEW d, NEW m, IsDict(d, m), Size(d) <= MaxSize
  PROVE  /\ IsDict(Ensure(d), m) /\ Size(Ensure(d)) # 0 /\ Size(Ensure(d)) <= MaxSize
         /\ \A k \in Keys : Has(Ensure(d), k) <=> Has(d, k)
<1>1. IsEnsured(d, Ensure(d), m)
  BY EnsureIs
<1>2. \A k \in Keys : Has(Ensure(d), k) <=> Has(d, k)
  BY <1>1 DEF IsEnsured
<1>3. IsDict(Ensure(d), m) /\ Size(Ensure(d)) # 0
  <2>1. PICK n \in Sizes : \E s : Holds(Ensure(d), n, s, m)
    BY <1>1 DEF IsEnsured
  <2> QED
    BY <2>1, HeldIs
<1>4. CASE Size(d) # 0
  BY <1>2, <1>3, <1>4 DEF Ensure
<1>5. CASE Size(d) = 0
  <2>1. INITIAL_SIZE \in Nat /\ INITIAL_SIZE >= 4 /\ INITIAL_SIZE <= MaxSize
    BY DictAssumption
  <2>2. Holds(EmptyTable(INITIAL_SIZE), INITIAL_SIZE, <<>>, <<>>) /\ INITIAL_SIZE \in Sizes
    BY <2>1, EmptyIs, SizesAre
  <2>3. Size(EmptyTable(INITIAL_SIZE)) = INITIAL_SIZE
    BY <2>2, HeldIs
  <2>4. Size(Ensure(d)) <= MaxSize
    BY <2>1, <2>3, <1>5 DEF Ensure
  <2> QED
    BY <2>4, <1>2, <1>3
<1> QED
  BY <1>4, <1>5

\* The call of a default, or of the function of getOrPutWith.
LEMMA CallDefaultStep ==
  ASSUME Whole, Good(dict, frame, map), NEW op \in Methods, NEW k \in Keys, CallDefault(op, k)
  PROVE  DictInv'
<1>1. op \in {"get", "ensure", "getOrPut"} /\ ~ Has(dict, k) /\ CallBack(op, k, Ensure(dict))
  BY DEF CallDefault
<1>2. IsDict(dict, map) /\ Size(dict) <= MaxSize
  BY DEF Good
<1>3. /\ IsDict(Ensure(dict), map) /\ Size(Ensure(dict)) # 0 /\ Size(Ensure(dict)) <= MaxSize
      /\ ~ Has(Ensure(dict), k)
  BY <1>1, <1>2, EnsuredIs
<1> QED
  BY <1>1, <1>3, CallStep

\* The call of the function of update.
LEMMA CallMergeStep ==
  ASSUME Whole, Good(dict, frame, map), NEW k \in Keys, CallMerge(k)
  PROVE  DictInv'
<1>1. Has(dict, k) /\ CallBack("merge", k, dict)
  BY DEF CallMerge
<1>2. IsDict(dict, map) /\ Size(dict) <= MaxSize
  BY DEF Good
<1>3. Size(dict) # 0
  <2>1. IsRead(dict, map)
    BY <1>2, DictReads
  <2> QED
    BY <2>1, <1>1 DEF IsRead
<1>4. "merge" \in Methods
  BY SMT DEF Methods
<1> QED
  BY <1>1, <1>2, <1>3, <1>4, CallStep

\* keep!, intersect and subtract with a function begin.
LEMMA BeginStep ==
  ASSUME Whole, Good(dict, frame, map), NEW op \in Methods, NEW m \in Arguments, Begin(op, m)
  PROVE  DictInv'
<1> /\ frame' = [NoFrame EXCEPT !.op = op, !.u = m] /\ dict' = dict /\ map' = map /\ lost' = lost
  BY DEF Begin
<1>2. m \in Seq(Pair)
  BY ArgumentIs
<1>3. Idle(frame')
  BY <1>2, BeganIs
<1>4. IsDict(dict', map') /\ Size(dict') <= MaxSize
  BY DEF Good
<1> QED
  BY <1>3, <1>4, IdleStep

\* What the program's results are.
LEMMA ResultIs ==
  ASSUME NEW v \in Results
  PROVE  v \in Val /\ Result(v) = [k |-> frame.key, v |-> v]
BY DEF Val, Result

\* What a method that waits can rely on.
LEMMA WaitsNow ==
  ASSUME Good(dict, frame, map), frame.call
  PROVE  Waits(dict, frame, map) /\ frame \in Frames /\ IsDict(dict, map) /\ Size(dict) <= MaxSize
BY DEF Good, FrameOK

\* A default is put, after another look for its key.
LEMMA GetStep ==
  ASSUME Whole, Good(dict, frame, map), NEW v \in Results, ReturnGet(v) \/ ReturnEnsure(v)
  PROVE  DictInv'
<1> frame.call /\ Room(dict) /\ frame' = NoFrame /\ lost' = lost
  BY DEF ReturnGet, ReturnEnsure, Returning, Done, Keep
<1> /\ frame.key \in Keys /\ IsDict(dict, map) /\ Size(dict) <= MaxSize
    /\ v \in Val /\ Result(v) = [k |-> frame.key, v |-> v]
  BY WaitsNow, ResultIs DEF Waits
<1>3. IsAssigned(dict, PutValue(dict, frame.key, v), map, frame.key, v)
  BY PutValueIs
<1>4. /\ IsDict(PutValue(dict, frame.key, v), Assign(map, Result(v)))
      /\ Size(PutValue(dict, frame.key, v)) <= MaxSize
  BY <1>3 DEF IsAssigned
<1>5. Has(dict, frame.key) <=> frame.key \in KeysOf(map)
  <2>1. IsRead(dict, map)
    BY DictReads
  <2> QED
    BY <2>1 DEF IsRead
<1>6. IsDict(dict', map') /\ Size(dict') <= MaxSize
  <2>1. CASE ReturnGet(v)
    BY <2>1, <1>4 DEF ReturnGet
  <2>2. CASE ReturnEnsure(v) /\ Has(dict, frame.key)
    <3>1. dict' = dict /\ map' = map
      BY <2>2, <1>5 DEF ReturnEnsure
    <3> QED
      BY <3>1
  <2>3. CASE ReturnEnsure(v) /\ ~ Has(dict, frame.key)
    <3>1. dict' = PutValue(dict, frame.key, v) /\ map' = Assign(map, Result(v))
      BY <2>3, <1>5 DEF ReturnEnsure
    <3> QED
      BY <3>1, <1>4
  <2> QED
    BY <2>1, <2>2, <2>3
<1> QED
  BY <1>6, NoFrameIdle, IdleStep

\* getOrPutWith puts into the slot it found; if that is not where its key belongs by
\* now, then the callback has removed a key.
LEMMA GetOrPutStep ==
  ASSUME Whole, Good(dict, frame, map), NEW v \in Results, ReturnGetOrPut(v)
  PROVE  DictInv'
<1> DEFINE k == frame.key
           i == IF Refind THEN FindSpot(dict, k) ELSE frame.slot
           own == i = FindSpot(dict, k)
<1> frame.call /\ frame.op = "getOrPut" /\ Room(dict) /\ frame' = NoFrame
  BY DEF ReturnGetOrPut, Returning, Done
<1> /\ dict' = IF Occupied(dict, i) THEN SetValue(dict, i, v) ELSE Put(dict, i, k, v)
    /\ map' = Assign(map, Result(v)) /\ Lose(own)
  BY DEF ReturnGetOrPut, PutAgain
<1> /\ k \in Keys /\ IsDict(dict, map) /\ Size(dict) <= MaxSize
    /\ v \in Val /\ Result(v) = [k |-> k, v |-> v] /\ Finds(dict, frame, map) /\ frame \in Frames
  BY WaitsNow, ResultIs DEF Waits
<1> IsRead(dict, map)
  BY DictReads
<1> Size(dict) # 0
  <2>1. frame.size # 0 /\ frame.size <= Size(dict)
    BY DEF Finds
  <2>2. frame.size \in Nat
    BY FrameFields
  <2> QED
    BY <2>1, <2>2, SMT
<1>6. own \in BOOLEAN
  OBVIOUS
<1>7. ASSUME own
      PROVE  Good(dict', frame', map')
  <2>1. Ensure(dict) = dict
    BY DEF Ensure
  <2>2. dict' = PutValue(dict, k, v)
    BY <1>7, <2>1 DEF PutValue
  <2>3. IsAssigned(dict, dict', map, k, v)
    BY <2>2, PutValueIs
  <2>4. IsDict(dict', map') /\ Size(dict') <= MaxSize
    BY <2>3 DEF IsAssigned
  <2> QED
    BY <2>4, NoFrameIdle, IdleGood
<1> ASSUME ~ own
    PROVE  "remove" \in frame.did
  <2>1. ~ Refind
    OBVIOUS
  <2>2. i = frame.slot
    BY <2>1
  <2>3. frame.size = Size(dict) /\ ~ Occupied(dict, frame.slot)
    BY <2>1 DEF Refind
  <2>4. frame.slot \notin Full(dict)
    BY <2>3 DEF IsRead
  <2>5. SUFFICES ASSUME "remove" \notin frame.did
                 PROVE  FALSE
    OBVIOUS
  <2>6. k \notin KeysOf(map) /\ Vacant(dict, Size(dict), k, frame.slot)
    BY <2>3, <2>4, <2>5 DEF Finds
  <2>7. Vacant(dict, Size(dict), k, FindSpot(dict, k))
    BY <2>6 DEF IsRead
  <2>8. frame.slot = FindSpot(dict, k)
    <3>1. Size(dict) \in Nat /\ dict \in Tables(Size(dict))
      BY DEF IsRead
    <3>2. Size(dict) > 0
      BY <3>1, SMT
    <3> QED
      BY <3>1, <3>2, <2>6, <2>7, VacantUnique
  <2> QED
    BY <2>2, <2>8
<1>9. ~ own => /\ frame.op \notin {"none", "get", "ensure"} /\ frame.did # {}
               /\ frame.op = "getOrPut" => "remove" \in frame.did
  <2>1. frame.op \notin {"none", "get", "ensure"}
    BY SMT
  <2> QED
    BY <2>1
<1> HIDE DEF own
<1> QED
  BY <1>6, <1>7, <1>9, Lost1

\* The slot a method waited with, as the callback leaves it.
LEMMA OwnIs ==
  ASSUME Good(dict, frame, map), frame.call, Own
  PROVE  /\ frame.slot \in Full(dict) /\ dict.items[frame.slot].k = frame.key /\ frame.key \in Keys
         /\ frame.slot = FindSpot(dict, frame.key) /\ Size(dict) # 0 /\ Has(dict, frame.key)
<1>1. IsDict(dict, map) /\ frame.key \in Keys
  BY WaitsNow DEF Waits
<1> IsRead(dict, map)
  BY <1>1, DictReads
<1> frame.slot \in Full(dict) /\ dict.items[frame.slot].k = frame.key
  BY DEF IsRead, Own
<1>4. Size(dict) # 0
  BY DEF IsRead
<1>5. frame.slot = FindSpot(dict, frame.key)
  BY DEF IsRead
<1>6. Has(dict, frame.key)
  BY DEF IsRead
<1> QED
  BY <1>1, <1>4, <1>5, <1>6

\* A method changes the value of its own slot.
LEMMA OwnValue ==
  ASSUME Good(dict, frame, map), frame.call, Own, NEW v \in Results
  PROVE  /\ IsDict(SetValue(dict, frame.slot, v), Assign(map, Result(v)))
         /\ Size(SetValue(dict, frame.slot, v)) <= MaxSize
<1> /\ frame.slot \in Full(dict) /\ dict.items[frame.slot].k = frame.key /\ frame.key \in Keys
    /\ frame.slot = FindSpot(dict, frame.key) /\ Size(dict) # 0 /\ Has(dict, frame.key)
  BY OwnIs
<1> IsDict(dict, map) /\ Size(dict) <= MaxSize /\ v \in Val /\ Result(v) = [k |-> frame.key, v |-> v]
  BY WaitsNow, ResultIs
<1>3. SetValue(dict, frame.slot, v) = PutValue(dict, frame.key, v)
  <2>1. SetValue(dict, frame.slot, v) = PutValue(dict, dict.items[frame.slot].k, v)
    BY SetIsPut
  <2> QED
    BY <2>1
<1>4. IsAssigned(dict, PutValue(dict, frame.key, v), map, frame.key, v)
  BY PutValueIs
<1> QED
  BY <1>3, <1>4 DEF IsAssigned

\* A method deletes its own slot.
LEMMA OwnDelete ==
  ASSUME Good(dict, frame, map), frame.call, Own
  PROVE  /\ IsDict(Delete(dict, frame.slot), Except(map, {frame.key}))
         /\ Size(Delete(dict, frame.slot)) <= MaxSize
<1>1. frame.slot \in Full(dict) /\ dict.items[frame.slot].k = frame.key
  BY OwnIs
<1>2. IsDict(dict, map) /\ Size(dict) <= MaxSize
  BY WaitsNow
<1>3. IsGone(dict, Delete(dict, frame.slot), map, frame.slot)
  BY <1>1, <1>2, DeleteAny
<1> QED
  BY <1>1, <1>2, <1>3 DEF IsGone

\* Without a change by the callback, the slot is still the method's own.
LEMMA NotOwn ==
  ASSUME Good(dict, frame, map), frame.call, frame.op \in {"merge", "keep", "intersect", "subtract"},
         \/ ~ Own
         \/ frame.op \in {"merge", "intersect"} /\ frame.size # Size(dict)
  PROVE  /\ frame.op \notin {"none", "get", "ensure"} /\ frame.did # {}
         /\ frame.op = "getOrPut" => "remove" \in frame.did
<1>1. Waits(dict, frame, map)
  BY WaitsNow
<1>2. frame.did # {}
  BY <1>1 DEF Waits, Owns, Own
<1>3. frame.op \notin {"none", "get", "ensure", "getOrPut"}
  BY SMT
<1> QED
  BY <1>2, <1>3

\* update stores the result of its function.
LEMMA MergeStep ==
  ASSUME Whole, Good(dict, frame, map), NEW v \in Results, ReturnMerge(v)
  PROVE  DictInv'
<1> DEFINE own == Own /\ frame.size = Size(dict)
<1> /\ frame.call /\ frame.op = "merge" /\ frame' = NoFrame /\ map' = Assign(map, Result(v)) /\ Lose(own)
    /\ frame.size = Size(dict) => dict' = SetValue(dict, frame.slot, v)
  BY DEF ReturnMerge, Returning, Done
<1>2. own \in BOOLEAN
  BY DEF Own, Occupied
<1>3. ASSUME own
      PROVE  Good(dict', frame', map')
  <2>1. IsDict(dict', map') /\ Size(dict') <= MaxSize
    BY <1>3, OwnValue
  <2> QED
    BY <2>1, NoFrameIdle, IdleGood
<1>4. ~ own => /\ frame.op \notin {"none", "get", "ensure"} /\ frame.did # {}
               /\ frame.op = "getOrPut" => "remove" \in frame.did
  BY NotOwn
<1> HIDE DEF own
<1> QED
  BY <1>2, <1>3, <1>4, Lost1

\* intersect stores the result of its function.
LEMMA IntersectStep ==
  ASSUME Whole, Good(dict, frame, map), NEW v \in Results, ReturnIntersect(v)
  PROVE  DictInv'
<1> DEFINE own == Own /\ frame.size = Size(dict)
<1> /\ frame.call /\ frame.op = "intersect" /\ map' = Assign(map, Result(v)) /\ Lose(own)
    /\ frame.size = Size(dict) => dict' = SetValue(dict, frame.slot, v)
    /\ frame' = [frame EXCEPT !.slot = @ + 1, !.call = FALSE, !.did = {}]
  BY DEF ReturnIntersect, Returning
<1>2. own \in BOOLEAN
  BY DEF Own, Occupied
<1>3. Idle(frame')
  BY WaitsNow, NextIdle
<1>4. ASSUME own
      PROVE  Good(dict', frame', map')
  <2>1. IsDict(dict', map') /\ Size(dict') <= MaxSize
    BY <1>4, OwnValue
  <2> QED
    BY <2>1, <1>3, IdleGood
<1>5. ~ own => /\ frame.op \notin {"none", "get", "ensure"} /\ frame.did # {}
               /\ frame.op = "getOrPut" => "remove" \in frame.did
  BY NotOwn
<1> HIDE DEF own
<1> QED
  BY <1>2, <1>4, <1>5, Lost1

\* keep! removes the entry that its function rejects.
LEMMA KeepStep ==
  ASSUME Whole, Good(dict, frame, map), NEW truthy \in BOOLEAN, ReturnKeep(truthy)
  PROVE  DictInv'
<1> DEFINE own == truthy \/ Own
<1> /\ frame.call /\ frame.op = "keep" /\ Lose(own)
    /\ truthy => dict' = dict /\ map' = map
    /\ ~ truthy => dict' = Delete(dict, frame.slot) /\ map' = Except(map, {frame.key})
    /\ frame' = [frame EXCEPT !.slot = @ + 1, !.call = FALSE, !.did = {}]
  BY DEF ReturnKeep, Returning
<1>2. own \in BOOLEAN
  BY DEF Own
<1>3. Idle(frame')
  BY WaitsNow, NextIdle
<1>4. own => Good(dict', frame', map')
  <2>1. ASSUME truthy
        PROVE  IsDict(dict', map') /\ Size(dict') <= MaxSize
    BY <2>1, WaitsNow
  <2>2. ASSUME ~ truthy, Own
        PROVE  IsDict(dict', map') /\ Size(dict') <= MaxSize
    BY <2>2, OwnDelete
  <2> QED
    BY <2>1, <2>2, <1>3, IdleGood
<1>5. ~ own => /\ frame.op \notin {"none", "get", "ensure"} /\ frame.did # {}
               /\ frame.op = "getOrPut" => "remove" \in frame.did
  BY NotOwn
<1> HIDE DEF own
<1> QED
  BY <1>2, <1>4, <1>5, Lost1

\* subtract removes the entry.
LEMMA SubtractStep ==
  ASSUME Whole, Good(dict, frame, map), ReturnSubtract
  PROVE  DictInv'
<1> /\ frame.call /\ frame.op = "subtract" /\ Lose(Own)
    /\ dict' = Delete(dict, frame.slot) /\ map' = Except(map, {frame.key})
    /\ frame' = [frame EXCEPT !.u = Tail(@), !.call = FALSE, !.did = {}]
  BY DEF ReturnSubtract, Returning
<1>2. Own \in BOOLEAN
  BY DEF Own
<1>3. Idle(frame')
  <2>1. frame.u # <<>>
    BY WaitsNow DEF Waits
  <2> QED
    BY <2>1, WaitsNow, NextIdle
<1>4. Own => Good(dict', frame', map')
  <2>1. Own => IsDict(dict', map') /\ Size(dict') <= MaxSize
    BY OwnDelete
  <2> QED
    BY <2>1, <1>3, IdleGood
<1>5. ~ Own => /\ frame.op \notin {"none", "get", "ensure"} /\ frame.did # {}
               /\ frame.op = "getOrPut" => "remove" \in frame.did
  BY NotOwn
<1> QED
  BY <1>2, <1>4, <1>5, Lost1

\* Between two callbacks of a method.
LEMMA StillIdle ==
  ASSUME Good(dict, frame, map), ~ frame.call
  PROVE  Idle(frame) /\ frame \in Frames /\ IsDict(dict, map) /\ Size(dict) <= MaxSize
BY DEF Good, FrameOK, Idle

\* The fields of a frame that is given by them.
HasFields(g, op, key, slot, size, u, call, did) ==
  /\ g.op = op /\ g.key = key /\ g.slot = slot /\ g.size = size /\ g.u = u /\ g.call = call
  /\ g.did = did

\* Each field of such a frame.
LEMMA FieldsOf ==
  ASSUME NEW g, NEW op, NEW key, NEW slot, NEW size, NEW u, NEW call, NEW did,
         g = AFrame(op, key, slot, size, u, call, did)
  PROVE  HasFields(g, op, key, slot, size, u, call, did)
<1>1. g.op = op /\ g.key = key /\ g.slot = slot /\ g.size = size
  BY SMT DEF AFrame
<1>2. g.u = u /\ g.call = call /\ g.did = did
  BY SMT DEF AFrame
<1> QED
  BY <1>1, <1>2 DEF HasFields

\* A method calls back with the key of a slot.
LEMMA ScanCalls ==
  ASSUME NEW f \in Frames, Idle(f), NEW k \in Keys, NEW i \in Int,
         f.op \in {"keep", "intersect", "subtract"}, f.op = "subtract" => f.u # <<>>,
         NEW d, NEW m, IsDict(d, m), Size(d) <= MaxSize, Occupied(d, i), d.items[i].k = k,
         NEW n \in Nat, f.op = "intersect" => n = Size(d),
         NEW g, g = AFrame(f.op, k, i, n, f.u, TRUE, f.did)
  PROVE  Good(d, g, m)
<1>1. /\ f.op \in Methods \cup {"none"} /\ f.u \in Seq(Pair)
      /\ f.did \in SUBSET {"add", "remove"}
  BY FrameFields
<1> PICK t : t = TRUE
  OBVIOUS
<1>3. g = AFrame(f.op, k, i, n, f.u, t, f.did)
  OBVIOUS
<1>4. k \in Keys \cup {NoKey} /\ t \in BOOLEAN
  OBVIOUS
<1>5. AFrame(f.op, k, i, n, f.u, t, f.did) \in Frames
  BY <1>1, <1>4, FrameOf
<1>6. g \in Frames
  BY <1>3, <1>5
<1> g.op = f.op /\ g.key = k /\ g.slot = i /\ g.size = n /\ g.u = f.u /\ g.call = t /\ g.did = f.did
  <2>1. HasFields(g, f.op, k, i, n, f.u, t, f.did)
    BY <1>3, FieldsOf
  <2> QED
    BY <2>1 DEF HasFields
<1>8. Owns(d, g)
  BY DEF Owns
<1>9. f.op \in Methods /\ f.op # "getOrPut" /\ f.op # "merge"
  BY SMT DEF Methods
<1>10. Waits(d, g, m)
  BY <1>8, <1>9 DEF Waits
<1> QED
  BY <1>6, <1>10 DEF Good, FrameOK

\* The loop over the slots keeps the invariant.
LEMMA ScanSlotStep ==
  ASSUME Whole, Good(dict, frame, map), ScanSlot
  PROVE  DictInv'
<1> DEFINE i == frame.slot
           k == dict.items[i].k
<1> frame.op \in {"keep", "intersect"} /\ ~ frame.call /\ lost' = lost
  BY DEF ScanSlot, Scanning, Keep
<1> Idle(frame) /\ frame \in Frames /\ IsDict(dict, map) /\ Size(dict) <= MaxSize
  BY StillIdle
<1>3. IsRead(dict, map)
  BY DictReads
<1>4. \/ frame' = NoFrame /\ dict' = dict /\ map' = map
      \/ frame' = [frame EXCEPT !.slot = i + 1] /\ dict' = dict /\ map' = map
      \/ /\ Occupied(dict, i) /\ dict' = Delete(dict, i) /\ map' = Except(map, {k}) /\ frame' = frame
      \/ /\ Occupied(dict, i) /\ frame' = [frame EXCEPT !.key = k, !.size = Size(dict), !.call = TRUE]
         /\ dict' = dict /\ map' = map
  BY DEF ScanSlot, Done
<1> CASE frame' = NoFrame /\ dict' = dict /\ map' = map
  <2>1. Idle(frame')
    BY NoFrameIdle
  <2>2. IsDict(dict', map') /\ Size(dict') <= MaxSize
    OBVIOUS
  <2> QED
    BY <2>1, <2>2, IdleStep
<1> CASE frame' = [frame EXCEPT !.slot = i + 1] /\ dict' = dict /\ map' = map
  <2>1. Idle(frame')
    BY NextIdle
  <2>2. IsDict(dict', map') /\ Size(dict') <= MaxSize
    OBVIOUS
  <2> QED
    BY <2>1, <2>2, IdleStep
<1> CASE Occupied(dict, i) /\ dict' = Delete(dict, i) /\ map' = Except(map, {k}) /\ frame' = frame
  <2>1. i \in Full(dict)
    BY <1>3 DEF IsRead
  <2>2. IsGone(dict, dict', map, i)
    BY <2>1, DeleteAny
  <2>3. IsDict(dict', map') /\ Size(dict') <= MaxSize
    BY <2>2 DEF IsGone
  <2>4. Idle(frame')
    OBVIOUS
  <2> QED
    BY <2>3, <2>4, IdleStep
<1> CASE /\ Occupied(dict, i) /\ frame' = [frame EXCEPT !.key = k, !.size = Size(dict), !.call = TRUE]
         /\ dict' = dict /\ map' = map
  <2>1. i \in Full(dict) /\ i \in Int /\ k \in Keys /\ Size(dict) \in Nat
    <3>1. i \in Full(dict)
      BY <1>3 DEF IsRead
    <3>2. k \in Keys
      BY <3>1, SetIsPut
    <3>3. i \in Int
      BY FrameFields
    <3>4. Size(dict) \in Nat
      BY <1>3 DEF IsRead
    <3> QED
      BY <3>1, <3>2, <3>3, <3>4
  <2>2. [frame EXCEPT !.key = k, !.size = Size(dict), !.call = TRUE]
          = AFrame(frame.op, k, i, Size(dict), frame.u, TRUE, frame.did)
    <3>1. PICK a, b, n : a = k /\ b = TRUE /\ n = Size(dict)
      OBVIOUS
    <3>2. [frame EXCEPT !.key = a, !.size = n, !.call = b] = AFrame(frame.op, a, i, n, frame.u, b, frame.did)
      BY WithKey
    <3> QED
      BY <3>1, <3>2
  <2>3. frame.op # "subtract" /\ frame.op \in {"keep", "intersect", "subtract"}
    BY SMT
  <2>4. PICK g : g = frame'
    OBVIOUS
  <2>5. g = AFrame(frame.op, k, i, Size(dict), frame.u, TRUE, frame.did)
    BY <2>2, <2>4
  <2>6. Good(dict, g, map)
    BY <2>1, <2>3, <2>5, ScanCalls
  <2>7. Good(dict', frame', map')
    BY <2>4, <2>6
  <2> QED
    BY <2>7, Kept1
<1> QED
  BY <1>4

\* The loop over the entries of the other dict keeps the invariant.
LEMMA ScanEntryStep ==
  ASSUME Whole, Good(dict, frame, map), ScanEntry
  PROVE  DictInv'
<1> DEFINE k == Head(frame.u).k
           i == FindSpot(dict, k)
<1> frame.op = "subtract" /\ ~ frame.call /\ lost' = lost /\ dict' = dict /\ map' = map
  BY DEF ScanEntry, Scanning, Keep
<1> Idle(frame) /\ frame \in Frames /\ IsDict(dict, map) /\ Size(dict) <= MaxSize
  BY StillIdle
<1>3. IsDict(dict', map') /\ Size(dict') <= MaxSize
  OBVIOUS
<1>4. CASE frame.u = <<>>
  <2>1. frame' = NoFrame
    BY <1>4 DEF ScanEntry, Done
  <2> QED
    BY <2>1, <1>3, NoFrameIdle, IdleStep
<1> CASE frame.u # <<>> /\ ~ Has(dict, k)
  <2>1. frame' = [frame EXCEPT !.u = Tail(@)]
    BY DEF ScanEntry
  <2>2. Idle(frame')
    BY <2>1, NextIdle
  <2> QED
    BY <2>2, <1>3, IdleStep
<1> CASE frame.u # <<>> /\ Has(dict, k)
  <2>1. frame' = [frame EXCEPT !.key = k, !.slot = i, !.call = TRUE]
    BY DEF ScanEntry
  <2>2. k \in Keys
    <3>1. frame.u \in Seq(Pair)
      BY FrameFields
    <3>2. Head(frame.u) \in Pair
      BY <3>1, SMT
    <3> QED
      BY <3>2, PairIs
  <2>3. IsRead(dict, map)
    BY DictReads
  <2>4. i \in Full(dict) /\ dict.items[i].k = k /\ Occupied(dict, i)
    BY <2>2, <2>3 DEF IsRead
  <2>5. i \in Int
    <3>1. Size(dict) \in Nat /\ dict \in Tables(Size(dict))
      BY <2>3 DEF IsRead
    <3>2. i \in Spots(Size(dict))
      BY <3>1, <2>4, FullFacts
    <3> QED
      BY <3>2, SMT DEF Spots
  <2>6. [frame EXCEPT !.key = k, !.slot = i, !.call = TRUE]
          = AFrame(frame.op, k, i, frame.size, frame.u, TRUE, frame.did)
    <3>1. PICK a, b, c : a = k /\ b = TRUE /\ c = i
      OBVIOUS
    <3>2. [frame EXCEPT !.key = a, !.slot = c, !.call = b]
            = AFrame(frame.op, a, c, frame.size, frame.u, b, frame.did)
      BY WithKeySlot
    <3> QED
      BY <3>1, <3>2
  <2>7. frame.op \in {"keep", "intersect", "subtract"}
    BY SMT
  <2>8. PICK g : g = frame'
    OBVIOUS
  <2>9. g = AFrame(frame.op, k, i, frame.size, frame.u, TRUE, frame.did)
    BY <2>1, <2>6, <2>8
  <2>12. frame.size \in Nat /\ frame.op # "intersect"
    BY FrameFields
  <2> HIDE DEF k, i
  <2>10. Good(dict, g, map)
    BY <2>2, <2>4, <2>5, <2>7, <2>9, <2>12, ScanCalls
  <2>11. Good(dict', frame', map')
    BY <2>8, <2>10
  <2> QED
    BY <2>11, Kept1
<1> QED
  BY <1>4

\* Every step keeps the invariant.
LEMMA DictSteps == DictInv /\ [DictNext]_dictVars => DictInv'
<1> SUFFICES ASSUME DictInv, [DictNext]_dictVars
             PROVE  DictInv'
  OBVIOUS
<1> CASE ~ Whole
  <2>1. lost' = lost
    BY LostStays
  <2> QED
    BY <2>1 DEF DictInv, Whole, CallbacksThatLose
<1> CASE Whole
  <2> Good(dict, frame, map)
    BY DEF DictInv
  <2>2. CASE UNCHANGED dictVars
    <3>1. dict' = dict /\ frame' = frame /\ map' = map /\ lost' = lost
      BY <2>2 DEF dictVars
    <3>2. Good(dict', frame', map')
      BY <3>1
    <3> QED
      BY <3>1, <3>2, Kept1
  <2>3. ASSUME NEW k \in Keys, DictRemove(k) \/ CallMerge(k)
        PROVE  DictInv'
    BY <2>3, RemoveStep, CallMergeStep
  <2>4. ASSUME NEW k \in Keys, NEW v \in Given, DictPut(k, v)
        PROVE  DictInv'
    BY <2>4, PutStep
  <2>5. ASSUME NEW i \in 0 .. dict.count - 1, DictPop(i)
        PROVE  DictInv'
    BY <2>5, PopStep
  <2>6. CASE DictClear
    BY <2>6, ClearStep
  <2>7. ASSUME NEW m \in Arguments, DictUpdate(m) \/ DictSubtract(m) \/ DictIntersect(m)
        PROVE  DictInv'
    BY <2>7, ArgumentStep
  <2>8. ASSUME NEW op \in Methods, NEW k \in Keys, CallDefault(op, k)
        PROVE  DictInv'
    BY <2>8, CallDefaultStep
  <2>9. ASSUME NEW op \in Methods, NEW m \in Arguments, Begin(op, m)
        PROVE  DictInv'
    BY <2>9, BeginStep
  <2>10. ASSUME NEW v \in Results, \/ ReturnGet(v) \/ ReturnEnsure(v) \/ ReturnGetOrPut(v)
                                   \/ ReturnMerge(v) \/ ReturnIntersect(v)
         PROVE  DictInv'
    BY <2>10, GetStep, GetOrPutStep, MergeStep, IntersectStep
  <2>11. CASE ScanSlot \/ ScanEntry \/ ReturnSubtract
    BY <2>11, ScanSlotStep, ScanEntryStep, SubtractStep
  <2>12. ASSUME NEW truthy \in BOOLEAN, ReturnKeep(truthy)
         PROVE  DictInv'
    BY <2>12, KeepStep
  <2> QED
    BY <2>2, <2>3, <2>4, <2>5, <2>6, <2>7, <2>8, <2>9, <2>10, <2>11, <2>12 DEF DictNext
<1> QED
  OBVIOUS

-----------------------------------------------------------------------------
(* The theorems *)

\* The links, the list and the counters of a Dict.
WellLinked(d) ==
  /\ d.last \in SlotOrNull(d) /\ {d.count, d.tombs} \subseteq Int
  /\ \A i \in DOMAIN d.items : {d.items[i].prev, d.items[i].next} \subseteq SlotOrNull(d)
  /\ Range(Slots(d)) = Full(d) /\ Len(Slots(d)) = Cardinality(Full(d))
  /\ Len(Backwards(d)) = Len(Slots(d))
  /\ \A n \in 1 .. Len(Backwards(d)) : Backwards(d)[n] = Slots(d)[Len(Slots(d)) - n + 1]
  /\ d.count = Cardinality(Full(d)) /\ d.tombs = Cardinality(Graves(d))

\* The links of a table lead to its slots.
LEMMA LinksLead ==
  ASSUME NEW n \in Nat, NEW d \in Tables(n)
  PROVE  /\ d.last \in SlotOrNull(d) /\ {d.count, d.tombs} \subseteq Int
         /\ \A i \in DOMAIN d.items : {d.items[i].prev, d.items[i].next} \subseteq SlotOrNull(d)
<1>1. /\ DOMAIN d.items = Spots(n) /\ d.last \in Link0(n) /\ d.count \in Int /\ d.tombs \in Int
      /\ \A i \in Spots(n) : d.items[i].prev \in Link0(n) /\ d.items[i].next \in Link0(n)
  BY TableFacts
<1>2. SlotOrNull(d) = Link0(n)
  BY <1>1 DEF SlotOrNull, Link0
<1> QED
  BY <1>1, <1>2

\* Every Dict is well linked.
LEMMA DictLinked ==
  ASSUME NEW d, NEW m, IsDict(d, m)
  PROVE  WellLinked(d)
<1>1. CASE d = EmptyTable(0)
  <2>1. IsNew(d)
    BY <1>1, NewIs
  <2>2. /\ d \in Tables(0) /\ Full(d) = {} /\ Graves(d) = {} /\ d.count = 0 /\ d.tombs = 0
        /\ Slots(d) = <<>> /\ Backwards(d) = <<>>
    BY <2>1 DEF IsNew
  <2>3. Cardinality({}) = 0
    BY FS_EmptySet
  <2>4. Len(<<>>) = 0 /\ Range(<<>>) = {} /\ 1 .. 0 = {} /\ 0 \in Nat
    BY SMT DEF Range
  <2>5. /\ d.last \in SlotOrNull(d) /\ {d.count, d.tombs} \subseteq Int
        /\ \A i \in DOMAIN d.items : {d.items[i].prev, d.items[i].next} \subseteq SlotOrNull(d)
    BY <2>2, <2>4, LinksLead
  <2> QED
    BY <2>2, <2>3, <2>4, <2>5 DEF WellLinked
<1>2. CASE \E n \in Sizes : \E s : Holds(d, n, s, m)
  <2> PICK n \in Sizes : \E s : Holds(d, n, s, m)
    BY <1>2
  <2>1. PICK s : Holds(d, n, s, m)
    BY SMT
  <2> /\ n \in Nat /\ d \in Tables(n) /\ ListOf(d, n, s) /\ Rep(d, n, s)
      /\ d.count = Len(s) /\ d.tombs = Cardinality(Graves(d)) /\ d.count = Cardinality(Full(d))
    BY <2>1, HoldsFacts DEF Holds
  <2>3. IsWalked(d, s, m)
    BY <2>1, SlotsAre
  <2>4. Slots(d) = s /\ Backwards(d) = Rev(s)
    BY <2>3 DEF IsWalked
  <2>5. s \in Seq(Spots(n)) /\ Range(s) = Full(d)
    BY DEF ListOf
  <2>6. Len(Rev(s)) = Len(s) /\ \A j \in 1 .. Len(s) : Rev(s)[j] = s[Len(s) - j + 1]
    BY <2>5, RevIs
  <2>7. /\ d.last \in SlotOrNull(d) /\ {d.count, d.tombs} \subseteq Int
        /\ \A i \in DOMAIN d.items : {d.items[i].prev, d.items[i].next} \subseteq SlotOrNull(d)
    BY LinksLead
  <2> QED
    BY <2>4, <2>5, <2>6, <2>7 DEF WellLinked
<1> QED
  BY <1>1, <1>2 DEF IsDict

\* The invariant gives each of the properties.
LEMMA InvProbesEnd == DictInv => ProbesEnd
<1> SUFFICES ASSUME DictInv, Whole, Size(dict) > 0
             PROVE  \E i \in DOMAIN dict.items : dict.items[i].k = NoKey
  BY DEF ProbesEnd
<1>1. IsRead(dict, map)
  BY DictReads DEF DictInv, Good
<1>2. Size(dict) \in Nat
  BY <1>1 DEF IsRead
<1>3. Size(dict) # 0
  BY <1>2, SMT
<1>4. Free(dict) # {}
  BY <1>1, <1>3 DEF IsRead
<1> QED
  BY <1>4 DEF Free

\* find_spot finds the keys.
LEMMA InvKeysAreFound == DictInv => KeysAreFound
<1> SUFFICES ASSUME DictInv, Whole, NEW i \in Filled
             PROVE  FindSpot(dict, dict.items[i].k) = i
  BY DEF KeysAreFound
<1>1. IsRead(dict, map)
  BY DictReads DEF DictInv, Good
<1>2. i \in Full(dict)
  BY DEF Filled, Full
<1> QED
  BY <1>1, <1>2 DEF IsRead

\* The list is the table.
LEMMA InvListIsTable == DictInv => (Whole => ListIsTable)
<1> SUFFICES ASSUME DictInv, Whole
             PROVE  ListIsTable
  OBVIOUS
<1> IsDict(dict, map) /\ Size(dict) <= MaxSize /\ frame.op \in Methods \cup {"none"}
  <2>1. Good(dict, frame, map)
    BY DEF DictInv
  <2>2. frame \in Frames
    BY <2>1 DEF Good, FrameOK
  <2> QED
    BY <2>1, <2>2, SMT DEF Good, Frames
<1>2. IsRead(dict, map)
  BY DictReads
<1>3. Size(dict) \in {0} \cup {INITIAL_SIZE * 2^p : p \in 0 .. MaxSize}
  <2>1. Size(dict) \in Nat /\ (Size(dict) # 0 => Size(dict) \in Sizes)
    BY <1>2 DEF IsRead
  <2>2. MaxSize \in Nat
    BY DictAssumption
  <2>3. ASSUME Size(dict) # 0
        PROVE  \E p \in 0 .. MaxSize : Size(dict) = INITIAL_SIZE * 2^p
    <3>1. PICK p \in Nat : p <= Size(dict) /\ Size(dict) = INITIAL_SIZE * 2^p
      BY <2>1, <2>3 DEF Sizes
    <3>2. p \in 0 .. MaxSize
      BY <3>1, <2>1, <2>2, SMT
    <3> QED
      BY <3>1, <3>2
  <2> QED
    BY <2>3
<1>4. WellLinked(dict)
  BY DictLinked
<1>5. Filled = Full(dict) /\ {i \in DOMAIN dict.items : dict.items[i].k = Tombstone} = Graves(dict)
  BY DEF Filled, Full, Graves
<1>6. DictTypeOK
  BY <1>3, <1>4 DEF DictTypeOK, WellLinked
<1> QED
  BY <1>4, <1>5, <1>6 DEF ListIsTable, WellLinked

\* The entries are those of the ordered map.
LEMMA InvIsOrderedMap == DictInv => IsOrderedMap
<1> SUFFICES ASSUME DictInv, Whole
             PROVE  Entries(dict) = map
  BY DEF IsOrderedMap
<1>1. IsRead(dict, map)
  BY DictReads DEF DictInv, Good
<1> QED
  BY <1>1 DEF IsRead

\* The invariant of Dict is inductive: dict.c keeps it in every method, and in every
\* change that the program makes while a method waits for its callback.
THEOREM DictKeepsInv == DictSpec => []DictInv
<1> QED
  BY DictStarts, DictSteps, PTL DEF DictSpec

\* find_spot always ends: a table in use has an empty slot, however many removals have
\* left tombstones in it.
THEOREM DictProbesEnd == DictSpec => []ProbesEnd
BY DictKeepsInv, InvProbesEnd, PTL

\* find_spot finds every key of the table in its own slot, after any puts, removals,
\* robin-hood swaps and rehashes.
THEOREM DictKeysAreFound == DictSpec => []KeysAreFound
BY DictKeepsInv, InvKeysAreFound, PTL

\* As long as no method went on with a slot not its own, the linked list runs through
\* exactly the occupied slots, the same way in both directions, and count and tombs
\* agree with the slots.
THEOREM DictListIsTable == DictSpec => [](Whole => ListIsTable)
BY DictKeepsInv, InvListIsTable, PTL

\* A method that calls back goes on with a slot not its own only when the callback
\* changed the dict, getOrPutWith only when it removed a key, a default never.
THEOREM DictCallbacksThatLose == DictSpec => []CallbacksThatLose
<1>1. DictInv => CallbacksThatLose
  BY DEF DictInv
<1> QED
  BY <1>1, DictKeepsInv, PTL

\* The table, its list, its rehashes and its removals implement the ordered map: an
\* iteration sees the entries that the same methods make of a sequence.
THEOREM DictIsOrderedMap == DictSpec => []IsOrderedMap
BY DictKeepsInv, InvIsOrderedMap, PTL

=============================================================================
