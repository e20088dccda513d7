------------------------------- MODULE Channel ------------------------------
(***************************************************************************)
(* A Channel between isolated threads (src/functions.c), and the transfer  *)
(* of objects from the sender's group to the receiver's: Forget (src/vm.c) *)
(* and GCForget, GCTakeOwnership (src/gc.c).                               *)
(*                                                                         *)
(* Every thread here is alone in its group, so its collections involve no  *)
(* other thread and one collection is one step.  An object has one         *)
(* reference.  An allocation list is a vector: GCForget swaps elements, so *)
(* their order matters.  nsync's condition variable is modelled from its   *)
(* use: a signal wakes one waiter if there is one.                         *)
(***************************************************************************)
EXTENDS Integers, Sequences, FiniteSets, Functions

CONSTANTS Thread, NoThread, Object, NoObject,
          MaxSends   \* bound: values sent

ASSUME ChannelAssumption == /\ IsFiniteSet(Thread) /\ NoThread \notin Thread
                            /\ NoObject \notin Object
                            /\ MaxSends \in Nat

VARIABLES
  roots,      \* the objects on each thread's stack
  field,      \* the reference in each object
  allocs,     \* ty->allocs of each thread
  marked,     \* the objects whose mark is set
  freed,      \* the objects that have been freed
  hard,       \* the objects pinned by NOGC (for the whole run)
  q,          \* chan->q: the values and their allocation lists
  open,       \* chan->open
  at,         \* where each thread is in a channel call
  cv,         \* the value that a send in progress has yet to push
  sends,      \* values sent so far
  holder      \* history: who last received an object as part of a value

heapVars == <<roots, field, allocs, marked, freed, hard>>
chanVars == <<q, open, at, cv, sends, holder>>
vars == <<heapVars, chanVars>>

NoValue == [v |-> NoObject, as |-> <<>>, parts |-> {}]

Born == (UNION {Range(allocs[t]) : t \in Thread}) \cup freed
          \cup (UNION {Range(q[i].as) : i \in DOMAIN q})
          \cup (UNION {Range(cv[t].as) : t \in Thread})

\* The objects reached from S by a traversal that does not go through X.
Reach(S, X) ==
  {o \in Object :
     \A C \in SUBSET Object :
       (S \subseteq C /\ \A x \in C \ X : field[x] \in C \cup {NoObject}) => o \in C}

-----------------------------------------------------------------------------
(* The program *)

Alloc(t) == \E o \in Object \ Born :
              /\ allocs' = [allocs EXCEPT ![t] = Append(@, o)]
              /\ roots' = [roots EXCEPT ![t] = @ \cup {o}]
              /\ UNCHANGED <<field, marked, freed, hard>>

Load(t) == \E x \in roots[t] :
             /\ field[x] # NoObject
             /\ roots' = [roots EXCEPT ![t] = @ \cup {field[x]}]
             /\ UNCHANGED <<field, allocs, marked, freed, hard>>

Store(t) == \E x \in roots[t], v \in roots[t] \cup {NoObject} :
              /\ field' = [field EXCEPT ![x] = v]
              /\ UNCHANGED <<roots, allocs, marked, freed, hard>>

Drop(t) == \E x \in roots[t] :
             /\ roots' = [roots EXCEPT ![t] = @ \ {x}]
             /\ UNCHANGED <<field, allocs, marked, freed, hard>>

\* The sweep of the vector a: what is in K moves up, the rest is freed.
GCSweep(a, K) ==
  LET kept[i \in 0 .. Len(a)] ==
        IF i = 0 THEN <<>>
        ELSE IF a[i] \in K THEN Append(kept[i - 1], a[i]) ELSE kept[i - 1]
  IN  kept[Len(a)]

\* DoGC in a group of one: mark from its own stack, sweep its own list.
DoGC(t) == LET alive == marked \cup Reach(roots[t], marked)
           IN  /\ allocs' = [allocs EXCEPT ![t] = GCSweep(@, alive \cup hard)]
               /\ freed' = freed \cup (Range(allocs[t]) \ (alive \cup hard))
               /\ marked' = alive \ Range(allocs[t])
               /\ UNCHANGED <<roots, field, hard>>

Program(t) == /\ at[t] = "run"
              /\ Alloc(t) \/ Load(t) \/ Store(t) \/ Drop(t) \/ DoGC(t)
              /\ UNCHANGED chanVars

-----------------------------------------------------------------------------
(* send *)

\* GCForget at the i-th element of a vector: a marked or pinned element is
\* exchanged with the last one, which is then cut off.
ForgetAt(a, i, m) ==
  IF i <= a.count /\ a.items[i] \in m
  THEN [items |-> [a.items EXCEPT ![i] = a.items[a.count], ![a.count] = a.items[i]],
        count |-> a.count - 1]
  ELSE a

\* GCForget goes on with the next element, until it comes to the end.
GCForget(a, m) ==
  LET after[i \in 0 .. Len(a)] == IF i = 0 THEN [items |-> a, count |-> Len(a)]
                                 ELSE ForgetAt(after[i - 1], i, m)
  IN  after[Len(a)]

\* Forget: mark from the value, take those objects off the thread's list.
\* What was cut off the vector is still behind its end.  (parts is history: the
\* objects of the value, if they were all the sender's to give away.)
Forget(t, v) ==
  LET m == marked \cup Reach({v}, marked)
      r == GCForget(allocs[t], m \cup hard)
      as == SubSeq(r.items, r.count + 1, Len(r.items))
      whole == Reach({v}, {})
      parts == IF whole \subseteq Range(allocs[t]) THEN whole ELSE {}
  IN  /\ allocs' = [allocs EXCEPT ![t] = SubSeq(r.items, 1, r.count)]
      /\ marked' = m \ Range(as)
      /\ cv' = [cv EXCEPT ![t] = [v |-> v, as |-> as, parts |-> parts]]

Send(t) == /\ at[t] = "run"
           /\ sends < MaxSends
           /\ sends' = sends + 1
           /\ \E v \in roots[t] : Forget(t, v)
           /\ at' = [at EXCEPT ![t] = "push"]
           /\ UNCHANGED <<roots, field, freed, hard, q, open, holder>>

\* Mutant: no signal.
PushUnsignalled(t) == /\ at[t] = "push"
                      /\ q' = Append(q, cv[t])
                      /\ cv' = [cv EXCEPT ![t] = NoValue]
                      /\ at' = [at EXCEPT ![t] = "run"]
                      /\ UNCHANGED <<heapVars, open, sends, holder>>

\* Under chan->m: push.
Push(t) == /\ at[t] = "push"
           /\ q' = Append(q, cv[t])
           /\ cv' = [cv EXCEPT ![t] = NoValue]
           /\ at' = [at EXCEPT ![t] = "signal"]
           /\ UNCHANGED <<heapVars, open, sends, holder>>

\* TyCondVarSignal, after the unlock
Signal(t) == /\ at[t] = "signal"
             /\ \/ \E u \in Thread : /\ at[u] = "waiting"
                                     /\ at' = [at EXCEPT ![t] = "run", ![u] = "recv"]
                \/ /\ \A u \in Thread : at[u] # "waiting"
                   /\ at' = [at EXCEPT ![t] = "run"]
             /\ UNCHANGED <<heapVars, q, open, cv, sends, holder>>

-----------------------------------------------------------------------------
(* recv and close *)

CallRecv(t) == /\ at[t] = "run"
               /\ at' = [at EXCEPT ![t] = "recv"]
               /\ UNCHANGED <<heapVars, q, open, cv, sends, holder>>

\* Under chan->m: wait while the channel is open and empty.
RecvWait(t) == /\ at[t] = "recv"
               /\ open /\ q = <<>>
               /\ at' = [at EXCEPT ![t] = "waiting"]
               /\ UNCHANGED <<heapVars, q, open, cv, sends, holder>>

\* A timed wait runs out, and the loop is left.
TimedOut(t) == /\ at[t] = "waiting"
               /\ at' = [at EXCEPT ![t] = "late"]
               /\ UNCHANGED <<heapVars, q, open, cv, sends, holder>>

\* Nothing there: the channel was closed, or a timed wait ran out.
RecvNone(t) == /\ at[t] \in {"recv", "late"}
               /\ q = <<>>
               /\ ~ open \/ at[t] = "late"
               /\ at' = [at EXCEPT ![t] = "run"]
               /\ UNCHANGED <<heapVars, q, open, cv, sends, holder>>

\* Mutant: does not remove the value.
RecvSomeLeft(t) == /\ at[t] \in {"recv", "late"}
                   /\ q # <<>>
                   /\ UNCHANGED q
                   /\ allocs' = [allocs EXCEPT ![t] = @ \o Head(q).as]
                   /\ roots' = [roots EXCEPT ![t] = @ \cup {Head(q).v}]
                   /\ holder' = [o \in Object |-> IF o \in Head(q).parts THEN t ELSE holder[o]]
                   /\ at' = [at EXCEPT ![t] = "run"]
                   /\ UNCHANGED <<field, marked, freed, hard, open, cv, sends>>

\* Pop the first value and GCTakeOwnership of its objects.
RecvSome(t) == /\ at[t] \in {"recv", "late"}
               /\ q # <<>>
               /\ q' = Tail(q)
               /\ allocs' = [allocs EXCEPT ![t] = @ \o Head(q).as]
               /\ roots' = [roots EXCEPT ![t] = @ \cup {Head(q).v}]
               /\ holder' = [o \in Object |-> IF o \in Head(q).parts THEN t ELSE holder[o]]
               /\ at' = [at EXCEPT ![t] = "run"]
               /\ UNCHANGED <<field, marked, freed, hard, open, cv, sends>>

\* close sets the flag and signals nobody.
Close(t) == /\ at[t] = "run"
            /\ open' = FALSE
            /\ UNCHANGED <<heapVars, q, at, cv, sends, holder>>

-----------------------------------------------------------------------------
Init == /\ roots = [t \in Thread |-> {}]
        /\ field = [o \in Object |-> NoObject]
        /\ allocs = [t \in Thread |-> <<>>]
        /\ marked = {} /\ freed = {}
        /\ hard \in SUBSET Object
        /\ q = <<>> /\ open = TRUE
        /\ at = [t \in Thread |-> "run"]
        /\ cv = [t \in Thread |-> NoValue]
        /\ sends = 0 /\ holder = [o \in Object |-> NoThread]

Step(t) == \/ Program(t) \/ Send(t) \/ Push(t) \/ Signal(t)
           \/ CallRecv(t) \/ RecvWait(t) \/ TimedOut(t) \/ RecvNone(t)
           \/ RecvSome(t) \/ Close(t)

Next == \E t \in Thread : Step(t)

Spec == Init /\ [][Next]_vars

-----------------------------------------------------------------------------
ChanVal == [v : Object \cup {NoObject}, as : Seq(Object), parts : SUBSET Object]

\* The state of the channel and of the heap it moves objects through: every
\* root, field and list holds objects, and recv hands out nothing else.
ChannelTypeOK == /\ roots \in [Thread -> SUBSET Object]
                 /\ field \in [Object -> Object \cup {NoObject}]
                 /\ allocs \in [Thread -> Seq(Object)]
                 /\ marked \subseteq Object /\ freed \subseteq Object /\ hard \subseteq Object
                 /\ q \in Seq(ChanVal)
                 /\ open \in BOOLEAN
                 /\ at \in [Thread -> {"run", "push", "signal", "recv", "waiting", "late"}]
                 /\ cv \in [Thread -> ChanVal]
                 /\ sends \in 0 .. MaxSends
                 /\ holder \in [Object -> Thread \cup {NoThread}]

\* The allocation lists: the threads' own, and those of the messages that are
\* about to be pushed or are in the channel.
Lists == [l \in ({"allocs", "cv"} \X Thread) \cup ({"q"} \X DOMAIN q) |->
            CASE l[1] = "allocs" -> allocs[l[2]]
              [] l[1] = "cv" -> cv[l[2]].as
              [] l[1] = "q" -> q[l[2]].as]

\* No object is twice on the lists L, and no object of F is on one.
Apart(L, F) ==
  /\ \A l \in DOMAIN L : IsInjective(L[l]) /\ Range(L[l]) \cap F = {}
  /\ \A l, k \in DOMAIN L : l # k => Range(L[l]) \cap Range(L[k]) = {}

\* Every object is on one list at most, a thread's or a message's, and a freed
\* object on none: handing objects over (GCForget, GCTakeOwnership) never lets
\* two collectors free the same one.
OwnedOnce == ChannelTypeOK /\ Apart(Lists, freed)

\* The threads that are about to look for a value, or to wake one that does.
Awake == {u \in Thread : at[u] \in {"signal", "recv"}}

\* While a receiver waits in recv there is a wakeup on its way for every value in
\* the channel: the one signal of each send, given after the unlock, is enough,
\* whichever receivers it meets and whichever of them time out meanwhile.
SendWakesReceiver == (\E t \in Thread : at[t] = "waiting") => Len(q) <= Cardinality(Awake)

\* A value that came through a channel, and that was the sender's to give
\* away, stays usable by the thread that received it: no collection frees a
\* part of it that the receiver can still reach.
ReceivedAlive ==
  \A o \in Object, t \in Thread :
    holder[o] = t /\ o \in Reach(roots[t], {}) => o \notin freed
=============================================================================
