-------------------------------- MODULE Queue -------------------------------
(***************************************************************************)
(* Queue (src/queue.c): the methods of one queue object, called one after  *)
(* the other by the thread that owns it.  push and pushFront take several  *)
(* arguments and move them in one loop iteration at a time; the other      *)
(* methods are one step.                                                   *)
(***************************************************************************)
EXTENDS QueueOps, QueueResults

CONSTANTS MaxLen,    \* bound: elements in the queue and on their way into it
          MaxArgs    \* bound: arguments of one push or pushFront

ASSUME QueueBounds == MaxLen \in Nat /\ MaxArgs \in Nat

VARIABLES q,        \* the ring
          method,   \* the call in progress: "none", "push" or "pushFront"
          args,     \* its arguments that are not in the queue yet
          result    \* what the last call answered

vars == <<q, method, args, result>>

ArgLists == UNION {[1 .. n -> Value] : n \in 1 .. MaxArgs}

Init == /\ q = QueueNew
        /\ method = "none"
        /\ args = <<>>
        /\ result = NoResult

Idle  == method = "none"
Empty == QueueCount(q) = 0

-----------------------------------------------------------------------------
Call(m) == /\ Idle
           /\ \E a \in ArgLists : /\ QueueCount(q) + Len(a) <= MaxLen
                                  /\ args' = a
           /\ method' = m
           /\ UNCHANGED <<q, result>>

\* The loop is over once it has consumed its last argument.
LoopEnd == IF Len(args) = 1 THEN method' = "none" /\ result' = Self
                            ELSE UNCHANGED <<method, result>>

\* queue_push: from the first argument to the last.
PushCall == Call("push")
PushStep == /\ method = "push"
            /\ q' = PushBackOne(q, Head(args))
            /\ args' = Tail(args)
            /\ LoopEnd

\* queue_push_front: from the last argument to the first.
PushFrontCall == Call("pushFront")
PushFrontStep == /\ method = "pushFront"
                 /\ q' = PushFrontOne(q, args[Len(args)])
                 /\ args' = SubSeq(args, 1, Len(args) - 1)
                 /\ LoopEnd

\* A removal: refuse is the answer on an empty queue.
Remove(refuse, answer, rest) ==
  /\ Idle
  /\ IF Empty THEN result' = refuse /\ q' = q
              ELSE result' = answer /\ q' = rest
  /\ UNCHANGED <<method, args>>

Pop        == Remove(Panic, Ok(Front(q)), PopFront(q))
PopLast    == Remove(Panic, Ok(Back(q)), PopBack(q))
TryPop     == Remove(None,  Some(Front(q)), PopFront(q))
TryPopLast == Remove(None,  Some(Back(q)), PopBack(q))

Peek        == Remove(Panic, Ok(Front(q)), q)
PeekBack    == Remove(Panic, Ok(Back(q)), q)
TryPeek     == Remove(None,  Some(Front(q)), q)
TryPeekBack == Remove(None,  Some(Back(q)), q)

Read(r)  == Idle /\ result' = r /\ UNCHANGED <<q, method, args>>
QLen     == Read(Count(QueueCount(q)))
QEmpty   == Read(Flag(Empty))
ToArray  == Read(Array(Elements(q)))

Clear == /\ Idle
         /\ q' = QueueClear(q)
         /\ result' = Self
         /\ UNCHANGED <<method, args>>

Next == \/ PushCall \/ PushStep \/ PushFrontCall \/ PushFrontStep
        \/ Pop \/ PopLast \/ TryPop \/ TryPopLast
        \/ Peek \/ PeekBack \/ TryPeek \/ TryPeekBack
        \/ QLen \/ QEmpty \/ ToArray \/ Clear

Spec == Init /\ [][Next]_vars

-----------------------------------------------------------------------------
\* Every variable has its type; in particular the ring is one the code can
\* index: head and tail are inside the array and the elements are values.
TypeOK == /\ IsRing(q)
          /\ method \in {"none", "push", "pushFront"}
          /\ args \in Seq(Value)
          /\ (method = "none") <=> (args = <<>>)

\* The queue behaves as the double-ended sequence of its elements: no
\* operation, wrap-around or growth of the array loses, duplicates or
\* reorders an element, and each call answers what that sequence holds.
Abstract == INSTANCE Deque WITH contents <- Elements(q)
DequeSpec == Abstract!Spec
=============================================================================
