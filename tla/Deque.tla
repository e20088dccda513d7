-------------------------------- MODULE Deque -------------------------------
(***************************************************************************)
(* What a Queue promises: a double-ended sequence whose reads and removals *)
(* at an end answer with the element that is there.                        *)
(***************************************************************************)
EXTENDS Integers, Sequences, QueueResults

CONSTANTS Value

VARIABLES contents,   \* the elements, first one at the front
          result      \* what the last call answered

vars == <<contents, result>>

Init == contents = <<>> /\ result = NoResult

\* One element is added; the call answers once all its arguments are in.
PushBack(v)  == /\ contents' = Append(contents, v)
                /\ result' \in {result, Self}
PushFront(v) == /\ contents' = <<v>> \o contents
                /\ result' \in {result, Self}

\* The form the answer takes depends on the method: a value, or Some(value).
Answer(v) == {Ok(v), Some(v)}

TakeFront == /\ contents # <<>>
             /\ result' \in Answer(Head(contents))
             /\ contents' = Tail(contents)
TakeBack  == /\ contents # <<>>
             /\ result' \in Answer(contents[Len(contents)])
             /\ contents' = SubSeq(contents, 1, Len(contents) - 1)
ReadFront == /\ contents # <<>>
             /\ result' \in Answer(Head(contents))
             /\ UNCHANGED contents
ReadBack  == /\ contents # <<>>
             /\ result' \in Answer(contents[Len(contents)])
             /\ UNCHANGED contents
Refuse    == /\ contents = <<>>
             /\ result' \in {Panic, None}
             /\ UNCHANGED contents

Measure == /\ result' \in {Count(Len(contents)), Flag(contents = <<>>)}
           /\ UNCHANGED contents
Copy    == result' = Array(contents) /\ UNCHANGED contents
Clear   == result' = Self /\ contents' = <<>>

Next == \/ \E v \in Value : PushBack(v) \/ PushFront(v)
        \/ TakeFront \/ TakeBack \/ ReadFront \/ ReadBack \/ Refuse
        \/ Measure \/ Copy \/ Clear

Spec == Init /\ [][Next]_vars
=============================================================================
