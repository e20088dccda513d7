---------------------------- MODULE QueueResults ----------------------------
(***************************************************************************)
(* What a method of a queue answers: the queue itself, a value, Some(v) or *)
(* None from the try variants, a count, a Boolean, an array, or the error  *)
(* raised by bP("empty queue").                                            *)
(***************************************************************************)
NoResult == <<"none yet">>
Self     == <<"self">>
Panic    == <<"panic">>
None     == <<"None">>
Ok(v)    == <<"value", v>>
Some(v)  == <<"Some", v>>
Count(n) == <<"count", n>>
Flag(b)  == <<"flag", b>>
Array(s) == <<"array", s>>
=============================================================================
