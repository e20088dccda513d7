------------------------------ MODULE MCUnwind ------------------------------
(***************************************************************************)
(* Unwind for TLC.                                                         *)
(***************************************************************************)
EXTENDS Unwind

\* A finally block that is entered over and over is not followed for ever.
FewFinallys == \A id \in DOMAIN fin : fin[id] <= 3

\* Nor is a program whose break out of a finally block has left a try behind: from
\* there on CATCH, END_TRY and FINALLY act on the try of another statement.
NoStaleTry == Running => Mirrored

\* Nor one whose match statement has dropped the scope around it: DROP acts on the
\* scope of another block from there on, or on none.
NoBareDrop == "bareDrop" \notin marks

\* Two tries and one resource scope, or two scopes and one try.
FewConstructs == Len(fin) + Len(drops) <= 3

\* And a program does two of the rare things at most.
FewMarks == Cardinality(marks) <= 2

Followed == FewConstructs /\ FewFinallys /\ NoStaleTry /\ NoBareDrop /\ FewMarks

=============================================================================
