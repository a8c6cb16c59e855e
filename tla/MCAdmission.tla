---------------------------- MODULE MCAdmission ----------------------------
\* Gestures on two proposals about two notes.
EXTENDS Admission, TLC

CONSTANTS p1, p2, n1, n2

MCNoteOf == (p1 :> n1) @@ (p2 :> n2)
\* Gestures may be swapped, and the proposals together with their notes.
Swapped == (p1 :> p2) @@ (p2 :> p1) @@ (n1 :> n2) @@ (n2 :> n1)
Kept == [x \in {p1, p2, n1, n2} |-> x]
MCSymmetry == {perm @@ other : perm \in Permutations(Gestures), other \in {Kept, Swapped}}
=============================================================================
