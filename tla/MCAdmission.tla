----------------------------- MODULE MCAdmission -----------------------------
(* Admission with sets small enough to explore exhaustively.               *)
EXTENDS Admission, TLC

\* A grant that ends, and one that starts later and does not.
MCDates == {<<1, 2>>, <<3, None>>}

Symmetry == Permutations(Request) \cup Permutations(Slot)

=============================================================================
