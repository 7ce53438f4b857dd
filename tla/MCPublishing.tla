---------------------------- MODULE MCPublishing ----------------------------
(* Publishing with sets small enough to explore exhaustively.              *)
EXTENDS Publishing, TLC

\* Publishes are interchangeable.
Symmetry == Permutations(Publisher)

=============================================================================
