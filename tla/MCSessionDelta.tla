---------------------------- MODULE MCSessionDelta ----------------------------
(* SessionDelta with sets small enough to explore exhaustively.            *)
EXTENDS SessionDelta, TLC

Symmetry == Permutations(Doc) \cup Permutations(Turn) \cup Permutations(Build)

=============================================================================
