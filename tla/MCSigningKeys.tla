---------------------------- MODULE MCSigningKeys ----------------------------
(* SigningKeys with sets small enough to explore exhaustively.             *)
EXTENDS SigningKeys, TLC

Symmetry == Permutations(Request)

=============================================================================
