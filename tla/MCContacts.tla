------------------------------ MODULE MCContacts ------------------------------
(* Contacts with sets small enough to explore exhaustively.                *)
EXTENDS Contacts, TLC

Symmetry == Permutations(Request) \cup Permutations(Address) \cup Permutations(Text)

=============================================================================
