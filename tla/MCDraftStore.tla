---------------------------- MODULE MCDraftStore ----------------------------
(* DraftStore with sets small enough to explore exhaustively.              *)
EXTENDS DraftStore, TLC

\* Requests of one kind are interchangeable, and so are pages.
Symmetry == Permutations(Writer) \cup Permutations(Page)

=============================================================================
