----------------------------- MODULE MCDraftMemo -----------------------------
(* DraftMemo with sets small enough to explore exhaustively.               *)
EXTENDS DraftMemo, TLC

\* Isolates are interchangeable, and so are loads.
Symmetry == Permutations(Isolate) \cup Permutations(Loader)

=============================================================================
