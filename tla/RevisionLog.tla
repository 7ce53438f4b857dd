------------------------------ MODULE RevisionLog ------------------------------
(***************************************************************************)
(* What the revision log of one site promises (revision-model.ts and the   *)
(* comments of publish.ts), without saying how: revisions are numbered     *)
(* 1, 2, 3, ...; a revision, once listed, stays listed with the parent it  *)
(* was recorded with; its parent is an older revision; and the draft       *)
(* descends from a revision that exists.  Live is the highest number, so   *)
(* it can only go up.                                                      *)
(***************************************************************************)
EXTENDS Absence, Naturals

CONSTANTS
    MaxRev     \* bound: how many revisions may be published

VARIABLES
    parent,    \* revision number -> its recorded basedOn (0 is null), or None
    base       \* the revision the draft descends from, 0 before any

Published == {i \in 1..MaxRev : parent[i] # None}

Init == parent = [i \in 1..MaxRev |-> None] /\ base = 0

\* Append the next number; every lower one is already there.
Publish ==
    \E id \in 1..MaxRev :
        /\ id \notin Published
        /\ \A j \in 1..(id - 1) : j \in Published
        /\ \E b \in 0..(id - 1) : parent' = [parent EXCEPT ![id] = b]
        /\ UNCHANGED base

\* Publish and checkout re-parent the draft, onto a revision that exists.
Reparent == base' \in Published /\ UNCHANGED parent

Spec == Init /\ [][Publish \/ Reparent]_<<parent, base>>

=============================================================================
