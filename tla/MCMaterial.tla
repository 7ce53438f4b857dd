------------------------------ MODULE MCMaterial ------------------------------
EXTENDS Material, TLC

\* A picture for the site, and a document that is just to be read.
MCUploads == {[site |-> TRUE, text |-> FALSE], [site |-> FALSE, text |-> TRUE]}
OpSymmetry == Permutations(Op)
=============================================================================
