------------------------ MODULE MC_PostCommitQueue ------------------------
(***************************************************************************)
(* Instances of PostCommitQueue for TLC.  Sessions are interchangeable.    *)
(***************************************************************************)
EXTENDS PostCommitQueue, TLC

Symmetry == Permutations(Sessions)
=============================================================================
