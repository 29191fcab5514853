-------------------------- MODULE MC_Conversation --------------------------
(***************************************************************************)
(* Instances of Conversation for TLC.  Turns are interchangeable.          *)
(***************************************************************************)
EXTENDS Conversation, TLC

Symmetry == Permutations(Turns)
=============================================================================
