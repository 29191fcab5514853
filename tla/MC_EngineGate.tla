--------------------------- MODULE MC_EngineGate ---------------------------
(***************************************************************************)
(* Instances of EngineGate for TLC.  The calls of one kind are             *)
(* interchangeable; symmetry is used by the safety runs only.              *)
(***************************************************************************)
EXTENDS EngineGate, TLC

Symmetry == Permutations(UserTurns) \cup Permutations(Jobs)
=============================================================================
