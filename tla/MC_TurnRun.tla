----------------------------- MODULE MC_TurnRun -----------------------------
(***************************************************************************)
(* Instances of TurnRun for TLC.                                           *)
(***************************************************************************)
EXTENDS TurnRun
=============================================================================
