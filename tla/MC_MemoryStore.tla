-------------------------- MODULE MC_MemoryStore --------------------------
(***************************************************************************)
(* Instances of MemoryStore for TLC.                                       *)
(***************************************************************************)
EXTENDS MemoryStore

Claim == [kind |-> "claim", value |-> "a"]
Correction == [kind |-> "correction", value |-> "b"]
Health == [kind |-> "health", value |-> "h"]
Episode == [kind |-> "episode", value |-> "e"]

\* A name (only staged once it has been corrected), its correction and an episode.
NameAndEpisode == {Claim, Correction, Episode}
NameAndHealth == {Claim, Health}
=============================================================================
