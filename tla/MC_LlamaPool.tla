---------------------------- MODULE MC_LlamaPool ----------------------------
(***************************************************************************)
(* Instance of LlamaPool for TLC.                                          *)
(***************************************************************************)
EXTENDS LlamaPool, TLC

CONSTANTS t1, t2, t3, t4, s1, s2, s3, h1, h2, p, q

\* One session with two prompts and any model, two more that keep what is there.
SomeRequests ==
  [session : {s1}, hash : {h1, h2}, model : {None}] \cup
  [session : {s1}, hash : {h1}, model : {p, q}] \cup
  [session : {s2, s3}, hash : {h1}, model : {None}]

TurnSymmetry == Permutations(Turns)
=============================================================================
