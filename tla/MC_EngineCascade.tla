-------------------------- MODULE MC_EngineCascade --------------------------
(***************************************************************************)
(* Instances of EngineCascade for TLC: one engine of each kind.            *)
(***************************************************************************)
EXTENDS EngineCascade

CONSTANTS mlx, ollama, api

EngineRank == [e \in {mlx, ollama, api} |-> CASE e = mlx -> 1 [] e = ollama -> 2 [] e = api -> 3]

\* Any engine named or none, a preference that names the hosted one, a server
\* with everything or with one engine of its own, a Continue, an image.
EveryRequest ==
  {q \in [door : Doors, engine : {mlx, ollama, api, None}, prefers : {ollama, api, None},
          live : {{mlx, ollama, api}, {ollama}, {mlx}}, resume : BOOLEAN, image : BOOLEAN, gate : BOOLEAN] :
     (q.engine # None => q.prefers = None) /\ (q.engine # api => ~q.gate)}

AskAnything == [t \in Turns |-> EveryRequest]

\* A stream on a server that has MLX alone.
StreamFromMlx ==
  [t \in Turns |->
     {q \in EveryRequest : q.door \in {"stream", "v1stream"} /\ q.engine = mlx /\ q.live = {mlx} /\ ~q.resume /\ ~q.image}]
=============================================================================
