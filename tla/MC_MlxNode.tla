----------------------------- MODULE MC_MlxNode -----------------------------
(***************************************************************************)
(* Instances of MlxNode for TLC: prompts of one conversation.              *)
(***************************************************************************)
EXTENDS MlxNode

CONSTANTS p, q, v, t1, t2, t3, t4

Asks(paths, prompt, thinks) == [path : paths, prompt : {prompt}, thinks : thinks]

\* A turn with the model of the configuration; one that switches it, or goes on
\* from the answer; one that switches back, or asks another question in its place.
SomeAsking ==
  LET su == <<"s", "u">> IN
  {t1 :> a @@ t2 :> b @@ t3 :> c :
     a \in Asks({None}, su, {FALSE}),
     b \in Asks({None}, <<"s", "u", "a", "u">>, {FALSE}),
     c \in Asks({None}, <<"s", "v">>, {FALSE})} \cup
  {t1 :> a @@ t2 :> b @@ t3 :> c :
     a \in Asks({None}, su, {FALSE}),
     b \in Asks({q}, su, {FALSE}),
     c \in Asks({None, p}, <<"s", "v">>, {FALSE})} \cup
  {t1 :> a @@ t2 :> b @@ t3 :> c :
     a \in Asks({None}, su, {TRUE}),
     b \in Asks({v}, su, {FALSE}),
     c \in Asks({p}, su, {FALSE})}

\* One that thinks, one that switches the model, one that switches it back and one
\* that asks the same with it.
FourAsking ==
  LET turn(path, thinks) == [path |-> path, prompt |-> <<"s">>, thinks |-> thinks] IN
    {t1 :> turn(None, TRUE) @@ t2 :> turn(q, FALSE) @@ t3 :> turn(p, FALSE) @@ t4 :> turn(None, FALSE)}
=============================================================================
