----------------------------- MODULE PromptCache -----------------------------
(***************************************************************************)
(* plugins/mlx_module/core/prompt_cache_manager.py: the KV caches of the   *)
(* MLX text path, kept by the tokens they were computed from, and what     *)
(* generate_helpers.py makes of the one it finds.                          *)
(*                                                                         *)
(* A cache is a record: the nodes of the trie (a path of the model and a   *)
(* sequence of tokens each, the root left out), the KV of those that hold  *)
(* one, and the order of eviction.  A KV is the model that computed it and *)
(* the tokens it was fed, which are no longer followed once they may be    *)
(* others than the ones it is looked up by ("mixed"): one was fed twice,   *)
(* the first of the answer was in it when it was kept for a prompt, or an  *)
(* answer was kept as the template renders it and not as it was written.   *)
(* The system prompt and the session, which are part of the key too, are   *)
(* the same for all: one conversation.                                     *)
(***************************************************************************)
EXTENDS Integers, FiniteSets, Sequences, SequencesExt

CONSTANTS MaxCaches,   \* NEXE_MLX_MAX_SESSION_CACHES
          Trimmable    \* models whose KV can be trimmed

ASSUME CacheAssumption == MaxCaches \in Nat \ {0}

NoCache == [nodes |-> {}, kv |-> <<>>, lru |-> <<>>]

Held(c) == DOMAIN c.kv

\* The path from the root to an entry.
Branch(k, tokens) == {<<k, SubSeq(tokens, 1, i)>> : i \in 1 .. Len(tokens)}

-----------------------------------------------------------------------------
(* _search() and fetch_nearest_cache().                                    *)

\* How far the trie follows the tokens, and the last node there that holds a KV.
Depth(c, k, tokens) == Max({0} \cup {i \in 1 .. Len(tokens) : <<k, SubSeq(tokens, 1, i)>> \in c.nodes})
LastHeld(c, k, tokens) == Max({0} \cup {i \in 1 .. Depth(c, k, tokens) : <<k, SubSeq(tokens, 1, i)>> \in Held(c)})

\* The shortest entries that go on from where the trie left the tokens.
Longer(c, k, tokens) ==
  LET from == SubSeq(tokens, 1, Depth(c, k, tokens))
      beyond == {e \in Held(c) : e[1] = k /\ IsPrefix(from, e[2])} IN
    {e \in beyond : \A f \in beyond : Len(e[2]) <= Len(f[2])}

\* The last token is always left to be processed.
Common(c, k, tokens) == IF Depth(c, k, tokens) < Len(tokens) THEN Depth(c, k, tokens) ELSE Len(tokens) - 1

\* The KV of a longer entry, with what it has beyond those taken off.
Trimmed(c, e, common) == [c.kv[e] EXCEPT !.of = SubSeq(@, 1, Len(@) - (Len(e[2]) - common))]

Fresh(model) == [by |-> model, of |-> <<>>, mixed |-> FALSE]
Fed(kv, tokens) == IF kv.mixed THEN kv ELSE [kv EXCEPT !.of = @ \o tokens]
Mixed(kv) == [by |-> kv.by, of |-> <<>>, mixed |-> TRUE]

\* lookup_prefix_cache(), determine_tokens_to_process() and the prefill: the KV a
\* generation may work with.  It starts from that of all its tokens (the first is
\* then processed a second time), of the first of them, of more than them,
\* trimmed, or from none.
Prefilled(c, k, tokens, model) ==
  LET last == LastHeld(c, k, tokens)
      from == SubSeq(tokens, 1, last)
      longer == IF last = 0 /\ Depth(c, k, tokens) > 0 THEN Longer(c, k, tokens) ELSE {}
      common == Common(c, k, tokens)
      rest(n) == SubSeq(tokens, n + 1, Len(tokens)) IN
    CASE last = Len(tokens) -> {Mixed(c.kv[<<k, tokens>>])}
      [] last \in 1 .. Len(tokens) - 1 -> {Fed(c.kv[<<k, from>>], rest(last))}
      [] last = 0 /\ longer = {} -> {Fed(Fresh(model), tokens)}
      [] OTHER -> {IF c.kv[e].by \in Trimmable THEN Fed(Trimmed(c, e, common), rest(common))
                                               ELSE Fed(Fresh(model), tokens) : e \in longer}

-----------------------------------------------------------------------------
(* insert_cache().                                                         *)

\* Bug: the nodes that lead nowhere stay.
WithoutAlone(c, e) ==
  [nodes |-> c.nodes, kv |-> [f \in Held(c) \ {e} |-> c.kv[f]], lru |-> RemoveFirst(c.lru, e)]
\* _delete(), with the nodes that lead nowhere any more.
Without(c, e) ==
  LET rest == Held(c) \ {e} IN
  [nodes |-> c.nodes \ {n \in Branch(e[1], e[2]) : \A f \in rest : n \notin Branch(f[1], f[2])},
   kv |-> [f \in rest |-> c.kv[f]],
   lru |-> RemoveFirst(c.lru, e)]

Stored(c, e, kv) ==
  [nodes |-> c.nodes \cup Branch(e[1], e[2]),
   kv |-> [f \in Held(c) \cup {e} |-> IF f \in Held(c) THEN c.kv[f] ELSE kv],
   lru |-> Append(RemoveFirst(c.lru, e), e)]

\* An entry that is there keeps its KV and is counted as new; the least recently
\* inserted one goes.
Insert(c, k, tokens, kv) ==
  LET after == Stored(c, <<k, tokens>>, kv) IN
    IF Len(after.lru) > MaxCaches THEN Without(after, Head(after.lru)) ELSE after
=============================================================================
