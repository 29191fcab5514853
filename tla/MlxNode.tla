------------------------------- MODULE MlxNode -------------------------------
(***************************************************************************)
(* The MLX engine (plugins/mlx_module): one model, loaded when it is first *)
(* needed, one worker thread for all that touches it, and the KV caches of *)
(* PromptCache.  The class keeps the model, the path of its configuration  *)
(* and whether its template opens a <think> block, each read and written   *)
(* from two threads: the worker's, and the event loop's, where another     *)
(* turn's engine step may switch the model at any time, before that turn   *)
(* has a slot (turn_adapters.py:685).                                      *)
(*                                                                         *)
(* A turn runs a probe of the template, if the thinking of its answer must *)
(* be told from the rest, then the generation, then once more without      *)
(* thinking if the answer was all thinking.  A model that reads images     *)
(* ("Vision") is run by another library; its own KV cache, and resumed     *)
(* answers, are left out.  An answer is one token; the messages for the    *)
(* cache are the messages, as no caller gives others.                      *)
(***************************************************************************)
EXTENDS PromptCache

CONSTANTS Turns, Paths,
          Vision,     \* the paths of models that read images
          First,      \* the path of the configuration
          Asking,     \* what turns may ask for: a path, the prompt as it is rendered, thinking
          Reply,      \* the token that stands for an answer
          Quiet,      \* the token a template adds to turn thinking off
          Slots,      \* NEXE_ENGINE_SLOTS
          None,
          Guess       \* what a probe that failed leaves: the template opens nothing

ASSUME NodeAssumption ==
  /\ Asking \subseteq [Turns -> [path : Paths \cup {None}, prompt : Seq(STRING) \ {<<>>}, thinks : BOOLEAN]]
  /\ First \in Paths
  /\ Reply \in STRING /\ Quiet \in STRING
  /\ Vision \cup Trimmable \subseteq Paths
  /\ Slots \in Nat \ {0}
  /\ Guess \notin Paths
  /\ None \notin Paths \cup Turns \cup {Guess}

VARIABLES asks,       \* what each turn asks for
          at,         \* where it is
          sees,       \* turns that go to the library of the models that see
          config,     \* MLXChatNode._config, its path
          model,      \* MLXChatNode._model, the path it was loaded from
          tokenizer,  \* MLXChatNode._tokenizer, likewise: a switch leaves it
          think,      \* _template_think_prefix: the path of the template probed
          loop,       \* what the event loop is in the middle of, and for which turn
          queue,      \* what _MLX_EXECUTOR has not begun
          job,        \* what its thread works on
          step,       \* how far
          loading,    \* the path it loads
          hand,       \* the model it works with
          key,        \* the path its KV is kept under
          kv,         \* the KV it works with
          cache,      \* the prompt caches
          overtaken,  \* turns under way when another switched the model (history)
          raced       \* the last switch met a load or a probe (history)

turnVars == <<asks, at, sees>>
nodeVars == <<config, model, tokenizer, think>>
workVars == <<job, step, loading, hand, key, kv>>
vars == <<turnVars, nodeVars, loop, queue, workVars, cache, overtaken, raced>>

Waits == {"probing", "generating", "retrying"}   \* for its job
HasSlot == Waits \cup {"probed", "answered"}
Generation == {"vision", "text", "prefill", "decode"}   \* steps of it
UnderWay(t) == at[t] \in HasSlot \cup {"waiting"}

JobType == [does : {"probe", "text", "vision"}, turn : Turns, quiet : BOOLEAN]
Clear == [does |-> "clear", turn |-> None, quiet |-> FALSE]
NoJob == [does |-> "nothing", turn |-> None, quiet |-> FALSE]
NoKv == Fresh(None)
KvType == [by : Paths \cup {None}, of : Seq(STRING), mixed : BOOLEAN]

TypeOK ==
  /\ asks \in [Turns -> [path : Paths \cup {None}, prompt : Seq(STRING) \ {<<>>}, thinks : BOOLEAN]]
  /\ at \in [Turns -> HasSlot \cup {"new", "waiting", "over"}]
  /\ sees \subseteq Turns
  /\ config \in Paths
  /\ {model, tokenizer, loading, hand, key} \subseteq Paths \cup {None}
  /\ think \in Paths \cup {None, Guess}
  /\ loop \in [does : {"drop", "load"}, turn : Turns] \cup {[does |-> "nothing", turn |-> None]}
  /\ queue \in Seq(JobType \cup {Clear})
  /\ job \in JobType \cup {Clear, NoJob}
  /\ step \in {"idle", "clear", "look", "load", "read", "probe", "vision", "text", "prefill", "decode"}
  /\ kv \in KvType
  /\ Held(cache) \subseteq Paths \X Seq(STRING)
  /\ \A e \in Held(cache) : cache.kv[e] \in KvType
  /\ overtaken \subseteq Turns
  /\ raced \in BOOLEAN

Init ==
  /\ asks \in Asking
  /\ at = [t \in Turns |-> "new"]
  /\ sees = {}
  /\ config = First
  /\ model = None
  /\ tokenizer = None
  /\ think = None
  /\ loop = [does |-> "nothing", turn |-> None]
  /\ queue = <<>>
  /\ job = NoJob
  /\ step = "idle"
  /\ loading = None
  /\ hand = None
  /\ key = None
  /\ kv = NoKv
  /\ cache = NoCache
  /\ overtaken = {}
  /\ raced = FALSE

-----------------------------------------------------------------------------
(* The event loop.                                                         *)

LoopIdle == loop.does = "nothing"
Loop(what, t) == loop' = [does |-> what, turn |-> t]
LoopFree == loop' = [does |-> "nothing", turn |-> None]
Moves(t, where) == at' = [at EXCEPT ![t] = where]
Submit(what, t, quiet) == queue' = Append(queue, [does |-> what, turn |-> t, quiet |-> quiet])

\* apply_config() as another thread sees it: the path first.
Switch(t) ==
  /\ config' = asks[t].path
  /\ Loop("drop", t)
  /\ UNCHANGED <<model, tokenizer, think>>

\* The engine step of the turn.
Ask(t) ==
  /\ LoopIdle
  /\ at[t] = "new"
  /\ IF asks[t].path \in {None, config}
       THEN Moves(t, "waiting") /\ UNCHANGED <<nodeVars, loop, overtaken>>
       ELSE /\ Switch(t)
            /\ overtaken' = overtaken \cup {u \in Turns : UnderWay(u) \/ u = job.turn}
            /\ UNCHANGED at
  /\ UNCHANGED <<asks, sees, queue, workVars, cache, raced>>

\* Bug: the caches are dropped at once, by this thread.
ForgetAtOnce == cache' = NoCache /\ UNCHANGED queue
\* ... the caches on the worker, behind what it does and before what comes.
Forget == queue' = Append(queue, Clear) /\ UNCHANGED cache

\* Bug: the model stays.
DroppedNot == think' = None /\ UNCHANGED model
\* Bug: what is known of the old template stays.
DroppedHalf == model' = None /\ UNCHANGED think
\* ... then the model and what is known of its template, which is probed anew.
Dropped == model' = None /\ think' = None

Drop ==
  /\ loop.does = "drop"
  /\ Dropped
  /\ Forget
  /\ LoopFree
  /\ Moves(loop.turn, "waiting")
  /\ raced' = ((step = "load" /\ loading # config) \/ job.does = "probe")
  /\ UNCHANGED <<asks, sees, config, tokenizer, workVars, overtaken>>

SlotFree == Cardinality({t \in Turns : at[t] \in HasSlot}) < Slots

Generate(t, vision, quiet) == Submit(IF vision THEN "vision" ELSE "text", t, quiet)

\* execute(), once the turn has its slot: the path says which library it is.
Execute(t) ==
  /\ LoopIdle
  /\ at[t] = "waiting"
  /\ SlotFree
  /\ sees' = IF config \in Vision THEN sees \cup {t} ELSE sees
  /\ IF asks[t].thinks /\ config \notin Vision
       THEN Submit("probe", t, FALSE) /\ Moves(t, "probing")
       ELSE Generate(t, config \in Vision, FALSE) /\ Moves(t, "generating")
  /\ UNCHANGED <<asks, nodeVars, loop, workVars, cache, overtaken, raced>>

Probed(t) ==
  /\ LoopIdle
  /\ at[t] = "probed"
  /\ Generate(t, t \in sees, FALSE)
  /\ Moves(t, "generating")
  /\ UNCHANGED <<asks, sees, nodeVars, loop, workVars, cache, overtaken, raced>>

\* The answer is given, or it was all thinking and is asked for again.
Judge(t) ==
  \/ Moves(t, "over") /\ UNCHANGED queue
  \/ asks[t].thinks /\ Generate(t, t \in sees, TRUE) /\ Moves(t, "retrying")

\* _answer_or_retry_without_thinking(): unless the turn was stopped, the template
\* is looked up here, on this thread, if a switch made it be forgotten.
Check(t) ==
  /\ LoopIdle
  /\ at[t] = "answered"
  /\ \/ Moves(t, "over") /\ UNCHANGED <<queue, think, loop>>
     \/ think # None /\ Judge(t) /\ UNCHANGED <<think, loop>>
     \/ think = None /\ model # None /\ think' \in {tokenizer, Guess} /\ Judge(t) /\ UNCHANGED loop
     \/ think = None /\ model = None /\ Loop("load", t) /\ UNCHANGED <<at, queue, think>>
  /\ UNCHANGED <<asks, sees, config, model, tokenizer, workVars, cache, overtaken, raced>>

\* ... and, with the model dropped too, loaded here.
LoopLoads ==
  /\ loop.does = "load"
  /\ \/ model' = config /\ tokenizer' = config /\ think' \in {config, Guess}
     \/ think' = Guess /\ UNCHANGED <<model, tokenizer>>
  /\ LoopFree
  /\ Judge(loop.turn)
  /\ UNCHANGED <<asks, sees, config, workVars, cache, overtaken, raced>>

\* The turn is cancelled and gives its slot back: a job not begun never runs,
\* one that runs goes on.
Leave(t) ==
  /\ LoopIdle
  /\ UnderWay(t)
  /\ Moves(t, "over")
  /\ queue' = RemoveFirstMatch(queue, LAMBDA j : j.turn = t)
  /\ UNCHANGED <<asks, sees, nodeVars, loop, workVars, cache, overtaken, raced>>

-----------------------------------------------------------------------------
(* The worker.                                                             *)

Prompt == IF job.quiet THEN Append(asks[job.turn].prompt, Quiet) ELSE asks[job.turn].prompt

Begin ==
  /\ job = NoJob
  /\ queue # <<>>
  /\ job' = Head(queue)
  /\ queue' = Tail(queue)
  /\ step' = IF Head(queue) = Clear THEN "clear" ELSE "look"
  /\ UNCHANGED <<turnVars, nodeVars, loop, loading, hand, key, kv, cache, overtaken, raced>>

Done ==
  /\ job' = NoJob
  /\ step' = "idle"
  /\ loading' = None
  /\ hand' = None
  /\ key' = None
  /\ kv' = NoKv

\* Bug: the second generation is judged like the first.
AfterwardsAgain(failed) ==
  CASE at[job.turn] = "probing" -> "probed"
    [] at[job.turn] \in {"generating", "retrying"} -> IF failed THEN "over" ELSE "answered"
    [] OTHER -> at[job.turn]
\* What the turn is told, if it still waits.  A probe never fails it, and a second
\* generation that fails leaves the first answer.
Afterwards(failed) ==
  CASE at[job.turn] = "probing" -> "probed"
    [] at[job.turn] = "generating" -> IF failed THEN "over" ELSE "answered"
    [] OTHER -> "over"

Ends == Done /\ Moves(job.turn, Afterwards(FALSE)) /\ UNCHANGED <<asks, sees>>
Fails == Done /\ Moves(job.turn, Afterwards(TRUE)) /\ UNCHANGED <<asks, sees>>
Knows(path) == IF job.does = "probe" THEN think' = path ELSE UNCHANGED think

ClearCaches ==
  /\ step = "clear"
  /\ cache' = NoCache
  /\ Done
  /\ UNCHANGED <<turnVars, nodeVars, loop, queue, overtaken, raced>>

\* _get_model(): is there one?  A probe may know already.
Look ==
  /\ step = "look"
  /\ \/ job.does = "probe" /\ think # None /\ Ends
     \/ /\ job.does # "probe" \/ think = None
        /\ step' = IF model = None THEN "load" ELSE "read"
        /\ loading' = IF model = None THEN config ELSE None
        /\ UNCHANGED <<turnVars, job, hand, key, kv>>
  /\ UNCHANGED <<nodeVars, loop, queue, cache, overtaken, raced>>

Load ==
  /\ step = "load"
  /\ \/ /\ model' = loading
        /\ tokenizer' = loading
        /\ step' = "read"
        /\ loading' = None
        /\ UNCHANGED <<turnVars, think, job, hand, key, kv>>
     \/ Fails /\ Knows(Guess) /\ UNCHANGED <<model, tokenizer>>
  /\ UNCHANGED <<config, loop, queue, cache, overtaken, raced>>

Fits == model # None /\ (job.does = "vision") = (model \in Vision)

\* ... and what it returns, read again: a switch may have come between.  A probe
\* wants the tokenizer; the library must be the one the model was loaded with.
Read ==
  /\ step = "read"
  /\ \/ job.does = "probe" /\ hand' = tokenizer
     \/ job.does # "probe" /\ Fits /\ hand' = model
  /\ step' = job.does
  /\ UNCHANGED <<turnVars, nodeVars, loop, queue, job, loading, key, kv, cache, overtaken, raced>>

Unfit ==
  /\ step = "read"
  /\ job.does # "probe"
  /\ ~Fits
  /\ Fails
  /\ UNCHANGED <<nodeVars, loop, queue, cache, overtaken, raced>>

Template ==
  /\ step = "probe"
  /\ think' \in {hand, Guess}
  /\ Ends
  /\ UNCHANGED <<config, model, tokenizer, loop, queue, cache, overtaken, raced>>

SeesAndSays ==
  /\ step = "vision"
  /\ Ends \/ Fails
  /\ UNCHANGED <<nodeVars, loop, queue, cache, overtaken, raced>>

\* The path is read again for the key of the KV.
Lookup ==
  /\ step = "text"
  /\ key' = config
  /\ kv' \in Prefilled(cache, config, Prompt, hand)
  /\ step' = "prefill"
  /\ UNCHANGED <<turnVars, nodeVars, loop, queue, job, loading, hand, cache, overtaken, raced>>

\* The first token is there, and the KV of the prompt is kept, which may hold that
\* token too (it is the library that has run ahead or not); or nothing comes.
Prefill ==
  /\ step = "prefill"
  /\ \/ /\ \E v \in {kv, Mixed(kv)} : cache' = Insert(cache, key, Prompt, v)
        /\ step' = "decode"
        /\ UNCHANGED <<turnVars, job, loading, hand, key, kv>>
     \/ (Ends \/ Fails) /\ UNCHANGED cache
  /\ UNCHANGED <<nodeVars, loop, queue, overtaken, raced>>

\* The conversation with the answer in it, without its tags, as the template renders
\* it for a next turn: closed, and without the token that turns thinking off.
Rendered == Append(asks[job.turn].prompt, Reply)

\* Unless it is blank the answer, whole or cut by a stop, has the KV kept under
\* that, which is not what it was fed.
Decode ==
  /\ step = "decode"
  /\ \/ cache' = Insert(cache, key, Rendered, Mixed(kv)) /\ Ends
     \/ UNCHANGED cache /\ (Ends \/ Fails)
  /\ UNCHANGED <<nodeVars, loop, queue, overtaken, raced>>

-----------------------------------------------------------------------------
Worker ==
  \/ Begin \/ ClearCaches
  \/ Look \/ Load \/ Read \/ Unfit \/ Template
  \/ SeesAndSays \/ Lookup \/ Prefill \/ Decode
Handles(t) == Execute(t) \/ Probed(t) \/ Check(t)
EventLoop == Drop \/ LoopLoads \/ \E t \in Turns : Handles(t)

Next ==
  \/ \E t \in Turns : Ask(t) \/ Leave(t)
  \/ EventLoop
  \/ Worker

Spec == Init /\ [][Next]_vars
FairSpec == Spec /\ WF_vars(Worker) /\ WF_vars(EventLoop)

-----------------------------------------------------------------------------
\* A turn that no switch overtook works with KV its own model computed, and of the
\* tokens of its own prompt, one for one, unless it comes from KV that is mixed: the
\* key names the path, not the model, so it takes the clearing of the caches, in its
\* place on the worker, to keep two models' KV apart (chat.py:250-255, 626, #1137).
ReadsItsOwnKv ==
  step \in {"prefill", "decode"} /\ job.turn \notin overtaken =>
    kv.by = hand /\ (kv.mixed \/ kv.of = Prompt)

\* Unless the last switch met a load or a probe, a turn that no switch overtook
\* generates with the model of the configuration, which is the one it asked for, and
\* with that model's KV (chat.py:229-267, turn_adapters.py:685).
GeneratesAsAsked ==
  step \in Generation /\ job.turn \notin overtaken /\ ~raced =>
    /\ hand = config
    /\ asks[job.turn].path \in {None, hand}
    /\ step \in {"prefill", "decode"} => kv.by = hand

\* The model, and what is known of its template, are those of the configuration,
\* unless the last switch met a load or a probe under way, whose end then
\* overwrites what the switch had dropped.
LoadedIsConfigured ==
  LoopIdle /\ ~raced => model \in {None, config} /\ think \in {None, config, Guess}

\* The trie has no dead branch, what is evicted is what is held, and finding KV,
\* trimming it and feeding it the rest lose no token and repeat none: what is not
\* mixed is the KV of the tokens it is kept under.
CacheWhole ==
  /\ cache.nodes = UNION {Branch(e[1], e[2]) : e \in Held(cache)}
  /\ Held(cache) = {cache.lru[i] : i \in DOMAIN cache.lru}
  /\ Cardinality(Held(cache)) = Len(cache.lru)
  /\ Len(cache.lru) <= MaxCaches
  /\ \A e \in Held(cache) : ~cache.kv[e].mixed => cache.kv[e].of = e[2]

\* The event loop loads a model itself, holding every other turn up, only for a
\* turn that a switch overtook.
LoadsOnTheWorker == loop.does = "load" => loop.turn \in overtaken

\* Every turn comes to an end, after one more generation at most.
EveryTurnEnds == \A t \in Turns : UnderWay(t) ~> at[t] = "over"

-----------------------------------------------------------------------------
\* What the gate sees of the turns.
Gate == INSTANCE SlotPool WITH
          UserTurns <- Turns, Jobs <- {}, told <- {},
          wanting <- {t \in Turns : at[t] = "waiting"},
          holding <- {t \in Turns : at[t] \in HasSlot},
          over <- {t \in Turns : at[t] = "over"}

\* The gate is used as it promises to be: a turn takes a slot while fewer than
\* Slots are out, keeps it through the probe, the generation and the second one,
\* and gives it back once, whatever the worker still does for it (SlotPool, which
\* EngineGate implements).
UsesTheGate == Gate!PoolSpec
=============================================================================
