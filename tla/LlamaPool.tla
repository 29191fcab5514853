------------------------------ MODULE LlamaPool ------------------------------
(***************************************************************************)
(* The llama.cpp engine (plugins/llama_cpp_module): a pool that keeps one  *)
(* native instance alive per session, since its KV cache is what makes a   *)
(* follow-up cheap, and one worker thread on which every generation runs.  *)
(*                                                                         *)
(* The instance is taken on the event loop (execute), the generation on it *)
(* runs later, on the worker.  In between, and while it runs, another turn *)
(* may take an instance too, and the engine step of a turn of the web door *)
(* may switch the model, which closes every instance: it runs before the   *)
(* turn asks the gate for a slot (turn_adapters.py, model_switch.py).      *)
(*                                                                         *)
(* An instance bears the name of the turn it was made for: a turn takes at *)
(* most one.  What is generated, images and resumed answers are left out.  *)
(***************************************************************************)
EXTENDS Integers, FiniteSets, Sequences, SequencesExt

CONSTANTS Turns, Sessions, Hashes, Models,
          Requests,     \* session, hash of the system prompt, model asked for
          First,        \* the model of the configuration
          Slots,        \* NEXE_ENGINE_SLOTS
          MaxSessions,  \* NEXE_LLAMA_CPP_MAX_SESSIONS
          None

ASSUME PoolAssumption ==
  /\ Requests \subseteq [session : Sessions, hash : Hashes, model : Models \cup {None}]
  /\ First \in Models
  /\ Slots \in Nat \ {0}
  /\ MaxSessions \in Nat \ {0}
  /\ None \notin Turns \cup Models \cup Hashes

VARIABLES asks,       \* what each turn asks for
          at,         \* where it is
          uses,       \* the instance it was given
          config,     \* model_path of the active configuration
          instances,  \* ModelPool._instances, by session
          hashes,     \* ModelPool._hashes, by session
          lru,        \* ModelPool._lru
          open,       \* instances that have not been closed
          modelOf,    \* the file each instance was loaded from
          queue,      \* what _LLAMA_EXECUTOR has not begun
          worker,     \* the turn its thread generates for
          overtaken,  \* turns under way when another switched the model (history)
          lastUse,    \* when the instance of a session was last asked for (history)
          clock

turnVars == <<asks, at, uses>>
poolVars == <<instances, hashes, lru, open, modelOf>>
history == <<overtaken, lastUse, clock>>
vars == <<turnVars, config, poolVars, queue, worker, history>>

TypeOK ==
  /\ asks \in [Turns -> Requests]
  /\ at \in [Turns -> {"new", "waiting", "queued", "running", "over"}]
  /\ uses \in [Turns -> Turns \cup {None}]
  /\ config \in Models
  /\ instances \in [Sessions -> Turns \cup {None}]
  /\ hashes \in [Sessions -> Hashes \cup {None}]
  /\ lru \in Seq(Sessions)
  /\ open \subseteq Turns
  /\ modelOf \in [Turns -> Models \cup {None}]
  /\ queue \in Seq(Turns)
  /\ worker \in Turns \cup {None}
  /\ overtaken \subseteq Turns
  /\ lastUse \in [Sessions -> Nat]
  /\ clock \in Nat

Init ==
  /\ asks \in [Turns -> Requests]
  /\ at = [t \in Turns |-> "new"]
  /\ uses = [t \in Turns |-> None]
  /\ config = First
  /\ instances = [s \in Sessions |-> None]
  /\ hashes = [s \in Sessions |-> None]
  /\ lru = <<>>
  /\ open = {}
  /\ modelOf = [t \in Turns |-> None]
  /\ queue = <<>>
  /\ worker = None
  /\ overtaken = {}
  /\ lastUse = [s \in Sessions |-> 0]
  /\ clock = 0

UnderWay(t) == at[t] \in {"waiting", "queued", "running"}
Generates(t) == at[t] \in {"queued", "running"}

-----------------------------------------------------------------------------
(* The engine step: the turn asks for a model and goes to the gate.        *)

\* Bug: the instances of the old model are kept.
ApplyConfigKept(m) ==
  /\ config' = m
  /\ UNCHANGED poolVars
\* apply_config(): every instance is closed and the pool is made anew.
ApplyConfig(m) ==
  /\ config' = m
  /\ instances' = [s \in Sessions |-> None]
  /\ hashes' = [s \in Sessions |-> None]
  /\ lru' = <<>>
  /\ open' = {}
  /\ UNCHANGED modelOf

Ask(t) ==
  /\ at[t] = "new"
  /\ at' = [at EXCEPT ![t] = "waiting"]
  /\ \/ /\ asks[t].model \in {None, config}
        /\ UNCHANGED <<config, poolVars, overtaken>>
     \/ /\ asks[t].model \notin {None, config}
        /\ ApplyConfig(asks[t].model)
        /\ overtaken' = overtaken \cup {u \in Turns : UnderWay(u)}
  /\ UNCHANGED <<asks, uses, queue, worker, lastUse, clock>>

-----------------------------------------------------------------------------
(* ModelPool.get_or_create(), under its lock.                              *)

\* Bug: the system prompt is not compared.
ReusableAnyway(s, h) == instances[s] # None
Reusable(s, h) == instances[s] # None /\ hashes[s] = h

\* Bug: an instance reused keeps its place.
TouchedNot(s) == lru
Touched(s) == Append(RemoveFirst(lru, s), s)

\* The instance of the session itself goes first, when its prompt changed.
Others(s) == RemoveFirst(lru, s)

\* Bug: one too many is kept.
ExcessLate(s) == IF Len(Others(s)) > MaxSessions THEN Len(Others(s)) - MaxSessions ELSE 0
\* How many of the others, the least recently used first, must go.
Excess(s) == IF Len(Others(s)) >= MaxSessions THEN Len(Others(s)) - MaxSessions + 1 ELSE 0

Evicted(s) == {Others(s)[i] : i \in 1 .. Excess(s)}
Kept(s) == SubSeq(Others(s), Excess(s) + 1, Len(Others(s)))

Reuse(t, s) ==
  /\ Reusable(s, asks[t].hash)
  /\ uses' = [uses EXCEPT ![t] = instances[s]]
  /\ lru' = Touched(s)
  /\ UNCHANGED <<instances, hashes, open, modelOf>>

\* The library loads the model, or cannot: by then the others are gone.
Create(t, s, loads) ==
  LET gone == Evicted(s) \cup {s} IN
  /\ ~Reusable(s, asks[t].hash)
  /\ instances' = [r \in Sessions |-> IF r = s /\ loads THEN t ELSE IF r \in gone THEN None ELSE instances[r]]
  /\ hashes' = [r \in Sessions |-> IF r = s /\ loads THEN asks[t].hash ELSE IF r \in gone THEN None ELSE hashes[r]]
  /\ lru' = IF loads THEN Append(Kept(s), s) ELSE Kept(s)
  /\ open' = (open \ {instances[r] : r \in gone}) \cup (IF loads THEN {t} ELSE {})
  /\ modelOf' = IF loads THEN [modelOf EXCEPT ![t] = config] ELSE modelOf
  /\ uses' = IF loads THEN [uses EXCEPT ![t] = t] ELSE uses

-----------------------------------------------------------------------------
(* The turn and the worker.                                                *)

\* Bug: the slot is given back once the generation is queued.
SlotFreeEarly == Cardinality({t \in Turns : at[t] = "running"}) < Slots
SlotFree == Cardinality({t \in Turns : Generates(t)}) < Slots

Given(t, s) ==
  /\ at' = [at EXCEPT ![t] = "queued"]
  /\ queue' = Append(queue, t)
  /\ lastUse' = [lastUse EXCEPT ![s] = clock + 1]
  /\ clock' = clock + 1

\* execute(): the instance now, the generation handed to the worker.
Execute(t) ==
  LET s == asks[t].session IN
  /\ at[t] = "waiting"
  /\ SlotFree
  /\ \/ Reuse(t, s) /\ Given(t, s)
     \/ Create(t, s, TRUE) /\ Given(t, s)
     \/ Create(t, s, FALSE) /\ at' = [at EXCEPT ![t] = "over"] /\ UNCHANGED <<queue, lastUse, clock>>
  /\ UNCHANGED <<asks, config, worker, overtaken>>

WorkerTakes ==
  /\ worker = None
  /\ queue # <<>>
  /\ worker' = Head(queue)
  /\ queue' = Tail(queue)
  /\ at' = [at EXCEPT ![Head(queue)] = "running"]
  /\ UNCHANGED <<asks, uses, config, poolVars, history>>

\* The generation ends, breaks or sees the cancel event.  Nobody may be waiting
\* for it any more.
WorkerEnds ==
  /\ worker # None
  /\ worker' = None
  /\ at' = [at EXCEPT ![worker] = "over"]
  /\ UNCHANGED <<asks, uses, config, poolVars, queue, history>>

\* The turn is cancelled and gives its slot back: a generation not begun never
\* runs, one that runs goes on.
Leave(t) ==
  /\ UnderWay(t)
  /\ at' = [at EXCEPT ![t] = "over"]
  /\ queue' = RemoveFirst(queue, t)
  /\ UNCHANGED <<asks, uses, config, poolVars, worker, history>>

Next ==
  \/ \E t \in Turns : Ask(t) \/ Execute(t) \/ Leave(t)
  \/ WorkerTakes
  \/ WorkerEnds

Spec == Init /\ [][Next]_vars

-----------------------------------------------------------------------------
\* What the pool counts is what is open: the three tables speak of the same
\* sessions, no more than max_sessions, every open instance is in the pool (none
\* is leaked) and none in the pool is closed (model_pool.py).
PoolWhole ==
  /\ {s \in Sessions : instances[s] # None} = {lru[i] : i \in DOMAIN lru}
  /\ {s \in Sessions : hashes[s] # None} = {lru[i] : i \in DOMAIN lru}
  /\ \A i, j \in DOMAIN lru : lru[i] = lru[j] => i = j
  /\ Len(lru) <= MaxSessions
  /\ open = {instances[s] : s \in Sessions} \ {None}

\* A turn generates on an instance made for its session and its system prompt
\* and, unless another turn switched the model since it asked, for the model it
\* asked for (the KV of an instance is the conversation it was fed).
GetsWhatItAsked ==
  \A t \in Turns : Generates(t) =>
    /\ asks[uses[t]].session = asks[t].session
    /\ asks[uses[t]].hash = asks[t].hash
    /\ t \notin overtaken => modelOf[uses[t]] = IF asks[t].model = None THEN config ELSE asks[t].model

\* With one slot, nobody closes the instance under a turn that generates on it
\* but a turn that switches the model (chat.py's one worker serialises the
\* generations, not get_or_create() and apply_config(), which close).
KeepsItsInstance ==
  \A t \in Turns : Generates(t) /\ t \notin overtaken => uses[t] \in open

\* A session pushed out by another was used before every one that stays.
EvictsTheOldest ==
  [][\A t \in Turns : Execute(t) =>
       LET Live(tab) == {s \in Sessions \ {asks[t].session} : tab[s] # None} IN
         \A s \in Live(instances) \ Live(instances'), r \in Live(instances') : lastUse[s] < lastUse[r]]_vars

-----------------------------------------------------------------------------
\* What the gate sees of the turns.
Gate == INSTANCE SlotPool WITH
          UserTurns <- Turns, Jobs <- {}, told <- {},
          wanting <- {t \in Turns : at[t] = "waiting"},
          holding <- {t \in Turns : Generates(t)},
          over <- {t \in Turns : at[t] = "over"}

\* The gate is used as it promises to be: a turn takes a slot while fewer than
\* Slots are out, has it from execute() to the end of its generation and gives it
\* back once, whatever the worker still does for it (SlotPool, which EngineGate
\* implements).  One whose model cannot be loaded takes and gives back at once.
UsesTheGate == Gate!PoolSpec
=============================================================================
