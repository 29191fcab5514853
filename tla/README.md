# server-nexe: a verification project

server-nexe is a local AI server: one Python process, one asyncio loop, that
answers chat turns with a local or a hosted engine, keeps conversations on
disk and remembers facts about its user. These modules model the parts whose
correctness depends on the order in which things happen, check them with TLC
and prove what matters most with TLAPS. Paths are relative to `src/`; after
the first table a file goes by its name.

## The system

| part | state it keeps | operations | interacts with |
|---|---|---|---|
| Engine gate, `core/turn/gate.py` | holders, a condition's wait queue, one preemption event per background holder | acquire (with time-out), release, preempt lower priorities | held by every turn that generates and by every background job; one gate for the local engines, one for the hosted ones |
| Post-commit queue, `core/turn/post_commit.py` | two priority queues, the pending job per session and step, the running jobs, results by session | enqueue, two workers, supersede, preempt, requeue, record, shutdown | fed by turns when they end, told by the gate and by the session's next turn to stop, runs compaction |
| Sessions, `core/sessions/session_manager.py` | session objects in memory (history, summary, lease, consent) and one file each | get or create, lease, add a message, save, delete, load at start-up | written by turns under a lease, by compactions without one, by retention |
| Compaction, `core/sessions/compactor.py` | nothing of its own: a snapshot taken before a call to the model | summarise the old messages, apply the summary to what the history has become | runs as a post-commit job on the session object of the turn that queued it |
| Turn pipeline, `core/turn/run.py`, `steps.py`, `lease.py`, `trace.py`, `turn_store.py` | the turn's context, outcomes per step, the ring of the last turns | run_turn, stream_turn, short circuits, cancellation, the trace | two doors: the web UI (`plugins/web_ui_module`) and `/v1` (`core/endpoints/chat.py`) |
| Structured memory, `memory/memory` | profile, episodic and staging tables (SQLite), tombstones, a vector index | remember, recall, the dreaming cycle (stage, store, index, collect), forget everything | turns call remember and recall; one cycle task runs beside them |
| Engine cascade, `core/turn/engine_claim.py`, `engine_hold.py`, `engine_start.py`, `cancel.py`, `api_cascade.py`; `plugins/web_ui_module/api/engine_doors.py`, `engine_call.py` | per turn: candidates left, the slot, the turn's event and one per engine asked, a monitor, a deadline per engine | order the candidates, take the slot, ask one engine after another until one claims the turn, hand the slot to the stream, stop | gate, circuit breaker, engines, the client's connection, the cloud switch |
| Circuit breaker, `core/resilience/circuit_breaker.py` | state, counts, the probe slot and when it was taken | admit, record success or failure | every call of the Ollama daemon from the web doors and from `plugins/ollama_module` |
| llama.cpp engine, `plugins/llama_cpp_module` | a pool of native instances, one per session, with their prompt hashes and an LRU; one worker thread | take or create an instance, evict, generate, switch the model | the engine step of a turn switches the model before that turn has a slot |
| MLX engine, `plugins/mlx_module` | the configuration, one model and its tokenizer, what its template opens, a trie of KV caches; one worker thread | load, probe the template, generate, generate again without thinking, keep and find KV, switch the model | as above; the model's state is written by the worker and by the event loop |
| Modules, bootstrap, lifespan | registry, tokens, state files | load, start, stop, exchange a token once | everything at start-up and shutdown |
| Ingest, files, retrieval, facts, security, crypto, other plugins, CLI, installer | caches, files, vector collections | pipelines of one request or one script | called from turns or from the command line |

What is hard here: handlers are atomic between two `await`s and nowhere else;
a client may leave at any suspension point; background jobs are preempted and
run again with data that has aged; engines run in worker threads nobody can
stop from outside; memory is written by commits between which the process may
stop; several stores (object, file, table, index) must agree.

What makes each part correct:

* gate: never more holders than slots; nobody sleeps beside a free slot; every
  background holder is told when a user waits; every wait ends;
* queue: a job is run or superseded, ends once, says so, never runs stale data
  for fresher, never reports success behind a turn that cancelled it;
* sessions: one live writer, a lease that ends with its turn (both proved, no
  run spends time on them), a file that is what the manager shows and a true
  record of what was said, nothing deleted coming back;
* turns: the answer is written once, memory never before the disk, nothing
  spent after the client left, a whole trace, a record final when it is final;
* memory: what is staged leaves staging, what is processed is kept, the newest
  value wins, table and index agree, what is wiped stays wiped;
* cascade: a stop reaches every engine asked, deadlines watch only engines that
  have said nothing, engines are asked in order and nobody is left unasked,
  nothing leaves the machine that its user did not allow, every turn ends;
* breaker: a circuit that refuses calls lets one through again;
* llama.cpp: the pool's tables agree and hold exactly what is open, a turn
  generates on an instance made for it, which stays open meanwhile, and the
  instance pushed out was the least recently used;
* MLX: a generation reads only KV its own model computed, what is loaded is
  what is configured, the trie of caches is whole, models are loaded on the
  worker, every turn ends;
* and where parts meet: each uses the other as the other promises to be used.

## The modules

Three modules say what a component promises and nothing of how; the component
is shown, by TLC and by proof, to keep it.

* `SlotPool`, the gate: slots are granted to requests that asked and given back;
  background holders are told to stop only when a user is waiting. No queue, no
  wake-ups.
* `JobBoard`, the post-commit queue: a job waits, is in hand, or is gone with one
  word; it goes unsaid only for another of its session and step or with its
  side, and never as done once it was told to stop. No priorities, no gate, no
  awaits.
* `Transcript`, the sessions: what was said is on record in its order, once, each
  answer after its question; a beginning of it may be exchanged for a summary
  that covers it. The write of a change to the file may fail without a word: the
  file then stays behind until the next one succeeds, and only a restart in
  between loses anything. No objects, no leases, no compactions beside turns.

`EngineGate` is `gate.py` in detail. `waiters` and `woken` are the two places
a call that waits goes through: the condition's deque, and the wake-ups the
loop has not run yet. `Acquire` is the call up to its first suspension, `Resume` the
re-check after a notification, `TimeOut` and `LeaveWait` the two ways out of
the wait, `Release` the slot given back with `notify_all`, `PreemptLower` the
signal. `ImplementsPool` is the refinement to `SlotPool`. asyncio itself is
modelled from how `gate.py` uses it.

`PostCommitQueue` is `post_commit.py` with its two workers. A job is its
sequence number. `TurnEnds` enqueues both steps of a turn, `TurnBegins` is the
next turn of a session (it preempts the running jobs and reads the results),
`Drop`, `Take`, `Start`, `Requeue` and `Record` are the worker's loop cut where
it awaits. The gate appears as in `SlotPool`: a worker at the gate is granted a
slot some time later and, while it has it, may be told to stop (`GateSignal`).
`ImplementsBoard` is the refinement to `JobBoard`.

`Conversation` composes a session, its turns, its file and the compactions of
both workers. Session objects are numbered, because a turn or a job keeps a
reference to its object after the manager has dropped it (deletion, restart).
A message is a role and a turn; a summary is the set of messages it covers. A
turn is cut at each `await` of the web door's steps; the queue is
`PostCommitQueue` seen from one session and one step. The code logs a failure
to write or remove the file and goes on (`session_manager.py:584, 633`): with
`SavesFail` any save or removal may be one, `behind` says that the last was, and
`filed` what had been added to the object last written. `Unread` is a streamed
answer whose body nobody asks for, the one way a lease waits for its time to
live. `ImplementsTranscript` is
the refinement to `Transcript`: its record is the file, what was said is what
was added to the object the manager shows, and it is void once the conversation
was deleted under a turn or compacted twice at once.

`TurnRun` is the pipeline of one turn at both doors: what ends a step, what is
skipped, queued or committed after it, and who owns the lease while a streamed
body goes from the handler to the web server. A step's work is its outcome. The
answer without a stream of the `/v1` door is different (`Deferred`): its step
only puts a background task down (`owed`), and `BackgroundRuns` writes it once
the response is out. The commit of what was said before a cut may fail.

`MemoryStore` is `remember()`, the dreaming cycle with the collector, and
`forget_everything()`. Every commit is an action, since the process may stop
or the next commit fail after it; other handlers run only where the cycle
yields (`LoopFree`). An error or a stop spends one of `MaxFaults`: the error may
be of any commit, of the recovery of leases, of a mark or of the expiry, which
the cycle logs and passes over, or of a wipe, which has then deleted from some
tables and not from others (`WipeFails`; `torn` is the rows it left behind). A
restart comes at once, after minutes (leases have lapsed) or after days (rows
expire).

`CircuitBreaker` is the breaker and the way its call sites use it: leave
(`Leave`), the call, what is recorded of it, or nothing. Time is one bit:
whether the time-out of the present state has run out (`Age`).

`EngineCascade` EXTENDS it with the engine step of each turn: `Ask` draws the
candidates and their order, `Enter` takes the slot (the gate as `SlotPool`
promises it), `Try` asks the next candidate, `Contact` to `Stored` are what
becomes of a call, and `ClientLeaves`, `MonitorSees`, `TaskCancelled`,
`Deadline` and `CloudTurnedOff` come at any moment from outside. A door reads an
engine in one of four ways, the `door` of the request. `WorkerEnds` is the
worker thread of an in-process engine, which goes on after its turn until it
ends or reads its event. What the client is shown of an exhausted cascade is
followed too: `first` and `kept` are the failures the code keeps, `notices`
those that came as a stream that could be shown. `UsesTheGates` and
`UsesTheBreaker` say that it meets the promises it relies on: each gate sees a
`SlotPool` whose requests are its turns, and the daemon's calls go through
`CircuitBreaker` and never round it.

`LlamaPool` is the llama.cpp plugin: `Ask` switches the model (which closes
every instance), `Execute` takes an instance on the event loop, `WorkerTakes`
and `WorkerEnds` generate on it in the worker. An instance bears the name of
the turn it was made for. In both engines `UsesTheGate` says that their turns
use the gate as `SlotPool` promises it.

`PromptCache` holds the operators of the trie of KV caches and `MlxNode`
EXTENDS it with the two threads: `Ask` and `Drop` are a switch as the worker
sees it (the path first, then the model, the template and the clearing queued),
`Execute`, `Probed`, `Check` and `LoopLoads` the event loop's side of a turn,
`Begin` to `Decode` the worker's, cut wherever the event loop may come between.
A KV is the model that computed it and the tokens it was fed. It is `mixed` when
it was fed others than those it is kept under: a token twice, the first token of
the answer beyond the prompt (the library may have run ahead when the prompt's KV
is kept, `Prefill`), or an answer that is kept as the template will render it
next time, closed, without its tags and without the token that turns thinking
off (`Rendered`).
`overtaken` and `raced` are history: which turns were under way when another
switched the model, and whether the last switch met a load or a probe.

Definitions headed "Bug:" or "Mutant of" are not part of any specification:
each is the form a plausible slip in the code would give a definition, kept
beside it because it shows which property would notice.

`MC_*` instantiate the modules for TLC, `*_proofs` hold their theorems.

## What the runs check

| run | instance | states it, and shows |
|---|---|---|
| `gate` | 3 user turns, 2 jobs, 2 slots, fair | wake-ups and signals under barging, time-outs and cancellations; refinement to the pool; every wait ends |
| `jobs` | 1 session, 2 turns, 4 jobs, 2 attempts, fair | jobs superseded, preempted and requeued: refinement to the board; they are queued while pending, never done behind a turn, and leave |
| `jobs_stale` | 1 session | a requeued job takes the place of a fresher one, against `post_commit.py:85-87` |
| `conv` | 2 turns, 2 engines, one message kept, a takeover, a deletion, a restart, saves that fail | leases that hold, a file that is current unless the last save failed, refinement to the transcript (no message lost to a compaction, nor to a restart with a good file), nothing deleted brought back by a job |
| `conv_two` | 3 turns, 2 engines | two compactions at once lose a user message, against `compactor.py:162-164` |
| `turn` | both doors, streamed or not, resumed or not (70 000 states) | the order of disk and memory, an answer written once, the deferred one after the response, nothing after the client left, trace, record and lease |
| `memory` | 3 statements said 3 times, batches of 2, an error or stop, an archived memory, a wipe, fair (481 000 states) | table and index, repeated tries, the last word, the wipe, every row leaves |
| `memory_wiped` | 2 statements, a wipe | a wipe between two rows of a batch is undone, against `memory_service.py:468` |
| `cascade` | 1 turn with any request at any of four doors, 3 engines of 3 kinds, another caller of the daemon, thresholds 2 and 2, fair (142 000 states) | stops, deadlines, order and the failure shown, what leaves the machine, that every turn ends and that a breaker recovers |
| `cascade_orphan` | 2 turns, a stream from MLX alone | a worker whose turn is over goes on untold, against `cancel.py:114-118` |
| `llama` | 4 turns, 3 sessions, 2 prompts, 2 models, a pool of 2, 1 slot, symmetric turns (820 000 states) | the pool is whole, who gets which instance and keeps it, which one is pushed out |
| `mlx` | 3 turns in 4 assignments of requests, 3 models (one sees, one has KV that can be trimmed), 2 caches, 1 slot, fair (200 000 states) | whose KV a generation reads and of which tokens, which model generates and which is loaded, the trie, every turn ends |

The four runs that end in a violation each show a disagreement between the
code and the line quoted; `PROJECT.json` has the scenario under `findings`.

The type invariant of a module whose typing is proved is left out of its run,
and so are four invariants of the gate and of the sessions that are theorems
for every value of the constants (`SlotBound`, `OnePlace`, the lease's end, one
live writer): a run spends its time on what is not, or not only, proved.

Bounds. The gate needs a holder, a waiter, a second waiter, a caller that
barges in and one job of each order of arrival: five requests on two slots.
A job has two attempts here instead of three: a run that is requeued and a run
that may not be; supersession needs two jobs of one session and step, and each
worker one of them. Two turns and
two compactions of one session are every pair that can meet; the losses of
three overlapping ones are `conv_two`. A row of the staging table meets, at
most, a row before it, a row after it in the same batch and a row of the next
batch: three rows and batches of two instead of ten. The instance has one fault, at
any commit; what two faults do together is covered only by the theorems,
which hold for any number. Turns of the cascade meet only at the gate, which has
a module of its own, and at the breaker, where the other caller, which never
stops calling, stands for them; the theorems are for any number of turns. An
LRU of two needs a third session to push one out and a fourth turn to use one
of the two again before. Two turns switch the MLX model to and fro, under a
third that loads, probes or generates. Deadlock is not checked where the turns
of the instance are over and nobody calls any more; the memory's cycle goes on
for ever, so there it is checked.

Fairness. The loop runs what is ready: a call of `acquire` that was notified
resumes, a worker with a job goes on, a cycle that slept wakes up. A holder
gives its slot back, because `acquire` is used in `try ... finally` and engines
have time-outs. That the gate grants, which `PostCommitQueue` assumes of its
workers, is `EveryWaitEnds` of the gate. A stopped server is started again
(`EveryRowLeaves` says nothing of one that is not). In `EngineCascade` a turn's
own steps are fair because the wait at the gate has a limit and an engine ends
its call (`max_tokens`, the HTTP time-out of the hosted ones), and the breaker's
clock goes on; the other caller, the client, the monitor and the deadlines owe
nothing. In `MlxNode` the worker thread and the event loop each go on as long
as they have something to do; no turn is bound to ask or to be cancelled.
Nothing else is fair: no user comes back, no client reads its body, no job is
bound to succeed.

## What is proved

For every value of the constants that satisfies the named assumptions, each
beside the constants of its module: natural bounds and positive limits, values
like `None`, `NoJob`, `NoStep` and `Nothing` outside the sets they stand
beside, engines ranked without ties and none both hosted and behind the breaker
(`CascadeAssumption`), requests over the given sets, and prompts that are
sequences of tokens and not empty (`NodeAssumption`).

* `EngineGate_proofs`: `TypeCorrect`, `SlotsNeverExceeded`, `OnePlaceAlways`,
  `NoLostWakeUp`, `SleepingTurnAlwaysTold`, and `GateImplementsPool`. The
  strengthening (`GateInv`) joins the typing, `OnePlace` (a call is in one place
  at most), `SlotInv` (finitely many holders, no more than slots, and with a
  free slot nobody left in the deque) and the signals. The refinement has one
  step per action, mapped to a step of the pool or a stutter.
* `PostCommitQueue_proofs`: `TypeCorrect`, `PendingAlwaysQueued`,
  `FinalWordAlwaysFinal`, `NeverDoneBehindATurn`, `QueueImplementsBoard`.
  `QueueInv` adds to what is proved that the numbers of jobs are bounded
  (`Bounded`), that a job is in one place of one queue (`OneQueue`) or in one
  worker's hand (`OneWorker`), that one still there has said nothing final
  (`Unsaid`) and that one that a turn told to stop is marked so
  (`ToldIsCancelled`). The refinement maps each action to a step of `JobBoard`
  or none.
* `Conversation_proofs`: `TypeCorrect`, `LeaseEnds`, `HolderKeepsLease`,
  `OneLiveWriter`, `FileAlwaysCurrent`, `NothingBroughtBack`,
  `UserMessagesSurvive`, `ConversationKeepsTranscript`. What they say of the
  file holds unless the last write of it failed, and `LeaseEnds` leaves out the
  body nobody asks for. `TypeOK` is not inductive alone: it needs that objects
  are numbered in the order they are made and that there is one left to make
  (`Counted`), that whoever works has an object (`Begun`), that those not made
  are blank (`Untouched`). On top of that, `LeaseInv` ties the lease of every
  object, not only the current one, to an active turn, and `FileInv` ties the
  file to the current object and every active turn to it while nothing was
  deleted under it; the file is that of the current object unless `behind`. The
  cases are the five ways the session changes (`SessionChanges`), proved once.
  `UserMessagesSurvive` adds that what a compaction measured stays the beginning
  of its history while no other runs (`MeasureInv`), and that every user message
  written is in the history or covered by the summary (`RememberInv`); the file
  follows by `FileInv`. `ConversationKeepsTranscript` is the refinement. It
  needs, beside these, that what a turn has said tells how far it is, that an
  object not made yet holds no words and that without an object there is no file
  (`SpokenInv`); and that what a compaction keeps is the rest of the history
  from some message on, none of the user's before it (`KeptIsSuffix`, for every
  history).
* `TurnRun_proofs`: `TypeCorrect` and all seven properties of the run. `TurnInv` says
  what commits so far mean (`Commits`), what holds while the pipeline is walked
  (`Walk`: which steps have an outcome, and which) and what holds once it is
  closed (`Over`).
* `MemoryStore_proofs`: `TypeCorrect` (the row at work is one of the batch,
  tables only grow), `SyncedAlwaysIndexed` (through `IndexInv`: between the
  points and the marks of a sync the unmarked memories are in the index, and
  what the collector drops is archived already) and `WipedUnlessHeld` (through
  `WipedInv`: a row not wiped was said after the last wipe, and so was a row of
  the batch unless the wipe caught it there). Three more rest on what the batch
  holds (`BatchInv`: rows not yet leased, the one at work, or rows a wipe caught
  there): `ProcessedAlwaysKept` (`KeptInv`: the text of a processed row is in a memory
  that was not collected, active or archived, or in a tombstone, or a point of the
  index still answers for it; a wipe takes the row along, and one that broke off
  half-way, which may leave the row without its memory, is left out),
  `StoredOnceEachTry` (`TriesInv`: a row that is pending, or at work and not
  stored yet, has no more copies than leases that lapsed) and
  `LastWordAlwaysStands` (`LastInv`: profile rows are processed in the order
  they were said, the batch holds the oldest, and the last of those left carries
  what was told last, or the profile does if none is left), which needs that
  `Nothing` is no value of the profile (`NothingAssumption`).
* `EngineCascade_proofs`: `TypeCorrect`, `StopAlwaysReaches`,
  `DeadlineOnlyWatchesTheSilent`, `NobodyEverLeftUnasked`,
  `NothingEverLeavesUnasked`, `GatesUsedAsPromised`, `BreakerUsedAsPromised`.
  `CascadeInv` is the typing, a part about what a turn holds and has told at
  each of its places (`TurnInv`) and one about the order of its candidates
  (`OrderInv`: those asked are ahead of those left, the failure kept is the
  first, and the one shown that of the engine wanted most among those that could
  be shown, a hosted engine has nobody behind it). A step is one turn's, and
  leaves the others' parts alone. The last two theorems map each step to one of
  `SlotPool` for either gate, and of `CircuitBreaker`, or to none; with
  `GateImplementsPool` they close the circle between the gate and its user.
* `LlamaPool_proofs`: `TypeCorrect`, `PoolAlwaysWhole`, `GeneratesOnItsOwn`,
  `OldestGoesFirst`, `GateUsedAsPromised`, `NoTurnIsLost` and, with one slot,
  `InstanceKept`. The invariant orders
  the LRU (`Ordered`), ties the three tables to what is open (`Tables`), each
  instance to the request it was made for (`MadeFor`), each turn that waits to
  its instance (`WaitsForIt`, `Served`) and to one place in the worker's queue
  (`Queued`); with one slot, a turn that waits is alone (`Alone`).
  `GateUsedAsPromised` maps each step to one of `SlotPool` or none, here and in
  `MlxNode_proofs`; what the worker still does for a turn that left is none.
* `MlxNode_proofs`: `TypeCorrect`, `LoadedAlwaysConfigured`, `WorkerLoads`,
  `AlwaysAsAsked`, `NoJobIsLost`, `GateUsedAsPromised`, `CacheAlwaysWhole` and,
  with one slot, `ReadsItsOwn`. Whose KV it is they say of every KV, of which
  tokens only of one that is not mixed. The invariant says how far the worker
  may be with which job (`Steps`), that a turn waits for one job at most
  (`Jobs`) and has it queued or at work, that a half-done switch has overtaken
  all that is under way (`Switching`), that what is loaded, or being loaded, is
  the configured model unless a switch met it (`Configured`), that a turn no
  switch overtook finds a model (`Present`) and that what stands before the
  clearing in the queue was overtaken (`InPlace`). `ReadsItsOwn` rests on
  `Current`: unless a clearing is pending, the KV kept under the configured path
  is that of the model there is. That needs one slot (`OneSlot`), and is wrong
  with two: see below. `AlwaysAsAsked` is what holds with any number of them.
  `CacheAlwaysWhole` rests on `CacheInv`: the caches are sound and within their
  bound, and what is in hand after the lookup is the KV of the whole prompt, or
  is mixed. What a lookup (`PrefilledIsOfTokens`), an insertion and an eviction
  do is proved there for every sequence of tokens.

One slot is the default of `NEXE_ENGINE_SLOTS`.

Only model-checked: every liveness property (`EveryWaitEnds`, `EveryJobLeaves`,
`EveryRowLeaves`, `EveryTurnEnds` twice, `CircuitNeverWedges`), since fairness
and ENABLED are out of the prover's reach. Induction over data is beyond
the prover too; the lemmas about sequences and sets of naturals use the
library's theorems, and no module with proofs reaches a RECURSIVE operator.

## Other disagreements met on the way

Not worth a run each, because they follow from one line or harm little. The
turns and the queue:

* `gate.py:16-18`: user turns "queue FIFO"; after `notify_all` any call that
  arrives before the first waiter runs goes ahead of it (line 140). That call
  may be a job's, so a user turn does not "always win a slot"
  (`post_commit.py:13-14`).
* `gate.py:13`: a user turn "that has to wait" signals the background holders;
  line 139 signals them even if another slot is free.
* `post_commit.py:59-61`: `on_done` is called once with the job's final word; a
  superseded job whose successor is done already is dropped without one
  (206-208). 160-162: a queued job sees a signal set early; line 227 clears it
  if the job had been requeued.
* `lease.py:38`: the lease is given back "however it ends"; the `finally` of an
  async generator (45) never runs if the response is let go before its first
  chunk, and the session answers 409 for the lease's time to live. The model
  has this as a turn whose body was never pulled, which `LeaseEndsWithTurn` excepts.
* `session_manager.py:660-665`: a deleted conversation must not be written back;
  a job asks first (`JobsBringNothingBack`), but a turn under way writes it at
  `turn_adapters.py:559` without asking (`FileIsCurrent` excepts it).
* `session_manager.py:566-585, 633`: a save or removal that fails is logged and
  nothing else; the turn is answered as if it were on disk, and a restart before
  the next good save forgets it, or brings a deleted conversation back.
* `adapters_api.py:814-820`: at the `/v1` door without a stream the answer is
  written after memory was, and not at all if the response is not sent; the
  step has said "ok" by then (`MemoryAfterDisk` and `CommittedOnce` say so).
* `session_manager.py:270-273`: nothing said since the snapshot is dropped;
  line 282 drops what comes before the first user message, so an answer that
  arrived meanwhile and that the summary does not cover may go.
* `turn_adapters.py:141-146`: a refused turn leaves nothing behind; a local
  turn refused by the lease (line 534) has withdrawn the consent (line 151).
* `turn_store.py:6-8`: a turn cancelled in its handler never becomes `final`
  (line 87).
* `trace.py:14-17`: the line is said "always"; not for a web body that was never
  pulled. Lines 19-23 speak of a line said again per job, which is gone.
* `turn_adapters.py:1058` says that `emit` never runs for a broken answer; it
  does, and the lease is given back before the last words of line 846 are out.

Memory:

* `dreaming_cycle.py:320` stores an episode that `remember()` stored already,
  since the index learns of it only after the first pass: every episode is
  there twice.
* `dreaming_cycle.py:231-248`: the handler of a failed row uses the connection
  that was just closed; no row is ever marked failed and the rest of the batch
  waits for the next cycle.
* `dreaming_cycle.py:265` upserts a profile value without its critical flag.
* `sqlite_store.py:782-799`: `clear_user` deletes table after table without a
  rollback; one that breaks off leaves its deletions to whoever commits next, and
  a processed row may stay without its memory (`torn`).
* What four exceptions of the properties stand for, each a hazard of
  `PROJECT.json` no property forbids: a leased row the cycle passes over and
  applies after fresher ones (`late`), a point that outlives its memory and
  answers for a new text (`Ghost`), a memory whose point a wipe deleted and whose
  row it could not (`lost`), and a profile row that expires before it is taken.

The cascade and the breaker:

* `cancel.py` says that an engine that has begun to answer runs to its end; at
  the `/v1` door without a stream nobody hears the first token, so the deadline
  is over the whole answer.
* An in-process engine that its deadline stops before its first token returns an
  empty answer, which claims the turn at the streaming doors; a deadline that
  races the first token makes an answer of one token.
* `circuit_breaker.py:46-51`: one probe at a time; the late success of a call
  admitted while the circuit was closed frees the half-open slot for a second
  probe, and a call of the web door may record two successes.

The local engines:

* `plugins/mlx_module/core/chat.py:230-236` (`apply_config`): a switch drops the
  model; while the worker loads, the load it overtakes puts the old model back
  under the new configuration, until the next switch (`raced` in
  `LoadedIsConfigured`).
* `chat.py:79-83`: every MLX entry point runs on the worker; after a switch line
  560 asks for the template on the event loop, and loads the model there
  (`WorkerLoads` proves for whom). A probe that failed leaves "opens nothing"
  until the next switch.
* `chat.py:250-255, 626`: a model is loaded on the worker, so the clearing queued
  by a switch keeps two models' KV apart. With two slots four turns get past it
  (`MlxNode_slots.cfg`, where TLC finds `ReadsItsOwnKv` violated): a turn that
  thinks is answered by the first model; a second one switches, its load runs on
  the worker, and it leaves; a third switches back; then the first turn's look
  at the template (560) loads the first model on the event loop while the worker
  ends the load of the second. The third turn's KV is kept under the first
  model's path and was computed by the second one; a fourth turn, which nobody
  overtook, reads it. With one slot, the default, this is proved impossible.
* `generate_helpers.py:351`: a prompt found whole in the cache has its first
  token fed again, so the KV kept is no longer the KV of its key (`mixed` in
  `CacheWhole`).
* `generate_helpers.py:525-527, 546-554`: the KV of an answer is kept under the
  conversation as the template renders it for a next turn, the answer stripped of
  its tags and closed, also one that was cut; what it was fed is the prompt with
  its thinking token and the answer as sampled. 458-464 keep the prompt's KV after
  the first token was yielded, which may be in it by then. Both are `mixed`.
* The LRU of the prompt caches is by insertion: a fetch does not refresh an entry.
* `plugins/llama_cpp_module/core/chat.py:26-32` pins generations to one thread
  because an instance is not thread-safe; `apply_config`, and `get_or_create`
  for a turn behind one that was cancelled, close an instance on the event loop
  while the worker generates on it.
* `model_switch.py:50-57`: two turns with different models are "effectively
  never seen"; a turn that waits at the gate is served by whatever model the
  last switch left, and the reply names the configuration at its end.

## What is not modelled, and the plan

The maps stand for a small part of the repository's lines: most of them are
I/O, text, prompts, languages, the web UI, the installer, validators and
conversions, in which nothing interleaves and nothing is kept between two
steps. Not modelled for that reason: configuration, internationalisation,
loaders and chunking, encryption, the CLI, the tray, the installer, what an
engine computes. The whole list with a reason each is in `PROJECT.json`.

Modelled in part, or abstracted:

* `Conversation`: renaming, attachments, the Continue of a cut answer and files
  that cannot be read at start-up are left out. `MemoryStore`: namespaces,
  scores, evidence and critical flags, and its user has one profile attribute.
* `EngineCascade`: `CascadeDoor.skip`, which no door overrides, tracing and
  billing. An engine stuck in native code never reads its event; the model lets
  its worker run for ever too.
* `LlamaPool` and `MlxNode`: `reset_model` at shutdown, the RAM guard, images,
  resumed answers and names of models that do not exist. In `MlxNode` the
  assignments of the model and the tokenizer are one step and `apply_config` two
  (the path, then the rest); how far a mixed KV differs from its key is not
  followed, nor what the model makes of it; the KV cache of the models that see
  is left out.

Done since the plan was first written: the cascade with the gate and the
breaker, the proofs of `TurnRun` and `PostCommitQueue`, the circuit breaker and
the two local engines with their proofs, the refinements to `JobBoard` and
`Transcript`, and the two meeting points of the cascade. Left, in order of what
it would tell:

1. The `/v1` mirror (`adapters_api.py:817`) in `Conversation`: `TurnRun` has the
   background task, but not what the next turn of the session makes of an answer
   that comes after it began, nor a client that sends the history again.
2. An abstract specification of the memory (what was told and neither replaced
   nor wiped is remembered) that `MemoryStore` implements.
3. The KV cache of the models that see (`vlm_runner.py`, `vlm_cache_manager.py`).
