-------------------------- MODULE PostCommitQueue --------------------------
(***************************************************************************)
(* core/turn/post_commit.py: the jobs a turn leaves behind (describe_image *)
(* and compact), one queue and one worker for the local engine and one of  *)
(* each for the hosted engines.                                            *)
(*                                                                         *)
(* A job is its seq number.  A gate is seen as SlotPool shows it: a worker *)
(* that wants a slot is granted one at some later moment, and while it     *)
(* holds it any user turn of any session may tell it to stop; the queue of *)
(* the gate itself is EngineGate's.  What a job does while it runs is its  *)
(* outcome.  The end of a run, the release of the slot and what becomes of *)
(* the job are one action: the loop does not leave the worker's task       *)
(* between them.                                                           *)
(***************************************************************************)
EXTENDS Naturals, Sequences, FiniteSets

CONSTANTS Sessions,     \* conversations
          MaxAttempts,  \* MAX_ATTEMPTS
          MaxTurns,     \* bound: user turns begun in one behaviour
          NoJob

ASSUME MaxAttemptsAssumption == MaxAttempts \in Nat \ {0}
ASSUME MaxTurnsAssumption == MaxTurns \in Nat /\ NoJob \notin Nat   \* each turn enqueues twice at most

Queues == {"local", "cloud"}
Steps == {"describe_image", "compact"}   \* run.py: POST_COMMIT
JobIds == 1 .. 2 * MaxTurns
FinalWords == {"ok", "failed", "preempted", "superseded"}

VARIABLES jobs,       \* the jobs enqueued so far, by seq: session, step, queue
          queued,     \* what is in the two priority queues
          pending,    \* the values of _pending: at most one job per session and step
          worker,     \* the job each worker has taken, or NoJob
          phase,      \* a worker is idle, waits at the gate, or runs its job
          attempts,   \* Job.attempts
          cancelled,  \* jobs whose cancel event is set
          results,    \* _results: jobs whose result the session has not read
          words,      \* the final words said through Job.finish, by job
          told,       \* history: jobs at work when a turn of their session began
          turns,      \* user turns begun so far
          open,       \* user turns of a session under way
          alive       \* the queues whose worker task has not been stopped

jobVars == <<jobs, attempts, cancelled, words, told>>
turnVars == <<turns, open>>
vars == <<jobVars, queued, pending, worker, phase, results, turnVars, alive>>

Enqueued == 1 .. Len(jobs)
Key(j) == <<jobs[j].session, jobs[j].step>>
SameKey(j) == {k \in Enqueued : Key(k) = Key(j)}
Served == {worker[q] : q \in {p \in Queues : phase[p] = "run"}}
RunningOf(s) == {worker[q] : q \in {p \in Queues : phase[p] # "idle" /\ jobs[worker[p]].session = s}}

Init ==
  /\ jobs = <<>>
  /\ queued = [q \in Queues |-> {}]
  /\ pending = {}
  /\ worker = [q \in Queues |-> NoJob]
  /\ phase = [q \in Queues |-> "idle"]
  /\ attempts = [j \in JobIds |-> 0]
  /\ cancelled = {}
  /\ results = {}
  /\ words = [j \in JobIds |-> <<>>]
  /\ told = {}
  /\ turns = 0
  /\ open = [s \in Sessions |-> 0]
  /\ alive = Queues

\* Job.finish: the trace of the turn is told how the job ended.
Say(j, word) == words' = [words EXCEPT ![j] = Append(@, word)]

\* A turn that ends whole has queued both its jobs on the side of its engine,
\* the image first, with no await between them; each is now the pending job of
\* its session and step.  A partial turn, a Continue, a turn answered before the
\* generation and one whose client left queue none.
TurnEnds(s, q) ==
  /\ open[s] > 0
  /\ open' = [open EXCEPT ![s] = @ - 1]
  /\ LET j == Len(jobs) + 1
         new(step) == [session |-> s, step |-> step, queue |-> q] IN
       \/ /\ j + 1 \in JobIds
          /\ jobs' = jobs \o <<new("describe_image"), new("compact")>>
          /\ pending' = {k \in pending : jobs[k].session # s} \cup {j, j + 1}
          /\ queued' = [queued EXCEPT ![q] = @ \cup {j, j + 1}]
       \/ UNCHANGED <<jobs, pending, queued>>
  /\ UNCHANGED <<worker, phase, attempts, cancelled, results, words, told, turns, alive>>

\* PriorityQueue: COMPACT before MEMORY_WRITE, then the order of arrival.
Before(j, k) ==
  \/ jobs[j].step = "compact" /\ jobs[k].step # "compact"
  \/ jobs[j].step = jobs[k].step /\ j < k

IsNext(q, j) == j \in queued[q] /\ \A k \in queued[q] \ {j} : Before(j, k)

\* _run_one(), a job that is not the pending one: dropped, and it says so only
\* if a fresher one is pending.
Drop(q) ==
  /\ q \in alive /\ phase[q] = "idle"
  /\ \E j \in queued[q] :
       /\ IsNext(q, j)
       /\ j \notin pending
       /\ queued' = [queued EXCEPT ![q] = @ \ {j}]
       /\ IF SameKey(j) \cap pending # {} THEN Say(j, "superseded") ELSE words' = words
  /\ UNCHANGED <<jobs, pending, worker, phase, attempts, cancelled, results, told, turnVars, alive>>

\* _run_one(), the pending job: the worker goes to the gate with it.
Take(q) ==
  /\ q \in alive /\ phase[q] = "idle"
  /\ \E j \in queued[q] :
       /\ IsNext(q, j)
       /\ j \in pending
       /\ queued' = [queued EXCEPT ![q] = @ \ {j}]
       /\ pending' = pending \ {j}
       /\ worker' = [worker EXCEPT ![q] = j]
       /\ phase' = [phase EXCEPT ![q] = "gate"]
  /\ UNCHANGED <<jobVars, results, turnVars, alive>>

\* The gate grants the slot: a second attempt starts with a clean event.
Start(q) ==
  /\ phase[q] = "gate"
  /\ phase' = [phase EXCEPT ![q] = "run"]
  /\ cancelled' = IF attempts[worker[q]] > 0 THEN cancelled \ {worker[q]} ELSE cancelled
  /\ UNCHANGED <<jobs, queued, pending, worker, attempts, results, words, told, turnVars, alive>>

\* EngineGate.preempt_lower: a user turn of any session wants the slot.
GateSignal(q) ==
  /\ phase[q] = "run"
  /\ cancelled' = cancelled \cup {worker[q]}
  /\ UNCHANGED <<jobs, queued, pending, worker, phase, attempts, results, words, told, turnVars, alive>>

\* Bug: running() and preempt() look at the local worker only.
SignalledLocally(s) ==
  LET mine == {k \in RunningOf(s) : jobs[k].queue = "local"} IN
  IF mine = {} THEN {} ELSE mine \cup {k \in pending : jobs[k].session = s}

\* preempt(), called by the session step only if the session has a running job.
Signalled(s) ==
  IF RunningOf(s) = {} THEN {} ELSE RunningOf(s) \cup {k \in pending : jobs[k].session = s}

\* The session step of a user turn: the news is read once, then the preempt.
TurnBegins(s) ==
  /\ turns < MaxTurns
  /\ turns' = turns + 1
  /\ open' = [open EXCEPT ![s] = @ + 1]
  /\ results' = {j \in results : jobs[j].session # s}
  /\ cancelled' = cancelled \cup Signalled(s)
  /\ told' = told \cup (RunningOf(s) \cap Served)
  /\ UNCHANGED <<jobs, queued, pending, worker, phase, attempts, words, alive>>

\* What a run may return: _run in run.py reports "preempted" whenever the
\* event is set by then, and "failed" whenever the step raises.
Outcomes(j) == IF j \in cancelled THEN {"preempted", "failed"} ELSE {"ok", "failed"}

WorkerFree(q) ==
  /\ worker' = [worker EXCEPT ![q] = NoJob]
  /\ phase' = [phase EXCEPT ![q] = "idle"]

\* Bug: the attempt is not counted.
RequeueUncounted(q) ==
  /\ phase[q] = "run" /\ worker[q] \in cancelled
  /\ attempts[worker[q]] + 1 < MaxAttempts
  /\ pending' = (pending \ SameKey(worker[q])) \cup {worker[q]}
  /\ queued' = [queued EXCEPT ![q] = @ \cup {worker[q]}]
  /\ told' = told \ {worker[q]}
  /\ WorkerFree(q)
  /\ UNCHANGED <<jobs, attempts, cancelled, results, words, turnVars, alive>>

\* Bug: the job the requeued one replaces stays pending too.
RequeueBeside(q) ==
  /\ phase[q] = "run" /\ worker[q] \in cancelled
  /\ attempts[worker[q]] + 1 < MaxAttempts
  /\ attempts' = [attempts EXCEPT ![worker[q]] = @ + 1]
  /\ pending' = pending \cup {worker[q]}
  /\ queued' = [queued EXCEPT ![q] = @ \cup {worker[q]}]
  /\ told' = told \ {worker[q]}
  /\ WorkerFree(q)
  /\ UNCHANGED <<jobs, cancelled, results, words, turnVars, alive>>

\* The run was preempted and there are attempts left: back to the queue, and
\* the pending job of its session and step again, whoever that was by now.
Requeue(q) ==
  /\ phase[q] = "run" /\ worker[q] \in cancelled
  /\ attempts[worker[q]] + 1 < MaxAttempts
  /\ attempts' = [attempts EXCEPT ![worker[q]] = @ + 1]
  /\ pending' = (pending \ SameKey(worker[q])) \cup {worker[q]}
  /\ queued' = [queued EXCEPT ![q] = @ \cup {worker[q]}]
  /\ told' = told \ {worker[q]}
  /\ WorkerFree(q)
  /\ UNCHANGED <<jobs, cancelled, results, words, turnVars, alive>>

\* Bug: a preempted run is recorded, and queued again all the same.
RecordAndRequeue(q) ==
  /\ phase[q] = "run"
  /\ \E outcome \in Outcomes(worker[q]) :
       /\ Say(worker[q], outcome)
       /\ queued' = IF outcome = "preempted" THEN [queued EXCEPT ![q] = @ \cup {worker[q]}] ELSE queued
       /\ pending' = IF outcome = "preempted" THEN (pending \ SameKey(worker[q])) \cup {worker[q]} ELSE pending
  /\ results' = (results \ SameKey(worker[q])) \cup {worker[q]}
  /\ told' = told \ {worker[q]}
  /\ WorkerFree(q)
  /\ UNCHANGED <<jobs, attempts, cancelled, turnVars, alive>>

\* The run is over for good: its result waits for the session's next turn and
\* its trace is told.
Record(q) ==
  /\ phase[q] = "run"
  /\ \E outcome \in Outcomes(worker[q]) :
       /\ outcome = "preempted" => attempts[worker[q]] + 1 >= MaxAttempts
       /\ Say(worker[q], outcome)
  /\ results' = (results \ SameKey(worker[q])) \cup {worker[q]}
  /\ told' = told \ {worker[q]}
  /\ WorkerFree(q)
  /\ UNCHANGED <<jobs, queued, pending, attempts, cancelled, turnVars, alive>>

\* The shutdown cancels the local worker, then the hosted one; a job in hand is
\* lost with it.
StopWorker(q) ==
  /\ q \in alive
  /\ q = "cloud" => "local" \notin alive
  /\ alive' = alive \ {q}
  /\ WorkerFree(q)
  /\ UNCHANGED <<jobVars, queued, pending, results, turnVars>>

Next ==
  \/ \E s \in Sessions : TurnBegins(s) \/ \E q \in Queues : TurnEnds(s, q)
  \/ \E q \in Queues : Drop(q) \/ Take(q) \/ Start(q) \/ GateSignal(q) \/ Requeue(q) \/ Record(q) \/ StopWorker(q)

Spec == Init /\ [][Next]_vars

\* The workers run, the gate grants (EngineGate's EveryWaitEnds), a run ends.
WorkerSteps(q) == Drop(q) \/ Take(q) \/ Start(q) \/ Requeue(q) \/ Record(q)
FairSpec == Spec /\ \A q \in Queues : WF_vars(WorkerSteps(q))

-----------------------------------------------------------------------------
Working == {worker[q] : q \in {p \in Queues : phase[p] # "idle"}}
InQueue == queued["local"] \cup queued["cloud"]
Gone(j) == j \notin InQueue \cup Working

\* The types of the queue's state (post_commit.py:76-93).
TypeOK ==
  /\ jobs \in Seq([session : Sessions, step : Steps, queue : Queues])
  /\ queued \in [Queues -> SUBSET Enqueued]
  /\ pending \subseteq Enqueued
  /\ worker \in [Queues -> Enqueued \cup {NoJob}]
  /\ phase \in [Queues -> {"idle", "gate", "run"}]
  /\ \A q \in Queues : phase[q] = "idle" <=> worker[q] = NoJob
  /\ attempts \in [JobIds -> 0 .. MaxAttempts - 1]
  /\ cancelled \subseteq Enqueued
  /\ results \subseteq Enqueued
  /\ words \in [JobIds -> Seq(FinalWords)]
  /\ told \subseteq Enqueued
  /\ turns \in 0 .. MaxTurns /\ open \in [Sessions -> 0 .. MaxTurns]
  /\ alive \subseteq Queues

\* A pending job is in its queue, and in no worker's hands: the session's step
\* it stands for will be looked at again (post_commit.py:85-88, 199-209).
PendingIsQueued ==
  /\ pending \subseteq InQueue
  /\ InQueue \cap Working = {}
  /\ \A j, k \in pending : Key(j) = Key(k) => j = k

\* A job has at most one final word, and after it the job is over: neither
\* queued nor run again (post_commit.py:59-62).
FinalWordIsFinal ==
  \A j \in Enqueued : Len(words[j]) <= 1 /\ (words[j] # <<>> => Gone(j))

\* A job that was running, on either engine, when a turn of its session began
\* is never reported done by that run: "the next user turn's `preempt` signals
\* the running job of either kind" (post_commit.py:71-75).
NoDoneBehindATurn ==
  [][\A j \in Enqueued : j \in told => words'[j] # Append(words[j], "ok")]_vars

\* However often the user turns preempt it, a job leaves the queue: the
\* attempts run out (post_commit.py:35-38).
EveryJobLeaves == \A j \in JobIds : (j \in Enqueued) ~> (alive # Queues \/ (j \in Enqueued /\ Gone(j)))

\* post_commit.py:85-88, "a fresher enqueue for the same pair replaces it; the
\* stale one, if the worker dequeues it later, is dropped": no job is taken
\* from a queue that holds a fresher one of its session and step.
StaleIsDropped ==
  [][\A q \in Queues : worker'[q] # worker[q] /\ worker'[q] # NoJob
        => \A k \in queued[q] : k \in SameKey(worker'[q]) => k <= worker'[q]]_vars

\* The queues, the workers and what is pending, seen as the board of JobBoard.
Place(j) ==
  CASE j \notin Enqueued -> "nowhere"
    [] j \in InQueue -> "waiting"
    [] j \in Working -> "in hand"
    [] j \in Enqueued /\ Gone(j) -> "gone"
Places == [j \in JobIds |-> Place(j)]
Told == told \cap Working

Board == INSTANCE JobBoard WITH
           Ids <- JobIds,
           Sides <- Queues,
           MaxTries <- MaxAttempts,
           place <- Places,
           backs <- attempts,
           told <- Told,
           open <- alive

\* Every step of the queue is a step of the board: a job is dropped only for
\* another of its session and step, a stale one is taken only if it was requeued,
\* each side runs one at a time, each says one word at its end, and one that was
\* told to stop is not done (post_commit.py:35-105).
ImplementsBoard == Board!BoardSpec
=============================================================================
