------------------------------ MODULE TurnRun ------------------------------
(***************************************************************************)
(* core/turn/run.py and the doors that call it: one user turn walked       *)
(* through TURN_STEPS, by run_turn (JSON) or by stream_turn (a streamed    *)
(* body), its session's lease, the jobs it leaves behind and its record in *)
(* the ring of the last turns (turn_store.py).                             *)
(*                                                                         *)
(* What a step computes is its outcome.  An action is what happens when a  *)
(* step ends, up to where the code can next be interrupted: the outcome,   *)
(* the steps after it that this turn does not run or hands to the queue,   *)
(* and the start of the next.  The consumer of a streamed body is the web  *)
(* server, which may let it go at any of its suspension points, before it  *)
(* has asked for the first chunk included.  A JSON answer of the API door  *)
(* is only put down by its step: it is written by a background task, once  *)
(* the response is out.  That a write to the disk may fail and be logged   *)
(* is Conversation's.  A job ends with its final word; one that            *)
(* PostCommitQueue drops without a word never ends here.                   *)
(***************************************************************************)
EXTENDS Naturals, FiniteSets

CONSTANTS Doors,     \* "ui": /ui/chat; "api": /v1/chat/completions
          MaxOthers, \* bound: times that newer turns push this one out of the ring
          NoStep, NoRecord

ASSUME DoorsAssumption == Doors \subseteq {"ui", "api"}
ASSUME MaxOthersAssumption == MaxOthers \in Nat

TurnSteps == <<"validate", "authorize", "sanitize", "session", "persist_user_turn", "intent", "recall",
               "clock", "system_prompt", "engine", "budget", "generate", "postprocess",
               "persist_assistant_turn", "memory.write", "emit", "describe_image", "compact">>
Steps == {TurnSteps[i] : i \in 1 .. 18}
Index(s) == CHOOSE i \in 1 .. 18 : TurnSteps[i] = s

ASSUME NoStepAssumption == NoStep \notin Steps

MustHave == Steps \ {"intent", "recall", "clock", "memory.write", "describe_image", "compact"}
Prefix == {s \in Steps : Index(s) < Index("generate")}
PostCommit == {"describe_image", "compact"}
AfterShortCircuit == {"persist_assistant_turn", "emit"}
AfterCancel == {"persist_assistant_turn"}
SkipOnResume == {"intent", "recall", "describe_image", "compact"}

\* The adapters that await; the others run without giving the loop back.
Suspending == {"validate", "intent", "recall", "engine", "budget", "generate", "postprocess", "memory.write", "emit"}

VARIABLES door, streaming, resume,  \* the request
          phase,    \* handler, first (a body driven by the handler), ready (the response), body, closed
          at,       \* the step that runs, or NoStep
          left,     \* the steps after it that the turn still means to run
          outcome,  \* ctx.outcomes
          partial,  \* ctx.partial
          lease,    \* does the turn hold its session's lease?
          commits,  \* times the answer was given to the session to keep
          owed,     \* the background task that will give it is put down
          jobs,     \* jobs of this turn that have not had their final word
          said,     \* emit_turn_trace was called
          record,   \* the turn's record in the ring, or NoRecord
          unread,   \* history: the response was let go before its body was asked for
          others

request == <<door, streaming, resume>>
vars == <<request, phase, at, left, outcome, partial, lease, commits, owed, jobs, said, record, unread, others>>

Init ==
  /\ door \in Doors /\ streaming \in BOOLEAN /\ resume \in BOOLEAN
  /\ phase = "handler"
  /\ at = "validate" /\ left = Steps \ {"validate"}
  /\ outcome = [s \in Steps |-> "none"]
  /\ partial = FALSE /\ lease = FALSE /\ commits = 0 /\ owed = FALSE
  /\ jobs = {} /\ said = FALSE /\ record = NoRecord /\ unread = FALSE /\ others = 0

-----------------------------------------------------------------------------
(* The record of the turn (TurnStore).  fell: the steps said "failed".     *)

NewRecord == [steps |-> {}, fell |-> {}, pending |-> {}, final |-> FALSE]
OldRecord == IF record = NoRecord THEN NewRecord ELSE record

\* Bug: what is pending is not looked at.
DoneWhateverPends(r) == r.steps # {} /\ ("emit" \in r.steps \/ r.fell # {})

\* Bug: a turn that fell never reaches emit.
DoneAtEmit(r) == r.pending = {} /\ "emit" \in r.steps

Done(r) == r.steps # {} /\ r.pending = {} /\ ("emit" \in r.steps \/ r.fell # {})

Finished(r) == [r EXCEPT !.final = Done(r)]

\* on_step, for the events of the steps in S, of which those in F fell.
OnStep(S, F) ==
  Finished([OldRecord EXCEPT !.steps = @ \cup S, !.fell = (@ \ S) \cup F, !.pending = @ \ S])

\* on_turn: the line says what is pending.
OnTurn(r, P) == Finished([r EXCEPT !.pending = P \ r.steps])

-----------------------------------------------------------------------------
(* The walk.                                                               *)

First(L) == CHOOSE s \in L : \A t \in L : Index(s) <= Index(t)

\* Bug (before #1040): what a broken answer said goes to memory.
DeclinedOnResumeOnly(s, broken) == resume /\ s \in SkipOnResume

\* _skipped_by_policy
Declined(s, broken) ==
  \/ broken /\ s \in {"memory.write", "describe_image", "compact"}
  \/ resume /\ s \in SkipOnResume

\* The steps at the head of L that are passed by: declined, or for the queue.
Passed(L, broken) ==
  {s \in L : \A t \in L : Index(t) <= Index(s) => Declined(t, broken) \/ t \in PostCommit}

Handed(L, broken) == {s \in Passed(L, broken) : s \in PostCommit /\ ~Declined(s, broken)}

\* The outcomes once the step at work has ended with o and those in S are skipped.
Outcomes(o, S, H) ==
  [s \in Steps |-> IF s = at THEN o
                   ELSE IF s \in H THEN "queued"
                   ELSE IF s \in S /\ outcome[s] = "none" THEN "skipped" ELSE outcome[s]]

Shut == phase' = "closed" /\ at' = NoStep /\ left' = {}

\* The wire closes and the line is said.
Close == Shut /\ said' = TRUE

\* Where the walk goes on with the step s: a stream leaves the handler at the
\* first step past the prefix.  The web door returns the body unread; the API
\* door reads its first chunk.
Begin(s, L) ==
  IF phase = "handler" /\ streaming /\ s \notin Prefix
  THEN IF door = "ui" THEN phase' = "ready" /\ at' = NoStep /\ left' = L
       ELSE phase' = "first" /\ at' = s /\ left' = L \ {s}
  ELSE phase' = phase /\ at' = s /\ left' = L \ {s}

\* The step at work has ended with o; the steps in S are out; L is what is left.
GoOn(o, S, L, broken) ==
  LET handed == Handed(L, broken)
      skipped == S \cup (Passed(L, broken) \ handed)
      rest == L \ Passed(L, broken)
      told == OnStep({at} \cup skipped, {}) IN
  /\ outcome' = Outcomes(o, skipped, handed)
  /\ partial' = broken
  /\ jobs' = jobs \cup handed
  /\ IF rest = {}
     THEN Close /\ record' = OnTurn(told, handed)
     ELSE Begin(First(rest), rest) /\ record' = told /\ said' = said
  /\ UNCHANGED <<request, unread, others>>

\* A streamed body's first chunk comes from the first step that yields.
Speaking == at \in {"generate", "emit"}
Working == at # NoStep /\ phase \in {"handler", "first", "body"}
MayEnd == Working /\ ~(phase = "first" /\ Speaking)

\* The lease is taken by the session step; it is given back by emit and, at the
\* web door, as soon as a broken answer is stored.
LeaseAfter(s) ==
  CASE s = "session" -> TRUE
    [] s = "emit" -> FALSE
    [] s = "persist_assistant_turn" /\ door = "ui" /\ streaming /\ partial -> FALSE
    [] OTHER -> lease

\* A JSON answer of the API door is written after the response.
Deferred == door = "api" /\ ~streaming

\* The answer is given to the session; or a task is put down that will, if the
\* response has a text.
PersistAnswer ==
  IF Deferred
  THEN owed' \in BOOLEAN /\ commits' = commits
  ELSE commits' = commits + 1 /\ owed' = owed

StepOk ==
  /\ MayEnd
  /\ GoOn("ok", {}, left, partial)
  /\ lease' = LeaseAfter(at)
  /\ IF at = "persist_assistant_turn" THEN PersistAnswer ELSE UNCHANGED <<commits, owed>>

\* An optional step that raises.
StepDegraded ==
  /\ MayEnd /\ at \notin MustHave
  /\ GoOn("degraded", {}, left, partial)
  /\ UNCHANGED <<lease, commits, owed>>

\* The engine breaks after its first words are on the wire (ctx.error).
GenerateBreaks ==
  /\ phase = "body" /\ at = "generate"
  /\ GoOn("degraded", {}, left, TRUE)
  /\ UNCHANGED <<lease, commits, owed>>

\* Bug: the steps a short circuit leaves out are not recorded.
SkipsNothing(L) == {}

\* _split_on_short_circuit: what the turn answered by itself does not run.
LeftOut(L) == L \ AfterShortCircuit

\* A memory command at intent; at the web door also an internal error.
ShortCircuits ==
  /\ MayEnd
  /\ at = "intent" \/ (door = "ui" /\ at \in {"engine", "budget", "generate"})
  /\ GoOn("short_circuit", LeftOut(left), left \cap AfterShortCircuit, partial)
  /\ UNCHANGED <<lease, commits, owed>>

\* Bug (before #1105): the door lets go of a failed turn, and not of its lease.
FailHolding ==
  /\ Working /\ at \in MustHave
  /\ outcome' = Outcomes("failed", {}, {})
  /\ record' = OnTurn(OnStep({at}, {at}), {})
  /\ Close
  /\ owed' = FALSE
  /\ UNCHANGED <<request, partial, lease, commits, jobs, unread, others>>

\* A step the turn cannot do without raises: the exception goes up to the door.
\* The tasks put down go with the response there is not.
StepFails ==
  /\ Working /\ at \in MustHave
  /\ outcome' = Outcomes("failed", {}, {})
  /\ record' = OnTurn(OnStep({at}, {at}), {})
  /\ Close /\ lease' = FALSE /\ owed' = FALSE
  /\ UNCHANGED <<request, partial, commits, jobs, unread, others>>

\* The handler is cancelled while a step awaits, before there is a body.
HandlerCancelled ==
  /\ phase = "handler" /\ at \in Suspending
  /\ outcome' = Outcomes("cancelled", {}, {})
  /\ record' = OnTurn(OnStep({at}, {}), {})
  /\ Close /\ lease' = FALSE /\ owed' = FALSE
  /\ UNCHANGED <<request, partial, commits, jobs, unread, others>>

-----------------------------------------------------------------------------
(* The streamed body.                                                      *)

\* Bug: the answer is committed again although it was.
CommittedAnew == AfterCancel

\* _commit_on_cancel: the part of the tail that still runs.
Committed == left \cap AfterCancel

\* The step at work is closed, what was generated is written, the rest skipped
\* and the line said.
CommitAndSkip ==
  /\ outcome' = [Outcomes("cancelled", left, {}) EXCEPT !["persist_assistant_turn"] =
                   IF "persist_assistant_turn" \in Committed THEN "ok" ELSE @]
  /\ commits' = commits + Cardinality(Committed)
  /\ record' = OnTurn(OnStep({at} \cup left, {}), {})
  /\ Close

\* What is written raises: the rest is not even skipped, no line is said.
CommitFails ==
  /\ Committed # {}
  /\ outcome' = [Outcomes("cancelled", {}, {}) EXCEPT !["persist_assistant_turn"] = "failed"]
  /\ record' = OnStep({at, "persist_assistant_turn"}, {"persist_assistant_turn"})
  /\ Shut
  /\ UNCHANGED <<commits, said>>

CutBody ==
  /\ CommitAndSkip \/ CommitFails
  /\ UNCHANGED <<request, partial, owed, jobs, others>>

\* Bug: a turn cut by its client still leaves its jobs behind.
CutQueueing ==
  /\ phase \in {"first", "body"} /\ at \in Suspending
  /\ outcome' = [Outcomes("cancelled", left \ PostCommit, left \cap PostCommit)
                   EXCEPT !["persist_assistant_turn"] = IF "persist_assistant_turn" \in Committed THEN "ok" ELSE @]
  /\ commits' = commits + Cardinality(Committed)
  /\ jobs' = left \cap PostCommit
  /\ record' = OnTurn(OnStep(({at} \cup left) \ PostCommit, {}), left \cap PostCommit)
  /\ Close /\ lease' = FALSE
  /\ UNCHANGED <<request, partial, owed, unread, others>>

\* The client leaves while the body is driven: by its consumer, inside releasing,
\* or by the API door's handler, which gives the lease back itself.
Cut ==
  /\ phase \in {"first", "body"} /\ at \in Suspending
  /\ CutBody /\ lease' = FALSE /\ UNCHANGED unread

\* The API door has the first chunk: the response is returned.
FirstChunk ==
  /\ phase = "first" /\ Speaking
  /\ phase' = "ready"
  /\ UNCHANGED <<request, at, left, outcome, partial, lease, commits, owed, jobs, said, record, unread, others>>

\* The web server asks for the first chunk.
Pull ==
  /\ phase = "ready"
  /\ phase' = "body"
  /\ at' = IF at = NoStep THEN First(left) ELSE at
  /\ left' = left \ {at'}
  /\ UNCHANGED <<request, outcome, partial, lease, commits, owed, jobs, said, record, unread, others>>

\* The client is gone before the server asks: releasing never starts.  The web
\* door's body never starts either; the API door's is suspended, and closed by
\* the loop when it is collected: a turn cut while it generates gives its lease
\* back where it stores the answer.
Unread ==
  /\ phase = "ready" /\ unread' = TRUE
  /\ IF at = NoStep
     THEN /\ phase' = "closed" /\ left' = {}
          /\ UNCHANGED <<request, at, outcome, partial, lease, commits, owed, jobs, said, record, others>>
     ELSE CutBody /\ lease' = (lease /\ ~(at = "generate" /\ said'))

-----------------------------------------------------------------------------
(* After the turn.                                                         *)

\* The response is out: the task gives the answer to the session, unless the
\* server stops first.
BackgroundRuns ==
  /\ phase = "closed" /\ owed
  /\ owed' = FALSE
  /\ commits' \in {commits, commits + 1}
  /\ UNCHANGED <<request, phase, at, left, outcome, partial, lease, jobs, said, record, unread, others>>

\* Bug: the event of a job brings back the record of a turn that left the ring.
JobEndsAnyway(j) ==
  /\ j \in jobs
  /\ jobs' = jobs \ {j}
  /\ \E F \in {{}, {j}} : record' = OnStep({j}, F)
  /\ UNCHANGED <<request, phase, at, left, outcome, partial, lease, commits, owed, said, unread, others>>

\* _finish: the late event of a job.
JobEnds(j) ==
  /\ j \in jobs
  /\ jobs' = jobs \ {j}
  /\ \E F \in {{}, {j}} : record' = IF record = NoRecord THEN NoRecord ELSE OnStep({j}, F)
  /\ UNCHANGED <<request, phase, at, left, outcome, partial, lease, commits, owed, said, unread, others>>

\* CAPACITY newer turns have come.
Forgotten ==
  /\ record # NoRecord /\ others < MaxOthers
  /\ record' = NoRecord
  /\ others' = others + 1
  /\ UNCHANGED <<request, phase, at, left, outcome, partial, lease, commits, owed, jobs, said, unread>>

Next ==
  \/ StepOk \/ StepDegraded \/ GenerateBreaks \/ ShortCircuits \/ StepFails \/ HandlerCancelled
  \/ FirstChunk \/ Pull \/ Unread \/ Cut
  \/ BackgroundRuns
  \/ \E j \in PostCommit : JobEnds(j)
  \/ Forgotten

Spec == Init /\ [][Next]_vars

-----------------------------------------------------------------------------
Fell == \E s \in Steps : outcome[s] = "failed"
Stopped == \E s \in Steps : outcome[s] = "cancelled"

\* The turn ran its course: it closed, no step it needs fell, and if its client
\* left, it left a streamed body under way.
RanItsCourse ==
  /\ phase = "closed" /\ said /\ ~Fell
  /\ Stopped => streaming /\ \A s \in Prefix : outcome[s] # "cancelled"

\* The types of the turn's state (core/turn/context.py, run.py, turn_store.py).
TypeOK ==
  /\ door \in Doors /\ streaming \in BOOLEAN /\ resume \in BOOLEAN
  /\ phase \in {"handler", "first", "ready", "body", "closed"}
  /\ at \in Steps \cup {NoStep} /\ left \subseteq Steps \ {at}
  /\ outcome \in [Steps -> {"none", "ok", "degraded", "short_circuit", "failed", "cancelled", "skipped", "queued"}]
  /\ partial \in BOOLEAN /\ lease \in BOOLEAN /\ said \in BOOLEAN /\ unread \in BOOLEAN
  /\ commits \in Nat /\ owed \in BOOLEAN
  /\ jobs \subseteq PostCommit
  /\ record \in [steps : SUBSET Steps, fell : SUBSET Steps, pending : SUBSET PostCommit, final : BOOLEAN] \cup {NoRecord}
  /\ others \in 0 .. MaxOthers
  /\ \A s \in left \cup {at} : s \in Steps => outcome[s] = "none"

\* I3 of ADR-007 (steps.py:176-178): nothing is done with the user's message
\* that may reach memory before the session has been given it to write; nothing
\* of the answer goes to memory before the answer has been given too, but for
\* the JSON answer of the API door, which is only put down by then
\* (adapters_api.py:814-820); and nothing a broken answer said is kept or worked on.
MemoryAfterDisk ==
  /\ outcome["intent"] \in {"ok", "degraded", "short_circuit"} => outcome["persist_user_turn"] = "ok"
  /\ at = "memory.write" \/ outcome["memory.write"] \in {"ok", "degraded", "cancelled"}
       => /\ outcome["persist_user_turn"] = "ok" /\ outcome["persist_assistant_turn"] = "ok"
          /\ (commits = 1 \/ Deferred) /\ ~partial
  /\ jobs # {} => outcome["emit"] = "ok" /\ ~partial

\* The answer is given to the session once: never twice, however the client
\* leaves, and not at all only if a step fell, the commit of a cut turn included
\* (run.py:29-32, 476-493).  The JSON answer of the API door is given after the
\* response and never to a turn that fell or was cancelled; a response without a
\* text, or a server that stops, loses it (chat.py:659-690).
CommittedOnce ==
  /\ commits <= 1 /\ (owed => commits = 0)
  /\ RanItsCourse /\ ~Deferred => commits = 1
  /\ Deferred /\ commits = 1 => phase = "closed" /\ outcome["emit"] = "ok"

\* After the client has left, only the commit runs: no call to a model, nothing
\* to memory, nothing queued (run.py:85-92).
CutSpendsNothing ==
  \A s, t \in Steps :
    outcome[s] = "cancelled" /\ Index(s) < Index(t) /\ t \notin AfterCancel => outcome[t] \in {"none", "skipped"}

\* The trace of a turn that ran its course says of every step what became of it
\* (run.py:42-44, 211-217).
WholeTrace == RanItsCourse => \A s \in Steps : outcome[s] # "none"

\* turn_store.py:82-87: the record of a turn is final exactly when the turn is
\* over and no job of it is owed a word, if it reached emit or fell.
FinalIffOver ==
  record # NoRecord =>
    (record.final <=> phase = "closed" /\ jobs = {} /\ (outcome["emit"] # "none" \/ Fell))

\* A job that ends late does not bring back the record of a turn that has left
\* the ring (turn_store.py:47-48).
LateBringsNothingBack == [][phase = "closed" /\ record = NoRecord => record' = NoRecord]_vars

\* The lease of the session does not outlive the turn, unless its response was
\* never read (lease.py:15-18).
LeaseEndsWithTurn == phase = "closed" /\ lease => unread

=============================================================================
