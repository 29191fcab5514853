----------------------------- MODULE EngineGate -----------------------------
(***************************************************************************)
(* core/turn/gate.py, class EngineGate: the slots of one engine, shared by *)
(* every door and every background job.                                    *)
(*                                                                         *)
(* One element of Requests is one call of acquire() with its ticket: the   *)
(* ids that release() compares come from a counter and are never reused,   *)
(* so the call stands for the id.  acquire() and release() run on one      *)
(* event loop and hold the condition's lock only between two awaits; what  *)
(* lies between two awaits is one action here.  The one await inside       *)
(* acquire() is condition.wait(): `waiters` is the condition's own deque,  *)
(* `woken` the waiters notify_all() has put on the loop's ready queue, in  *)
(* that order, that have not run yet.  Between a notification and the      *)
(* waiter's turn to run, a new call of acquire() may run first.            *)
(***************************************************************************)
EXTENDS Naturals, Sequences, FiniteSets, SequencesExt

CONSTANTS UserTurns,   \* calls made with Priority.USER_TURN (a timeout, no revocation)
          Jobs,        \* calls made with Priority.COMPACT or MEMORY_WRITE
          Slots        \* EngineGate._slots

\* _gate_slots and _cloud_gate_slots never give less than one slot, and a
\* call is made with one priority.
ASSUME SlotsAssumption == Slots \in Nat \ {0}
ASSUME RequestsAssumption == UserTurns \cap Jobs = {}

Requests == UserTurns \cup Jobs

VARIABLES called,      \* the calls made so far
          waiters,     \* the condition's deque of waiters
          woken,       \* notified waiters, in the order the loop will run them
          holders,     \* EngineGate._holders
          cancelled    \* background calls whose cancel_event is set

vars == <<called, waiters, woken, holders, cancelled>>

Init ==
  /\ called = {}
  /\ waiters = <<>>
  /\ woken = <<>>
  /\ holders = {}
  /\ cancelled = {}

Free == Cardinality(holders) < Slots

\* Bug: the holders' priorities are not looked at.
PreemptEveryHolder(r) ==
  cancelled' = IF r \in UserTurns THEN cancelled \cup holders ELSE cancelled

\* _preempt_lower_locked(USER_TURN): every background holder's event is set.
PreemptLower(r) ==
  cancelled' = IF r \in UserTurns THEN cancelled \cup (holders \cap Jobs) ELSE cancelled

\* The loop of acquire(): a free slot is taken, with none the call waits, at
\* the end of the deque.
TakeOrWait(r) ==
  \/ /\ Free
     /\ holders' = holders \cup {r}
     /\ waiters' = waiters
  \/ /\ ~Free
     /\ waiters' = Append(waiters, r)
     /\ holders' = holders

\* acquire() up to its first await, or to its return.
Acquire(r) ==
  /\ r \notin called
  /\ called' = called \cup {r}
  /\ PreemptLower(r)
  /\ TakeOrWait(r)
  /\ UNCHANGED woken

\* Bug: the holders are told on arrival only.
ResumeUntold ==
  /\ woken # <<>>
  /\ TakeOrWait(Head(woken))
  /\ woken' = Tail(woken)
  /\ UNCHANGED <<called, cancelled>>

\* A notified waiter runs: preempt again, then the loop's condition again.
Resume ==
  /\ woken # <<>>
  /\ PreemptLower(Head(woken))
  /\ TakeOrWait(Head(woken))
  /\ woken' = Tail(woken)
  /\ UNCHANGED called

\* The wait of r ends without a slot, notified or not.
LeaveWait(r) ==
  /\ \/ \E i \in DOMAIN waiters : /\ waiters[i] = r
                                  /\ waiters' = RemoveAt(waiters, i)
                                  /\ woken' = woken
     \/ \E i \in DOMAIN woken : /\ woken[i] = r
                                /\ woken' = RemoveAt(woken, i)
                                /\ waiters' = waiters
  /\ UNCHANGED <<called, holders, cancelled>>

\* A user turn waits at most NEXE_ENGINE_GATE_WAIT_S, then GateBusy: the 429.
TimeOut(r) == r \in UserTurns /\ LeaveWait(r)

\* The task that waits is cancelled: the client left, or the worker stops.
Abandon(r) == LeaveWait(r)

\* Bug: notify() for notify_all(), one waiter per slot given back.
ReleaseNotifyOne(r) ==
  /\ r \in holders
  /\ holders' = holders \ {r}
  /\ woken' = IF waiters = <<>> THEN woken ELSE Append(woken, Head(waiters))
  /\ waiters' = IF waiters = <<>> THEN waiters ELSE Tail(waiters)
  /\ UNCHANGED <<called, cancelled>>

\* release(): the first one notifies every waiter, a second one finds no slot.
Release(r) ==
  /\ r \in holders
  /\ holders' = holders \ {r}
  /\ woken' = woken \o waiters
  /\ waiters' = <<>>
  /\ UNCHANGED <<called, cancelled>>

Next ==
  \/ \E r \in Requests : Acquire(r) \/ TimeOut(r) \/ Abandon(r) \/ Release(r)
  \/ Resume

Spec == Init /\ [][Next]_vars

\* The loop runs what is ready, and every holder gives its slot back: a turn
\* ends, a job ends or notices its event.  Nobody is obliged to call, to time
\* out or to be cancelled.
FairSpec == Spec /\ WF_vars(Resume) /\ \A r \in Requests : WF_vars(Release(r))

-----------------------------------------------------------------------------
Waiting == Range(waiters) \cup Range(woken)

\* The types of the gate's state: at every await the deque, the ready queue
\* and the holders are made of calls already made, and only background calls
\* were ever signalled (gate.py:109-188).
TypeOK ==
  /\ called \subseteq Requests
  /\ waiters \in Seq(called)
  /\ woken \in Seq(called)
  /\ holders \subseteq called
  /\ cancelled \subseteq called \cap Jobs

\* Never more generations on the engine than it has slots: the two parallel
\* generations that crashed Metal (gate.py:34-38).
SlotBound == Cardinality(holders) <= Slots

\* A call waits in at most one place and holds nothing while it waits: the
\* same turn is never granted twice by one acquire().
OnePlace ==
  /\ IsInjective(waiters)
  /\ IsInjective(woken)
  /\ Range(waiters) \cap Range(woken) = {}
  /\ holders \cap Waiting = {}

\* No lost wake-up: nobody sleeps in the deque beside a free slot, whatever
\* timed out or was cancelled between a release and the waiters' turn to run.
NoSleeperBesideFreeSlot == waiters # <<>> => ~Free

\* While a user turn sleeps, every background holder has been told to give its
\* slot back, the ones that were granted theirs after it first asked included:
\* it asks again after every wake-up (gate.py:137-152).
SleepingTurnHasTold ==
  (Range(waiters) \cap UserTurns # {}) => (holders \cap Jobs \subseteq cancelled)

\* Once no further call is made, every wait ends: a waiter is granted a slot
\* or gives up; it is never forgotten behind the turns that came after it.
EveryWaitEnds == \A r \in Requests : r \in Waiting ~> r \notin Waiting

-----------------------------------------------------------------------------
\* The gate implements the pool: who wants a slot is who waits for one.
Pool == INSTANCE SlotPool WITH
          wanting <- Waiting,
          holding <- holders,
          over <- called \ (Waiting \cup holders),
          told <- cancelled

\* Every step of the gate is a step of the pool: at most Slots are out, each is
\* given back once, only background holders are told, and by user turns only.
ImplementsPool == Pool!PoolSpec
=============================================================================
