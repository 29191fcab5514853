--------------------------- MODULE CircuitBreaker ---------------------------
(***************************************************************************)
(* core/resilience/circuit_breaker.py: the breaker in front of the Ollama  *)
(* daemon, and the way its call sites use it (plugins/ollama_module): ask  *)
(* leave with check_circuit(), call, and record what came of it.  A call   *)
(* whose answer says nothing of the daemon's health (a missing model, a    *)
(* bad request, a cancelled task) records nothing.                         *)
(*                                                                         *)
(* failure_count is read only while the circuit is closed and              *)
(* success_count only while it is half open, and every transition clears   *)
(* both: each is kept where it is read.  Time is one bit, aged: whether    *)
(* timeout_seconds have gone by since the instant the present state is     *)
(* measured from (the last failure while it is open, the last probe let    *)
(* through while it is half open).                                         *)
(***************************************************************************)
EXTENDS Naturals, FiniteSets

CONSTANTS Callers,            \* whoever calls the daemon, one call at a time each
          FailureThreshold,   \* failures in a row that open the circuit
          SuccessThreshold    \* successes in a row that close it again

ASSUME ThresholdAssumption ==
  /\ FailureThreshold \in Nat \ {0}
  /\ SuccessThreshold \in Nat \ {0}

VARIABLES mode,      \* CircuitState
          fails,     \* failure_count
          wins,      \* success_count
          probing,   \* half_open_inflight = 1
          aged,      \* the time-out of the present state has run out
          call       \* what each caller is at: a call that is out may be served

breakerVars == <<mode, fails, wins, probing, aged, call>>
circuit == <<mode, fails, wins, probing, aged>>

\* "again": the daemon was asked a second time inside the same call, with
\* thinking turned off, because the reasoning had eaten the whole answer.
CallStates == {"no", "out", "served", "again"}

BreakerTypeOK ==
  /\ mode \in {"closed", "open", "half_open"}
  /\ fails \in 0 .. FailureThreshold - 1
  /\ wins \in 0 .. SuccessThreshold - 1
  /\ probing \in BOOLEAN
  /\ aged \in BOOLEAN
  /\ call \in [Callers -> CallStates]

BreakerInit ==
  /\ mode = "closed"
  /\ fails = 0
  /\ wins = 0
  /\ probing = FALSE
  /\ aged = FALSE
  /\ call = [c \in Callers |-> "no"]

-----------------------------------------------------------------------------
(* What the breaker does. *)

\* _transition_to(), with the slot of the probe that comes with it.
Transition(to, probe) ==
  /\ mode' = to
  /\ fails' = 0
  /\ wins' = 0
  /\ probing' = probe
  /\ aged' = FALSE

\* Bug: a probe that never resolves keeps its slot for ever.
CanExecuteWedged ==
  \/ mode = "closed"
  \/ mode = "open" /\ aged
  \/ mode = "half_open" /\ ~probing
\* _can_execute() says yes.
CanExecute ==
  \/ mode = "closed"
  \/ mode = "open" /\ aged
  \/ mode = "half_open" /\ (~probing \/ aged)

LetThrough ==
  /\ CanExecute
  /\ \/ mode = "closed" /\ UNCHANGED circuit
     \/ mode = "open" /\ Transition("half_open", TRUE)
     \/ /\ mode = "half_open"
        /\ probing' = TRUE
        /\ aged' = FALSE
        /\ UNCHANGED <<mode, fails, wins>>

RecordSuccess ==
  \/ mode = "open" /\ UNCHANGED circuit
  \/ mode = "closed" /\ fails' = 0 /\ UNCHANGED <<mode, wins, probing, aged>>
  \/ mode = "half_open" /\ wins + 1 >= SuccessThreshold /\ Transition("closed", FALSE)
  \/ /\ mode = "half_open" /\ wins + 1 < SuccessThreshold
     /\ wins' = wins + 1
     /\ probing' = FALSE
     /\ UNCHANGED <<mode, fails, aged>>

RecordFailure ==
  \/ mode = "open" /\ aged' = FALSE /\ UNCHANGED <<mode, fails, wins, probing>>
  \/ mode = "half_open" /\ Transition("open", FALSE)
  \/ mode = "closed" /\ fails + 1 >= FailureThreshold /\ Transition("open", FALSE)
  \/ /\ mode = "closed" /\ fails + 1 < FailureThreshold
     /\ fails' = fails + 1
     /\ UNCHANGED <<mode, wins, probing, aged>>

\* The clock.
Age ==
  /\ mode # "closed"
  /\ ~aged
  /\ aged' = TRUE
  /\ UNCHANGED <<mode, fails, wins, probing, call>>

-----------------------------------------------------------------------------
(* What a caller does. *)

Becomes(c, what) == call' = [call EXCEPT ![c] = what]

Admit(c) ==
  /\ call[c] = "no"
  /\ LetThrough
  /\ Becomes(c, "out")

\* The daemon accepted the request: recorded before a word of the answer.
Served(c) ==
  /\ call[c] = "out"
  /\ RecordSuccess
  /\ Becomes(c, "served")

\* Asked again without thinking, and accepted again: a second success of the
\* same call, and no second leave.
ServedAgain(c) ==
  /\ call[c] = "served"
  /\ RecordSuccess
  /\ Becomes(c, "again")

\* A transport error, a time-out or a 5xx; of the second request also a refusal.
Broke(c) ==
  /\ call[c] # "no"
  /\ RecordFailure
  /\ Becomes(c, "no")

\* The call is over and says nothing of the daemon: answered to the end, a 4xx,
\* or the task cancelled.  A probe that ends so keeps its slot.
EndQuietly(c) ==
  /\ call[c] # "no"
  /\ Becomes(c, "no")
  /\ UNCHANGED circuit

CallerStep(c) == Admit(c) \/ Served(c) \/ ServedAgain(c) \/ Broke(c) \/ EndQuietly(c)

BreakerNext == Age \/ \E c \in Callers : CallerStep(c)

BreakerSpec == BreakerInit /\ [][BreakerNext]_breakerVars
=============================================================================
