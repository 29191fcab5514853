--------------------------- MODULE EngineCascade ---------------------------
(***************************************************************************)
(* How a turn gets its answer (core/turn/engine_claim.py, engine_hold.py,  *)
(* cancel.py, api_cascade.py; the doors of core/turn/adapters_api.py and   *)
(* plugins/web_ui_module/api): the engines that may answer it, the slot,   *)
(* the monitor and the timers it holds meanwhile, and the loop that asks   *)
(* one engine after another until one claims the turn.                     *)
(*                                                                         *)
(* A door reads an engine in one of four ways: the whole answer            *)
(* ("v1json"), the whole answer chunk by chunk ("json"), or a stream given *)
(* to the client from its first event ("stream" on the web, where a        *)
(* failure before it is carried as a notice, and "v1stream").              *)
(*                                                                         *)
(* The gate is used as SlotPool promises it (EngineGate implements it).    *)
(* The Ollama daemon of the web doors is behind CircuitBreaker.  What an   *)
(* engine says is left out: it says something first, says it all, breaks,  *)
(* or runs over the byte cap.                                              *)
(***************************************************************************)
EXTENDS CircuitBreaker

CONSTANTS Turns,
          Engines,       \* the rows of ENGINE_TABLE
          Rank,          \* their order in it
          InProcess,     \* run in a worker thread of the server (MLX, llama.cpp)
          Guarded,       \* behind the breaker at the web doors (Ollama)
          Cloud,         \* hosted: what they are sent leaves the machine
          CanContinue,   \* can resume an answer that was cut
          OwnModel,      \* have a model of their own to stand in with
          Sees,          \* say that they can read an image
          Requests,      \* what each turn may ask, and of which server
          Slots,         \* of each of the two gates, the local and the hosted one
          None           \* no engine

Doors == {"json", "stream", "v1json", "v1stream"}

RequestType == [door : Doors,
                engine : Engines \cup {None},   \* named by the request
                prefers : Engines \cup {None},  \* named by the configuration
                live : SUBSET Engines,          \* loaded and serviceable
                resume : BOOLEAN,
                image : BOOLEAN,
                gate : BOOLEAN]                 \* the cloud gate was passed

ASSUME CascadeAssumption ==
  /\ Turns \subseteq Callers
  /\ None \notin Engines
  /\ Rank \in [Engines -> Nat]
  /\ \A e, f \in Engines : Rank[e] = Rank[f] => e = f
  /\ InProcess \cup Guarded \cup Cloud \subseteq Engines
  /\ Guarded \cap Cloud = {}
  /\ Requests \in [Turns -> SUBSET RequestType]
  /\ Slots \in Nat \ {0}

VARIABLES step,      \* where the turn is
          door,      \* how it reads an engine
          asked,     \* the engine it names, None for whichever is first
          allowed,   \* a hosted engine may be sent this turn
          left,      \* candidates not asked yet
          engine,    \* the one asked last
          passed,    \* those that failed it
          first,     \* the one that failed it first
          kept,      \* the one whose failure is kept to be shown
          notices,   \* history: those whose failure came as a stream that could be shown
          stop,      \* why the turn's cancel event is set, {} while it is not
          told,      \* the same of the event each engine was handed
          timer,     \* engines whose deadline is armed
          monitor,   \* turns whose disconnect monitor runs
          leaving,   \* turns whose client has gone
          running,   \* <<turn, engine>>: a worker thread generates
          outcome    \* how the turn ended

turnVars == <<step, door, asked, allowed, left, engine, passed, first, kept, notices,
              stop, told, timer, monitor, leaving, running, outcome>>
vars == <<breakerVars, turnVars>>
asking == <<door, asked, allowed, left, engine>>
failing == <<passed, first, kept, notices>>

Steps == {"idle", "waiting", "looking", "asked", "reading", "answering", "closing", "over"}
Reasons == {"gone", "deadline", "cap"}
Outcomes == {"none", "answer", "partial", "notice", "refused", "final", "exhausted", "busy", "unable", "left"}

TypeOK ==
  /\ BreakerTypeOK
  /\ step \in [Turns -> Steps]
  /\ door \in [Turns -> Doors \cup {"none"}]
  /\ asked \in [Turns -> Engines \cup {None}]
  /\ allowed \in [Turns -> BOOLEAN]
  /\ left \in [Turns -> SUBSET Engines]
  /\ engine \in [Turns -> Engines \cup {None}]
  /\ passed \in [Turns -> SUBSET Engines]
  /\ first \in [Turns -> Engines \cup {None}]
  /\ kept \in [Turns -> Engines \cup {None}]
  /\ notices \in [Turns -> SUBSET Engines]
  /\ stop \in [Turns -> SUBSET {"gone", "cap"}]
  /\ told \in [Turns -> [Engines -> SUBSET Reasons]]
  /\ timer \in [Turns -> SUBSET Engines]
  /\ monitor \subseteq Turns
  /\ leaving \subseteq Turns
  /\ running \subseteq Turns \X Engines
  /\ outcome \in [Turns -> Outcomes]

Init ==
  /\ BreakerInit
  /\ step = [t \in Turns |-> "idle"]
  /\ door = [t \in Turns |-> "none"]
  /\ asked = [t \in Turns |-> None]
  /\ allowed = [t \in Turns |-> FALSE]
  /\ left = [t \in Turns |-> {}]
  /\ engine = [t \in Turns |-> None]
  /\ passed = [t \in Turns |-> {}]
  /\ first = [t \in Turns |-> None]
  /\ kept = [t \in Turns |-> None]
  /\ notices = [t \in Turns |-> {}]
  /\ stop = [t \in Turns |-> {}]
  /\ told = [t \in Turns |-> [e \in Engines |-> {}]]
  /\ timer = [t \in Turns |-> {}]
  /\ monitor = {}
  /\ leaving = {}
  /\ running = {}
  /\ outcome = [t \in Turns |-> "none"]

-----------------------------------------------------------------------------
(* Which engines may answer (chat_engines/routing.py, live_candidates).    *)

\* asked_engine(): the one the request names, else the configured one; a hosted
\* engine is never asked for by configuration.
Asked(q) ==
  IF q.engine # None THEN q.engine
  ELSE IF q.prefers \in Cloud THEN None ELSE q.prefers

\* Bug: a hosted engine passed its gate has the local ones behind it.
CascadeBehindCloud(q) == {e \in q.live : e \in Cloud => q.gate}
\* resolve_engine_cascade(): a hosted engine is asked for by name, past its
\* gate, and then it is alone; it is nobody's fallback.
Cascade(q) ==
  IF q.engine \in Cloud
  THEN {e \in q.live : e = q.engine /\ q.gate}
  ELSE {e \in q.live : e \notin Cloud}

\* The order of the cascade: the engine asked for, then the table's.
Ahead(e, f, wanted) == e = wanted \/ (f # wanted /\ Rank[e] <= Rank[f])
Best(engines, wanted) == CHOOSE e \in engines : \A f \in engines : Ahead(e, f, wanted)

\* in_reserve(): a fallback, by what was asked and not by its place.
InReserve(e, wanted, isFirst) == IF wanted # None THEN e # wanted ELSE ~isFirst

\* live_candidates(): able_to_continue(), then _able_to_answer().
Candidates(q) ==
  LET resuming == IF q.resume THEN Cascade(q) \cap CanContinue ELSE Cascade(q)
      StandsIn(e) == InReserve(e, Asked(q), e = Best(resuming, Asked(q)))
  IN {e \in resuming : StandsIn(e) => e \in OwnModel /\ (q.image => e \in Sees)}

\* The turn came through /ui/chat.
OnTheWeb(t) == door[t] \in {"json", "stream"}

-----------------------------------------------------------------------------
(* The hold: slot, monitor, timers (core/turn/engine_hold.py, cancel.py).  *)

Holds(t) == step[t] \in {"looking", "asked", "reading", "answering"}
IsHosted(t) == asked[t] \in Cloud

\* The turns that hold a slot of the gate that t waits at (gate_for()).
BesideIn(t) == {u \in Turns : Holds(u) /\ IsHosted(u) = IsHosted(t)}

Handed(t) == passed[t] \cup ({engine[t]} \ {None})

Put(f, t, value) == f' = [f EXCEPT ![t] = value]

\* EngineHold.release() and what the door does after it: every timer is
\* disarmed and the slot goes back; the monitor is stopped, except that a web
\* stream leaves it running until the turn is stored.
EndHold(t, how) ==
  /\ Put(outcome, t, how)
  /\ IF door[t] = "stream" /\ how # "final"
     THEN Put(step, t, "closing") /\ UNCHANGED monitor
     ELSE Put(step, t, "over") /\ monitor' = monitor \ {t}
  /\ Put(timer, t, {})

\* Bug: the engines already asked have events of their own and never hear of it.
SetTurnOnly(t, why) ==
  /\ Put(stop, t, stop[t] \cup {why})
  /\ UNCHANGED told
\* TurnCancel.cancel() / .set(): the turn's event and each one it handed out.
SetAll(t, why) ==
  /\ Put(stop, t, stop[t] \cup {why})
  /\ Put(told, t, [e \in Engines |-> IF e \in Handed(t) THEN told[t][e] \cup {why} ELSE told[t][e]])

\* The request, its candidates and its hold.  The web door looks for candidates
\* before it waits for a slot; at /v1 the list is read with the slot in hand.
Ask(t) ==
  /\ step[t] = "idle"
  /\ \E q \in Requests[t] :
       /\ Put(door, t, q.door)
       /\ Put(asked, t, Asked(q))
       /\ Put(allowed, t, q.engine \in Cloud /\ q.gate)
       /\ Put(left, t, Candidates(q))
       /\ IF Candidates(q) = {} /\ (q.door \in {"json", "stream"} \/ q.engine \in Cloud)
          THEN /\ Put(step, t, "over")
               /\ Put(outcome, t, "unable")
               /\ UNCHANGED monitor
          ELSE /\ Put(step, t, "waiting")
               /\ monitor' = monitor \cup {t}
               /\ UNCHANGED outcome
  /\ UNCHANGED <<breakerVars, failing, engine, stop, told, timer, leaving, running>>

Enter(t) ==
  /\ step[t] = "waiting"
  /\ Cardinality(BesideIn(t)) < Slots
  /\ Put(step, t, "looking")
  /\ UNCHANGED <<breakerVars, asking, failing, stop, told, timer, monitor, leaving, running, outcome>>

\* GateBusy (429), or the task cancelled while it waits: nothing is held.
LeaveGate(t) ==
  /\ step[t] = "waiting"
  /\ Put(step, t, "over")
  /\ \/ Put(outcome, t, "busy")
     \/ t \in leaving /\ Put(outcome, t, "left")
  /\ monitor' = monitor \ {t}
  /\ UNCHANGED <<breakerVars, asking, failing, stop, told, timer, leaving, running>>

-----------------------------------------------------------------------------
(* The loop (claim_engine).                                                *)

\* _cancelled(): a client seen to have left is asked nothing more, after the
\* first engine.
Cancelled(t) == passed[t] # {} /\ "gone" \in stop[t]

\* The next engine is asked, with the event and the deadline it is handed
\* (TurnCancel.attempt()); an in-process one starts its worker.
AskEngine(t, e, rest, event) ==
  /\ step[t] = "looking" /\ left[t] # {} /\ ~Cancelled(t)
  /\ Put(engine, t, e)
  /\ Put(left, t, rest)
  /\ Put(told, t, [told[t] EXCEPT ![e] = event])
  /\ Put(timer, t, IF event = {} THEN timer[t] \cup {e} ELSE timer[t])
  /\ running' = IF e \in InProcess THEN running \cup {<<t, e>>} ELSE running
  /\ Put(step, t, "asked")
  /\ UNCHANGED <<breakerVars, door, asked, allowed, failing, stop, monitor, leaving, outcome>>

\* Bug: the engine asked stays a candidate.
TryTheSame(t) == LET e == Best(left[t], asked[t]) IN AskEngine(t, e, left[t], stop[t])
\* The best candidate left; the event it is handed is set if the turn's is.
Try(t) == LET e == Best(left[t], asked[t]) IN AskEngine(t, e, left[t] \ {e}, stop[t])

\* Nobody claimed the turn: a kept failure is shown, a web stream stands in the
\* first one, and any other door answers 503 (_stood_in, exhausted).  A list
\* that was empty from the start (/v1) is a 503 too.
RunOut(t) ==
  /\ step[t] = "looking"
  /\ left[t] = {} \/ Cancelled(t)
  /\ EndHold(t, IF passed[t] = {} THEN "unable"
                ELSE IF kept[t] # None \/ door[t] = "stream" THEN "notice" ELSE "exhausted")
  /\ UNCHANGED <<breakerVars, asking, failing, stop, told, leaving, running>>

-----------------------------------------------------------------------------
(* One engine (_try_engine and the doors' prepare() and read_first()).     *)

ThroughBreaker(t) == engine[t] \in Guarded /\ OnTheWeb(t)

\* The daemon is called if the breaker gives leave; a provider, if the switch
\* still allows it when the call goes out.
Contact(t) ==
  /\ step[t] = "asked"
  /\ \/ ThroughBreaker(t) /\ Admit(t)
     \/ /\ engine[t] \in Cloud /\ allowed[t]
        /\ call[t] = "no" /\ Becomes(t, "out") /\ UNCHANGED circuit
  /\ UNCHANGED turnVars

\* The daemon accepts the call, or the second one inside it.
DaemonServes(t) ==
  /\ ThroughBreaker(t)
  /\ Served(t) \/ ServedAgain(t)
  /\ UNCHANGED turnVars

\* Nothing stands between the turn and the engine's first word.
Contacted(t) ==
  /\ ThroughBreaker(t) => call[t] \in {"served", "again"}
  /\ engine[t] \in Cloud => call[t] = "out"

CallOver(t) == IF call[t] = "no" THEN UNCHANGED breakerVars ELSE EndQuietly(t)

\* An in-process engine has returned from chat().
WorkerReturns(t) == running' = running \ {<<t, engine[t]>>}

\* What a failure means (classify()), and whether it is worth another engine
\* (should_try_next_engine()).
Faults == {"down", "missing", "final"}
TryNext(fault, reserve) == fault = "down" \/ (fault = "missing" /\ reserve)

\* Bug: a failure that is carried is shown at once.
SettleEarly(t, fault, carried) ==
  LET e == engine[t] IN
  /\ Put(passed, t, passed[t] \cup {e})
  /\ Put(first, t, IF first[t] = None THEN e ELSE first[t])
  /\ Put(kept, t, IF carried /\ kept[t] = None THEN e ELSE kept[t])
  /\ Put(notices, t, IF carried THEN notices[t] \cup {e} ELSE notices[t])
  /\ IF TryNext(fault, InReserve(e, asked[t], passed[t] = {})) /\ ~carried
     THEN Put(step, t, "looking") /\ UNCHANGED <<timer, monitor, outcome>>
     ELSE EndHold(t, IF fault = "down" THEN "notice" ELSE IF carried \/ kept[t] # None THEN "refused" ELSE "final")
  /\ WorkerReturns(t)
  /\ UNCHANGED <<asking, stop, told, leaving>>
\* One failed attempt: the loop moves on or the turn ends.  A web stream
\* carries what its engine said first; anything else is raised (_Run.settle,
\* raise_if_terminal).
Settle(t, fault, carried) ==
  LET e == engine[t] IN
  /\ Put(passed, t, passed[t] \cup {e})
  /\ Put(first, t, IF first[t] = None THEN e ELSE first[t])
  /\ Put(kept, t, IF carried /\ kept[t] = None THEN e ELSE kept[t])
  /\ Put(notices, t, IF carried THEN notices[t] \cup {e} ELSE notices[t])
  /\ IF TryNext(fault, InReserve(e, asked[t], passed[t] = {}))
     THEN Put(step, t, "looking") /\ UNCHANGED <<timer, monitor, outcome>>
     ELSE EndHold(t, IF carried \/ kept[t] # None THEN "refused" ELSE "final")
  /\ WorkerReturns(t)
  /\ UNCHANGED <<asking, stop, told, leaving>>

\* The attempt could not be set up: raised at every door.
PrepareFails(t) ==
  /\ step[t] = "asked" /\ call[t] = "no"
  /\ \E fault \in Faults : Settle(t, fault, FALSE)
  /\ UNCHANGED breakerVars

\* The circuit refused the call, or the switch the provider's.
Refused(t) ==
  /\ step[t] = "asked" /\ call[t] = "no"
  /\ \/ ThroughBreaker(t) /\ ~CanExecute /\ Settle(t, "down", door[t] = "stream")
     \/ engine[t] \in Cloud /\ ~allowed[t] /\ Settle(t, "final", door[t] = "stream")
  /\ UNCHANGED breakerVars

\* The engine failed before its first word or, where the whole answer is read
\* before the turn is claimed, before its last; an empty answer is a failure
\* of the web's JSON door alone (EmptyReply).  A refusal (4xx) says nothing of
\* the daemon, unless it is of the second request, made without thinking.
Fails(t) ==
  /\ step[t] \in {"asked", "reading"}
  /\ \E fault \in Faults :
       /\ Settle(t, fault, door[t] = "stream")
       /\ IF ThroughBreaker(t)
          THEN \/ fault = "down" /\ Broke(t)
               \/ fault # "down" /\ call[t] = "out" /\ (EndQuietly(t) \/ Broke(t))
               \/ fault = "down" /\ call[t] \in {"served", "again"} /\ door[t] = "json" /\ EndQuietly(t)
          ELSE /\ engine[t] \in Cloud => call[t] = "out"
               /\ CallOver(t)

\* Bug: the deadline watches the whole answer.
FirstWordUntimed(t) ==
  /\ step[t] = "asked" /\ door[t] # "v1json" /\ Contacted(t)
  /\ Put(step, t, IF door[t] = "json" THEN "reading" ELSE "answering")
  /\ UNCHANGED <<breakerVars, asking, failing, stop, told, timer, monitor, leaving, running, outcome>>
\* The first word, at the doors that see it: the deadline stops watching
\* (first_byte()).  A stream is the engine's from here on, and so is one that
\* ended without a word because its engine was told to stop.
FirstWord(t) ==
  /\ step[t] = "asked" /\ door[t] # "v1json" /\ Contacted(t)
  /\ Put(step, t, IF door[t] = "json" THEN "reading" ELSE "answering")
  /\ Put(timer, t, timer[t] \ {engine[t]})
  /\ UNCHANGED <<breakerVars, asking, failing, stop, told, monitor, leaving, running, outcome>>

\* The answer is whole, or as whole as the second call of a daemon left it: a
\* failure of that one is recorded, and the turn ends as an answer (#984).
LastWord(t) ==
  /\ \/ step[t] \in {"reading", "answering"}
     \/ step[t] = "asked" /\ door[t] = "v1json" /\ Contacted(t)
  /\ EndHold(t, "answer")
  /\ WorkerReturns(t)
  /\ CallOver(t) \/ (ThroughBreaker(t) /\ Broke(t))
  /\ UNCHANGED <<asking, failing, stop, told, leaving>>

\* The stream broke after its first word: a partial answer.
Breaks(t) ==
  /\ step[t] = "answering"
  /\ EndHold(t, "partial")
  /\ WorkerReturns(t)
  /\ IF ThroughBreaker(t) THEN Broke(t) ELSE CallOver(t)
  /\ UNCHANGED <<asking, failing, stop, told, leaving>>

\* The byte cap: the web door sets the turn's event, the bridge of /v1 the one
\* its engine was handed; the worker is left to see it.
Cap(t) ==
  /\ \/ step[t] = "reading"
     \/ step[t] = "answering" /\ (OnTheWeb(t) \/ engine[t] \in InProcess)
  /\ IF OnTheWeb(t)
     THEN SetAll(t, "cap")
     ELSE /\ Put(told, t, [told[t] EXCEPT ![engine[t]] = @ \cup {"cap"}])
          /\ UNCHANGED stop
  /\ EndHold(t, "partial")
  /\ CallOver(t)
  /\ UNCHANGED <<asking, failing, leaving, running>>

\* persist_stream stops the monitor of a web stream.
Stored(t) ==
  /\ step[t] = "closing"
  /\ Put(step, t, "over")
  /\ monitor' = monitor \ {t}
  /\ UNCHANGED <<breakerVars, asking, failing, stop, told, timer, leaving, running, outcome>>

-----------------------------------------------------------------------------
(* What happens to a turn.                                                 *)

ClientLeaves(t) ==
  /\ step[t] \notin {"idle", "over"} /\ t \notin leaving
  /\ leaving' = leaving \cup {t}
  /\ UNCHANGED <<breakerVars, step, asking, failing, stop, told, timer, monitor, running, outcome>>

\* The monitor polls, sees it, tells everyone and ends.
MonitorSees(t) ==
  /\ t \in monitor \cap leaving
  /\ SetAll(t, "gone")
  /\ monitor' = monitor \ {t}
  /\ UNCHANGED <<breakerVars, step, asking, failing, timer, leaving, running, outcome>>

\* The server cancels the turn's task.  An HTTP call goes with its task; a
\* worker thread does not.
TaskCancelled(t) ==
  /\ t \in leaving
  /\ step[t] \in {"asked", "reading", "answering"}
  /\ EndHold(t, "left")
  /\ CallOver(t)
  /\ UNCHANGED <<asking, failing, stop, told, leaving, running>>

\* An engine's deadline runs out before its first word.
Deadline(t, e) ==
  /\ e \in timer[t]
  /\ Put(timer, t, timer[t] \ {e})
  /\ Put(told, t, [told[t] EXCEPT ![e] = @ \cup {"deadline"}])
  /\ UNCHANGED <<breakerVars, step, asking, failing, stop, monitor, leaving, running, outcome>>

\* A worker nobody reads any more comes to its end.
WorkerEnds(t, e) ==
  /\ <<t, e>> \in running
  /\ step[t] \in {"closing", "over"}
  /\ running' = running \ {<<t, e>>}
  /\ UNCHANGED <<breakerVars, step, asking, failing, stop, told, timer, monitor, leaving, outcome>>

\* The owner turns cloud engines off, or takes the key away.
CloudTurnedOff(t) ==
  /\ allowed[t]
  /\ Put(allowed, t, FALSE)
  /\ UNCHANGED <<breakerVars, step, door, asked, left, engine, failing, stop, told, timer, monitor, leaving, running, outcome>>

\* Other callers of the daemon, and the clock of the breaker.
Elsewhere ==
  /\ Age \/ \E c \in Callers \ Turns : CallerStep(c)
  /\ UNCHANGED turnVars

TurnMoves(t) ==
  \/ Enter(t) \/ LeaveGate(t) \/ Try(t) \/ RunOut(t) \/ Contact(t) \/ DaemonServes(t)
  \/ PrepareFails(t) \/ Refused(t) \/ Fails(t) \/ FirstWord(t) \/ LastWord(t)
  \/ Breaks(t) \/ Cap(t) \/ Stored(t)

Next ==
  \/ \E t \in Turns :
       \/ Ask(t) \/ TurnMoves(t)
       \/ ClientLeaves(t) \/ MonitorSees(t) \/ TaskCancelled(t) \/ CloudTurnedOff(t)
       \/ \E e \in Engines : Deadline(t, e) \/ WorkerEnds(t, e)
  \/ Elsewhere

Spec == Init /\ [][Next]_vars

\* The event loop runs whatever a turn waits for: the wait at the gate has a
\* limit, an engine ends its call (max_tokens, its HTTP time-out), and time
\* goes on.
FairSpec ==
  /\ Spec
  /\ \A t \in Turns : WF_vars(TurnMoves(t))
  /\ WF_vars(Elsewhere /\ Age)

-----------------------------------------------------------------------------
(* Properties.                                                             *)

\* Whatever sets the turn's event reaches the event of every engine it asked,
\* those passed over and the one asked last alike (TurnCancel.set, cancel and
\* attempt); and a worker thread outlives an answered, broken or capped turn
\* only if it was told to stop.
StopReachesEngines ==
  \A t \in Turns :
    /\ \A e \in Handed(t) : stop[t] \subseteq told[t][e]
    /\ \A e \in Engines : <<t, e>> \in running /\ step[t] = "over" /\ outcome[t] # "left" => told[t][e] # {}

\* A deadline watches only engines that were asked and have not begun to
\* answer, and none outlives the turn's slot (#1165: an answer cut at 90 s
\* halfway through was saved as complete).
DeadlineWatchesTheSilent ==
  \A t \in Turns :
    /\ timer[t] \subseteq Handed(t)
    /\ step[t] \in {"reading", "answering"} => engine[t] \notin timer[t]
    /\ timer[t] # {} => Holds(t)

\* The failure that is shown (Claim.kept, _stood_in), and those it is of: the
\* ones that came as a stream, if any did, else all of them.
Shown(t) == IF kept[t] # None THEN kept[t] ELSE first[t]
Showable(t) == IF notices[t] # {} THEN notices[t] ELSE passed[t]

\* Engines are asked in the cascade's order, and a turn that nobody claimed
\* went through all of them, unless its client was seen to leave.  The failure
\* it is told about, at its end or when a later engine fails for good, is of the
\* engine it wanted most among those whose failure can be shown
\* (engine_claim.py:311-313, 317-327, 375-377).
NobodyLeftUnasked ==
  \A t \in Turns :
    /\ \A e \in Handed(t), f \in left[t] : Ahead(e, f, asked[t])
    /\ outcome[t] \in {"notice", "exhausted"} => left[t] = {} \/ "gone" \in stop[t]
    /\ outcome[t] \in {"notice", "exhausted", "refused"} =>
         Shown(t) \in Showable(t) /\ \A e \in Showable(t) : Ahead(Shown(t), e, asked[t])
    /\ outcome[t] = "exhausted" => notices[t] = {} /\ door[t] # "stream"

\* What a hosted engine is sent leaves the machine: a call to it goes out only
\* while the switch allows it, for a turn that named that engine and passed its
\* gate, and never as a fallback or with a fallback behind it.
NothingLeavesUnasked ==
  [][\A t \in Turns :
       engine[t] \in Cloud /\ call[t] = "no" /\ call'[t] = "out" =>
         /\ allowed[t] /\ asked[t] = engine[t]
         /\ passed[t] = {} /\ left[t] = {}]_vars

\* Every turn that waits for a slot ends: each engine is asked at most once,
\* whatever each of them does.
EveryTurnEnds == \A t \in Turns : step[t] = "waiting" ~> step[t] = "over"

\* A breaker that refuses a call will let one through, even if the probe it let
\* through never says how it went.
CircuitNeverWedges == ~CanExecute ~> CanExecute

\* An engine whose turn is over has been told to stop: cancel.py:104 says that
\* a client that disconnects sets the event, so that the worker does not run to
\* max_tokens and block every request behind it.
StoppedWorkerIsTold ==
  \A t \in Turns, e \in Engines : <<t, e>> \in running /\ step[t] = "over" => told[t][e] # {}

-----------------------------------------------------------------------------
(* The cascade between the gate it asks and the breaker it calls through.  *)

At(hosted) == {t \in Turns : IsHosted(t) = hosted}

\* It was answered that no engine can, before it asked for a slot.
TurnedAway(t) == outcome[t] = "unable" /\ (OnTheWeb(t) \/ IsHosted(t))

Wanting(hosted) == {t \in At(hosted) : step[t] = "waiting"}
Holding(hosted) == {t \in At(hosted) : Holds(t)}
Through(hosted) == {t \in At(hosted) : step[t] \in {"closing", "over"} /\ ~TurnedAway(t)}

LocalGate == INSTANCE SlotPool WITH
               UserTurns <- Turns, Jobs <- {}, told <- {},
               wanting <- Wanting(FALSE), holding <- Holding(FALSE), over <- Through(FALSE)
HostedGate == INSTANCE SlotPool WITH
                UserTurns <- Turns, Jobs <- {}, told <- {},
                wanting <- Wanting(TRUE), holding <- Holding(TRUE), over <- Through(TRUE)

\* Each gate is used as it promises to be: a turn asks for a slot of one gate,
\* takes one while fewer than Slots are out, gives it back once however it ends
\* and has none after that (SlotPool, which EngineGate implements).
UsesTheGates == LocalGate!PoolSpec /\ HostedGate!PoolSpec

\* What a turn has out with the daemon: a call to a provider is not one.
DaemonCall == [c \in Callers |-> IF c \in Turns /\ engine[c] \in Cloud THEN "no" ELSE call[c]]

Breaker == INSTANCE CircuitBreaker WITH call <- DaemonCall

\* Whatever a turn does between two engines, the breaker sees calls that ask
\* leave, are recorded and end: no record without a leave, and one call of a
\* turn at a time.
UsesTheBreaker == Breaker!BreakerSpec
=============================================================================
