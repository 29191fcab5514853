------------------------ MODULE EngineCascade_proofs ------------------------
(***************************************************************************)
(* Proofs about EngineCascade for every set of turns, of engines and of    *)
(* requests, every number of slots and every threshold of the breaker.     *)
(***************************************************************************)
EXTENDS EngineCascade, WellFoundedInduction, TLAPS

USE DEF Put

(***************************************************************************)
(* The circuit.  Turns use it as any caller does; a call to a provider is  *)
(* no call of the breaker's, and leaves it as it is.                       *)
(***************************************************************************)
CalledOutside == \E t \in Turns : call' = [call EXCEPT ![t] = "out"] /\ UNCHANGED circuit

BreakerStep ==
  UNCHANGED breakerVars \/ Age \/ (\E c \in Callers : CallerStep(c)) \/ CalledOutside

LEMMA StepsOfTheBreaker == ASSUME Next PROVE BreakerStep
<1>0. Turns \subseteq Callers
  BY CascadeAssumption
<1>1. ASSUME NEW t \in Turns, CallOver(t) PROVE BreakerStep
  BY <1>0, <1>1 DEF CallOver, BreakerStep, CallerStep
<1>2. ASSUME NEW t \in Turns, Broke(t) \/ EndQuietly(t) \/ Served(t) \/ ServedAgain(t) \/ Admit(t) PROVE BreakerStep
  BY <1>0, <1>2 DEF BreakerStep, CallerStep
<1>3. ASSUME NEW t \in Turns, TurnMoves(t) PROVE BreakerStep
  <2>1. CASE Enter(t) \/ LeaveGate(t) \/ Try(t) \/ RunOut(t) \/ PrepareFails(t) \/ Refused(t) \/ FirstWord(t) \/ Stored(t)
    BY <2>1 DEF Enter, LeaveGate, Try, AskEngine, RunOut, PrepareFails, Refused, FirstWord, Stored, BreakerStep
  <2>2. CASE Contact(t)
    BY <1>2, <2>2 DEF Contact, Becomes, BreakerStep, CalledOutside
  <2>3. CASE DaemonServes(t)
    BY <1>2, <2>3 DEF DaemonServes
  <2>4. CASE Fails(t)
    BY <1>1, <1>2, <2>4 DEF Fails
  <2>5. CASE LastWord(t) \/ Breaks(t) \/ Cap(t)
    BY <1>1, <1>2, <2>5 DEF LastWord, Breaks, Cap
  <2> QED BY <1>3, <2>1, <2>2, <2>3, <2>4, <2>5 DEF TurnMoves
<1>4. ASSUME NEW t \in Turns, TaskCancelled(t) PROVE BreakerStep
  BY <1>1, <1>4 DEF TaskCancelled
<1>5. ASSUME NEW t \in Turns,
             Ask(t) \/ ClientLeaves(t) \/ MonitorSees(t) \/ CloudTurnedOff(t)
             \/ \E e \in Engines : Deadline(t, e) \/ WorkerEnds(t, e)
      PROVE  BreakerStep
  BY <1>5 DEF Ask, ClientLeaves, MonitorSees, CloudTurnedOff, Deadline, WorkerEnds, BreakerStep
<1>6. CASE Elsewhere
  BY <1>6 DEF Elsewhere, BreakerStep
<1> QED BY <1>3, <1>4, <1>5, <1>6 DEF Next

LEMMA CircuitTyped ==
  ASSUME BreakerTypeOK, BreakerStep
  PROVE  BreakerTypeOK'
<1> USE ThresholdAssumption
<1>1. FailureThreshold \in Nat /\ SuccessThreshold \in Nat /\ 0 \in 0 .. FailureThreshold - 1 /\ 0 \in 0 .. SuccessThreshold - 1
  OBVIOUS
<1>2. CASE UNCHANGED breakerVars
  BY <1>2 DEF BreakerTypeOK, breakerVars
<1>3. CASE Age
  BY <1>3 DEF Age, BreakerTypeOK
<1>4. ASSUME NEW c \in Callers, NEW what \in CallStates, Becomes(c, what) PROVE call' \in [Callers -> CallStates]
  BY <1>4 DEF Becomes, BreakerTypeOK
<1>5. ASSUME UNCHANGED circuit \/ LetThrough \/ RecordSuccess \/ RecordFailure
      PROVE  /\ mode' \in {"closed", "open", "half_open"}
             /\ fails' \in 0 .. FailureThreshold - 1 /\ wins' \in 0 .. SuccessThreshold - 1
             /\ probing' \in BOOLEAN /\ aged' \in BOOLEAN
  <2>1. CASE UNCHANGED circuit
    BY <2>1 DEF circuit, BreakerTypeOK
  <2>2. CASE LetThrough
    BY <1>1, <2>2 DEF LetThrough, Transition, circuit, BreakerTypeOK
  <2>3. CASE RecordSuccess
    <3>1. mode' \in {"closed", "open", "half_open"} /\ probing' \in BOOLEAN /\ aged' \in BOOLEAN
      BY <2>3 DEF RecordSuccess, Transition, circuit, BreakerTypeOK
    <3>2. fails' \in 0 .. FailureThreshold - 1 /\ wins' \in 0 .. SuccessThreshold - 1
      BY <1>1, <2>3 DEF RecordSuccess, Transition, circuit, BreakerTypeOK
    <3> QED BY <3>1, <3>2
  <2>4. CASE RecordFailure
    <3>1. mode' \in {"closed", "open", "half_open"} /\ probing' \in BOOLEAN /\ aged' \in BOOLEAN
      BY <2>4 DEF RecordFailure, Transition, BreakerTypeOK
    <3>2. fails' \in 0 .. FailureThreshold - 1 /\ wins' \in 0 .. SuccessThreshold - 1
      BY <1>1, <2>4 DEF RecordFailure, Transition, BreakerTypeOK
    <3> QED BY <3>1, <3>2
  <2> QED BY <1>5, <2>1, <2>2, <2>3, <2>4
<1>6. ASSUME NEW c \in Callers, CallerStep(c) PROVE BreakerTypeOK'
  <2>1. UNCHANGED circuit \/ LetThrough \/ RecordSuccess \/ RecordFailure
    BY <1>6 DEF CallerStep, Admit, Served, ServedAgain, Broke, EndQuietly
  <2>2. \E what \in CallStates : Becomes(c, what)
    BY <1>6 DEF CallerStep, Admit, Served, ServedAgain, Broke, EndQuietly, CallStates
  <2> QED BY <1>4, <1>5, <2>1, <2>2 DEF BreakerTypeOK
<1>7. CASE CalledOutside
  <2>1. UNCHANGED circuit /\ \E t \in Turns : Becomes(t, "out")
    BY <1>7 DEF CalledOutside, Becomes
  <2>2. Turns \subseteq Callers /\ "out" \in CallStates
    BY CascadeAssumption DEF CallStates
  <2> QED BY <1>4, <1>5, <2>1, <2>2 DEF BreakerTypeOK
<1> QED BY <1>2, <1>3, <1>6, <1>7 DEF BreakerStep

(***************************************************************************)
(* Typing.                                                                 *)
(***************************************************************************)
LEMMA RequestTyped ==
  ASSUME NEW t \in Turns, NEW q \in Requests[t]
  PROVE  /\ q.door \in Doors /\ q.engine \in Engines \cup {None} /\ q.prefers \in Engines \cup {None}
         /\ q.live \subseteq Engines /\ q.gate \in BOOLEAN /\ q.resume \in BOOLEAN /\ q.image \in BOOLEAN
         /\ Asked(q) \in Engines \cup {None}
         /\ Candidates(q) \subseteq Cascade(q) /\ Cascade(q) \subseteq q.live
<1>1. q \in RequestType
  BY CascadeAssumption
<1>2. /\ q.door \in Doors /\ q.engine \in Engines \cup {None} /\ q.prefers \in Engines \cup {None}
      /\ q.live \subseteq Engines /\ q.gate \in BOOLEAN /\ q.resume \in BOOLEAN /\ q.image \in BOOLEAN
  BY <1>1 DEF RequestType
<1>3. Candidates(q) \subseteq Cascade(q)
  BY DEF Candidates
<1>4. Cascade(q) \subseteq q.live
  BY DEF Cascade
<1> QED BY <1>2, <1>3, <1>4 DEF Asked

\* The best of some engines is one of them, and none of them goes before it.
LEMMA BestIsFirst ==
  ASSUME NEW S \in SUBSET Engines, S # {}, NEW w \in Engines \cup {None}
  PROVE  Best(S, w) \in S /\ \A f \in S : Ahead(Best(S, w), f, w)
<1>1. \E e \in S : \A f \in S : Ahead(e, f, w)
  <2>1. CASE w \in S
    BY <2>1 DEF Ahead
  <2>2. CASE w \notin S
    <3> DEFINE ranks == {Rank[e] : e \in S}
    <3>1. ranks \subseteq Nat /\ ranks # {}
      BY CascadeAssumption
    <3>2. PICK n \in ranks : \A m \in ranks : <<m, n>> \notin OpToRel(<, Nat)
      BY <3>1, WFMin, NatLessThanWellFounded, Zenon
    <3>3. \A m \in ranks : ~(m < n)
      BY <3>1, <3>2, Zenon DEF OpToRel
    <3>4. PICK e \in S : Rank[e] = n
      OBVIOUS
    <3>5. \A f \in S : Rank[e] <= Rank[f]
      <4> TAKE f \in S
      <4>1. Rank[f] \in ranks /\ Rank[f] \in Nat /\ Rank[e] \in Nat
        BY CascadeAssumption
      <4>2. ~(Rank[f] < Rank[e])
        BY <3>3, <3>4, <4>1
      <4> QED BY <4>1, <4>2
    <3> QED BY <2>2, <3>5 DEF Ahead
  <2> QED BY <2>1, <2>2
<1> QED BY <1>1 DEF Best

LEMMA HoldEndTyped ==
  ASSUME TypeOK, NEW t \in Turns, NEW how \in Outcomes, EndHold(t, how)
  PROVE  /\ step' \in [Turns -> Steps] /\ outcome' \in [Turns -> Outcomes]
         /\ timer' \in [Turns -> SUBSET Engines] /\ monitor' \subseteq Turns
  BY DEF EndHold, TypeOK, Steps

LEMMA ToldAll ==
  ASSUME TypeOK, NEW t \in Turns, NEW why \in {"gone", "cap"}, SetAll(t, why)
  PROVE  stop' \in [Turns -> SUBSET {"gone", "cap"}] /\ told' \in [Turns -> [Engines -> SUBSET Reasons]]
<1>1. stop' \in [Turns -> SUBSET {"gone", "cap"}]
  BY DEF SetAll, TypeOK
<1>2. [e \in Engines |-> IF e \in Handed(t) THEN told[t][e] \cup {why} ELSE told[t][e]] \in [Engines -> SUBSET Reasons]
  BY DEF TypeOK, Reasons
<1> QED BY <1>1, <1>2 DEF SetAll, TypeOK

LEMMA ToldOne ==
  ASSUME TypeOK, NEW t \in Turns, NEW e \in Engines, NEW why \in Reasons
  PROVE  [told EXCEPT ![t] = [told[t] EXCEPT ![e] = @ \cup {why}]] \in [Turns -> [Engines -> SUBSET Reasons]]
<1>1. told[t] \in [Engines -> SUBSET Reasons] /\ told \in [Turns -> [Engines -> SUBSET Reasons]]
  BY DEF TypeOK
<1>2. [told[t] EXCEPT ![e] = @ \cup {why}] \in [Engines -> SUBSET Reasons]
  BY <1>1
<1> QED BY <1>1, <1>2

LEMMA SettleTyped ==
  ASSUME TypeOK, NEW t \in Turns, NEW fault, NEW carried, engine[t] \in Engines,
         Settle(t, fault, carried)
  PROVE  /\ step' \in [Turns -> Steps] /\ outcome' \in [Turns -> Outcomes]
         /\ timer' \in [Turns -> SUBSET Engines] /\ monitor' \subseteq Turns
         /\ passed' \in [Turns -> SUBSET Engines] /\ first' \in [Turns -> Engines \cup {None}]
         /\ kept' \in [Turns -> Engines \cup {None}] /\ running' \subseteq Turns \X Engines
         /\ notices' \in [Turns -> SUBSET Engines]
         /\ UNCHANGED <<asking, stop, told, leaving>>
<1>1. passed' \in [Turns -> SUBSET Engines]
  BY DEF Settle, TypeOK
<1>2. first' \in [Turns -> Engines \cup {None}] /\ kept' \in [Turns -> Engines \cup {None}]
  BY DEF Settle, TypeOK
<1>5. notices' \in [Turns -> SUBSET Engines]
  BY DEF Settle, TypeOK
<1>3. running' \subseteq Turns \X Engines
  BY DEF Settle, WorkerReturns, TypeOK
<1>4. /\ step' \in [Turns -> Steps] /\ outcome' \in [Turns -> Outcomes]
      /\ timer' \in [Turns -> SUBSET Engines] /\ monitor' \subseteq Turns
  <2>1. \/ step' = [step EXCEPT ![t] = "looking"] /\ UNCHANGED <<timer, monitor, outcome>>
        \/ EndHold(t, IF carried \/ kept[t] # None THEN "refused" ELSE "final")
    BY DEF Settle
  <2>2. (IF carried \/ kept[t] # None THEN "refused" ELSE "final") \in Outcomes
    BY DEF Outcomes
  <2> QED BY <2>1, <2>2, HoldEndTyped DEF TypeOK, Steps
<1> QED BY <1>1, <1>2, <1>3, <1>4, <1>5 DEF Settle

\* A request that is turned away before the gate.
NoOne(q) == Candidates(q) = {} /\ (q.door \in {"json", "stream"} \/ q.engine \in Cloud)

\* What a request makes of its turn.
AskedWith(t, q) ==
  /\ door' = [door EXCEPT ![t] = q.door]
  /\ asked' = [asked EXCEPT ![t] = Asked(q)]
  /\ allowed' = [allowed EXCEPT ![t] = q.engine \in Cloud /\ q.gate]
  /\ left' = [left EXCEPT ![t] = Candidates(q)]
  /\ \/ NoOne(q) /\ step' = [step EXCEPT ![t] = "over"] /\ outcome' = [outcome EXCEPT ![t] = "unable"] /\ UNCHANGED monitor
     \/ ~NoOne(q) /\ step' = [step EXCEPT ![t] = "waiting"] /\ monitor' = monitor \cup {t} /\ UNCHANGED outcome

LEMMA AskedWhat == ASSUME NEW t \in Turns, Ask(t) PROVE \E q \in Requests[t] : AskedWith(t, q)
  BY Zenon DEF Ask, AskedWith, NoOne

\* A turn that asks an engine has one.
Working(t) == step[t] \in {"asked", "reading", "answering"}
Engaged == \A t \in Turns : Working(t) => engine[t] \in Engines

LEMMA TypesKept == TypeOK /\ Engaged /\ [Next]_vars => TypeOK'
<1> SUFFICES ASSUME TypeOK, Engaged, [Next]_vars PROVE TypeOK'
  OBVIOUS
<1>1. CASE UNCHANGED vars
  BY <1>1 DEF vars, breakerVars, turnVars, TypeOK, BreakerTypeOK
<1>2. CASE Next
  <2>0. BreakerTypeOK'
    BY <1>2, StepsOfTheBreaker, CircuitTyped DEF TypeOK
  <2>1. ASSUME UNCHANGED turnVars PROVE TypeOK'
    BY <2>0, <2>1 DEF turnVars, TypeOK
  <2>2. ASSUME NEW t \in Turns, Ask(t) PROVE TypeOK'
    <3>1. PICK q \in Requests[t] : AskedWith(t, q)
      BY <2>2, AskedWhat
    <3>2. door' \in [Turns -> Doors \cup {"none"}] /\ asked' \in [Turns -> Engines \cup {None}]
      BY <3>1, RequestTyped DEF AskedWith, TypeOK
    <3>3. left' \in [Turns -> SUBSET Engines]
      <4>1. Candidates(q) \in SUBSET Engines
        BY RequestTyped
      <4> QED BY <3>1, <4>1 DEF AskedWith, TypeOK
    <3>4. allowed' \in [Turns -> BOOLEAN]
      <4>1. PICK yes \in BOOLEAN : yes = (q.engine \in Cloud /\ q.gate)
        BY RequestTyped, Zenon
      <4>2. allowed' = [allowed EXCEPT ![t] = yes]
        BY <3>1, <4>1, Zenon DEF AskedWith
      <4>3. allowed \in [Turns -> BOOLEAN]
        BY DEF TypeOK
      <4> QED BY <4>2, <4>3
    <3>5. step' \in [Turns -> Steps] /\ outcome' \in [Turns -> Outcomes] /\ monitor' \subseteq Turns
      BY <3>1 DEF AskedWith, TypeOK, Steps, Outcomes
    <3> QED BY <2>0, <2>2, <3>2, <3>3, <3>4, <3>5 DEF Ask, failing, TypeOK
  <2>3. ASSUME NEW t \in Turns, Enter(t) \/ LeaveGate(t) \/ Stored(t) PROVE TypeOK'
    <3>1. CASE Enter(t)
      BY <2>0, <3>1 DEF Enter, TypeOK, asking, failing, Steps
    <3>2. CASE LeaveGate(t)
      BY <2>0, <3>2 DEF LeaveGate, TypeOK, asking, failing, Steps, Outcomes
    <3>3. CASE Stored(t)
      BY <2>0, <3>3 DEF Stored, TypeOK, asking, failing, Steps
    <3> QED BY <2>3, <3>1, <3>2, <3>3
  <2>4. ASSUME NEW t \in Turns, Try(t) PROVE TypeOK'
    <3> DEFINE e == Best(left[t], asked[t])
    <3>1. left[t] \in SUBSET Engines /\ left[t] # {} /\ asked[t] \in Engines \cup {None}
      BY <2>4 DEF Try, AskEngine, TypeOK
    <3>2. e \in Engines
      BY <3>1, BestIsFirst
    <3>3. /\ engine' = [engine EXCEPT ![t] = e] /\ left' = [left EXCEPT ![t] = left[t] \ {e}]
          /\ told' = [told EXCEPT ![t] = [told[t] EXCEPT ![e] = stop[t]]]
          /\ timer' = [timer EXCEPT ![t] = timer'[t]] /\ timer'[t] \subseteq timer[t] \cup {e}
          /\ running' \subseteq running \cup {<<t, e>>}
          /\ step' = [step EXCEPT ![t] = "asked"]
          /\ UNCHANGED <<breakerVars, door, asked, allowed, failing, stop, monitor, leaving, outcome>>
      BY <2>4 DEF Try, AskEngine, TypeOK
    <3> HIDE DEF e
    <3>4. told' \in [Turns -> [Engines -> SUBSET Reasons]]
      <4>1. told[t] \in [Engines -> SUBSET Reasons] /\ stop[t] \in SUBSET Reasons
        BY DEF TypeOK, Reasons
      <4>2. [told[t] EXCEPT ![e] = stop[t]] \in [Engines -> SUBSET Reasons]
        BY <3>2, <4>1
      <4> QED BY <3>3, <4>2 DEF TypeOK
    <3>5. timer' \in [Turns -> SUBSET Engines] /\ left' \in [Turns -> SUBSET Engines]
      <4>1. timer \in [Turns -> SUBSET Engines] /\ left \in [Turns -> SUBSET Engines]
        BY DEF TypeOK
      <4>2. left[t] \ {e} \in SUBSET Engines /\ timer'[t] \in SUBSET Engines
        BY <3>2, <3>3, <4>1
      <4>3. left' = [left EXCEPT ![t] = left[t] \ {e}]
        BY <3>3, Zenon
      <4>4. timer' = [timer EXCEPT ![t] = timer'[t]]
        BY <3>3, Zenon
      <4> QED BY <4>1, <4>2, <4>3, <4>4
    <3>6. engine' \in [Turns -> Engines \cup {None}]
      BY <3>2, <3>3 DEF TypeOK
    <3>7. step' \in [Turns -> Steps]
      BY <3>3 DEF TypeOK, Steps
    <3>8. running' \subseteq Turns \X Engines
      <4>1. running \subseteq Turns \X Engines
        BY DEF TypeOK
      <4>2. running' \subseteq running \cup {<<t, e>>}
        BY <3>3, Zenon
      <4>3. <<t, e>> \in Turns \X Engines
        BY <3>2
      <4> HIDE DEF TypeOK
      <4> QED BY <4>1, <4>2, <4>3
    <3> QED BY <2>0, <3>3, <3>4, <3>5, <3>6, <3>7, <3>8 DEF TypeOK, failing
  <2>5. ASSUME NEW t \in Turns, RunOut(t) PROVE TypeOK'
    <3>1. \E how \in Outcomes : EndHold(t, how)
      BY <2>5 DEF RunOut, Outcomes
    <3> QED BY <2>0, <2>5, <3>1, HoldEndTyped DEF RunOut, TypeOK, asking, failing
  <2>6. ASSUME NEW t \in Turns, Contact(t) \/ DaemonServes(t) PROVE TypeOK'
    BY <2>1, <2>6 DEF Contact, DaemonServes
  <2>7. ASSUME NEW t \in Turns, PrepareFails(t) \/ Refused(t) \/ Fails(t) PROVE TypeOK'
    <3>1. Working(t)
      BY <2>7 DEF PrepareFails, Refused, Fails, Working
    <3>2. engine[t] \in Engines
      BY <3>1 DEF Engaged
    <3>3. \E fault, carried : Settle(t, fault, carried)
      BY <2>7, Zenon DEF PrepareFails, Refused, Fails
    <3> QED BY <2>0, <3>2, <3>3, SettleTyped DEF TypeOK, asking
  <2>8. ASSUME NEW t \in Turns, FirstWord(t) PROVE TypeOK'
    BY <2>0, <2>8 DEF FirstWord, TypeOK, asking, failing, Steps
  <2>9. ASSUME NEW t \in Turns, LastWord(t) \/ Breaks(t) \/ TaskCancelled(t) PROVE TypeOK'
    <3>1. \E how \in Outcomes : EndHold(t, how)
      BY <2>9 DEF LastWord, Breaks, TaskCancelled, Outcomes
    <3>2. running' \subseteq running
      BY <2>9 DEF LastWord, Breaks, TaskCancelled, WorkerReturns
    <3> QED BY <2>0, <2>9, <3>1, <3>2, HoldEndTyped DEF LastWord, Breaks, TaskCancelled, TypeOK, asking, failing
  <2>10. ASSUME NEW t \in Turns, Cap(t) PROVE TypeOK'
    <3>1. EndHold(t, "partial") /\ "partial" \in Outcomes
      BY <2>10 DEF Cap, Outcomes
    <3>2. engine[t] \in Engines
      BY <2>10 DEF Cap, Engaged, Working
    <3>3. stop' \in [Turns -> SUBSET {"gone", "cap"}] /\ told' \in [Turns -> [Engines -> SUBSET Reasons]]
      <4>1. SetAll(t, "cap") \/ (told' = [told EXCEPT ![t] = [told[t] EXCEPT ![engine[t]] = @ \cup {"cap"}]] /\ UNCHANGED stop)
        BY <2>10 DEF Cap
      <4>2. "cap" \in Reasons
        BY DEF Reasons
      <4>3. CASE SetAll(t, "cap")
        BY <4>3, ToldAll
      <4>4. CASE told' = [told EXCEPT ![t] = [told[t] EXCEPT ![engine[t]] = @ \cup {"cap"}]] /\ UNCHANGED stop
        <5>1. told' \in [Turns -> [Engines -> SUBSET Reasons]]
          BY <3>2, <4>2, <4>4, ToldOne, Zenon
        <5> QED BY <4>4, <5>1 DEF TypeOK
      <4> QED BY <4>1, <4>3, <4>4
    <3> QED BY <2>0, <2>10, <3>1, <3>3, HoldEndTyped DEF Cap, TypeOK, asking, failing
  <2>11. ASSUME NEW t \in Turns, ClientLeaves(t) \/ (\E e \in Engines : WorkerEnds(t, e)) PROVE TypeOK'
    BY <2>0, <2>11 DEF ClientLeaves, WorkerEnds, TypeOK, asking, failing
  <2>12. ASSUME NEW t \in Turns, MonitorSees(t) PROVE TypeOK'
    BY <2>0, <2>12, ToldAll DEF MonitorSees, TypeOK, asking, failing
  <2>13. ASSUME NEW t \in Turns, NEW e \in Engines, Deadline(t, e) PROVE TypeOK'
    <3>1. told' \in [Turns -> [Engines -> SUBSET Reasons]]
      BY <2>13, ToldOne DEF Deadline, Reasons
    <3> QED BY <2>0, <2>13, <3>1 DEF Deadline, TypeOK, asking, failing
  <2>14. ASSUME NEW t \in Turns, CloudTurnedOff(t) PROVE TypeOK'
    <3>1. allowed' \in [Turns -> BOOLEAN]
      BY <2>14 DEF CloudTurnedOff, TypeOK
    <3> QED BY <2>0, <2>14, <3>1 DEF CloudTurnedOff, TypeOK, failing
  <2> QED BY <1>2, <2>1, <2>2, <2>3, <2>4, <2>5, <2>6, <2>7, <2>8, <2>9, <2>10, <2>11, <2>12, <2>13, <2>14
          DEF Next, TurnMoves, Elsewhere
<1> QED BY <1>1, <1>2

(***************************************************************************)
(* A step is of one turn at most, and the others' stay as they are.        *)
(***************************************************************************)
OwnStep(t) ==
  \/ Ask(t) \/ TurnMoves(t) \/ ClientLeaves(t) \/ MonitorSees(t) \/ TaskCancelled(t) \/ CloudTurnedOff(t)
  \/ \E e \in Engines : Deadline(t, e) \/ WorkerEnds(t, e)

SameTurn(u) ==
  /\ step'[u] = step[u] /\ door'[u] = door[u] /\ asked'[u] = asked[u] /\ allowed'[u] = allowed[u]
  /\ left'[u] = left[u] /\ engine'[u] = engine[u] /\ passed'[u] = passed[u] /\ first'[u] = first[u]
  /\ kept'[u] = kept[u] /\ notices'[u] = notices[u] /\ stop'[u] = stop[u] /\ told'[u] = told[u] /\ timer'[u] = timer[u]
  /\ outcome'[u] = outcome[u]
  /\ \A e \in Engines : <<u, e>> \in running' => <<u, e>> \in running

LEMMA HoldEndOthers ==
  ASSUME TypeOK, NEW t \in Turns, NEW how, EndHold(t, how), NEW u \in Turns, u # t
  PROVE  step'[u] = step[u] /\ timer'[u] = timer[u] /\ outcome'[u] = outcome[u]
  BY DEF EndHold, TypeOK

LEMMA SettleOthers ==
  ASSUME TypeOK, NEW t \in Turns, NEW fault, NEW carried, Settle(t, fault, carried), NEW u \in Turns, u # t
  PROVE  SameTurn(u)
<1>1. step'[u] = step[u] /\ timer'[u] = timer[u] /\ outcome'[u] = outcome[u]
  <2>1. \/ step' = [step EXCEPT ![t] = "looking"] /\ UNCHANGED <<timer, monitor, outcome>>
        \/ EndHold(t, IF carried \/ kept[t] # None THEN "refused" ELSE "final")
    BY DEF Settle
  <2> QED BY <2>1, HoldEndOthers DEF TypeOK
<1> QED BY <1>1 DEF Settle, WorkerReturns, asking, SameTurn, TypeOK

LEMMA OthersAsTheyAre ==
  ASSUME TypeOK, NEW t \in Turns, OwnStep(t), NEW u \in Turns, u # t
  PROVE  SameTurn(u)
<1>0. CASE Ask(t)
  <2>1. PICK q \in Requests[t] : AskedWith(t, q)
    BY <1>0, AskedWhat
  <2>2. allowed'[u] = allowed[u]
    <3>1. \E yes : allowed' = [allowed EXCEPT ![t] = yes]
      BY <2>1, Zenon DEF AskedWith
    <3> QED BY <3>1 DEF TypeOK
  <2>3. /\ step'[u] = step[u] /\ door'[u] = door[u] /\ asked'[u] = asked[u] /\ left'[u] = left[u] /\ outcome'[u] = outcome[u]
    BY <2>1 DEF AskedWith, TypeOK
  <2> QED BY <1>0, <2>2, <2>3 DEF Ask, failing, SameTurn
<1>1. CASE Enter(t) \/ LeaveGate(t) \/ Stored(t) \/ FirstWord(t) \/ ClientLeaves(t) \/ CloudTurnedOff(t)
           \/ \E e \in Engines : Deadline(t, e) \/ WorkerEnds(t, e)
  <2>1. CASE Enter(t) \/ LeaveGate(t) \/ Stored(t)
    BY <2>1 DEF Enter, LeaveGate, Stored, asking, failing, SameTurn, TypeOK
  <2>2. CASE FirstWord(t) \/ ClientLeaves(t) \/ CloudTurnedOff(t)
    BY <2>2 DEF FirstWord, ClientLeaves, CloudTurnedOff, asking, failing, SameTurn, TypeOK
  <2>3. CASE \E e \in Engines : Deadline(t, e) \/ WorkerEnds(t, e)
    BY <2>3 DEF Deadline, WorkerEnds, asking, failing, SameTurn, TypeOK
  <2> QED BY <1>1, <2>1, <2>2, <2>3
<1>2. CASE Try(t)
  BY <1>2 DEF Try, AskEngine, failing, SameTurn, TypeOK
<1>3. CASE Contact(t) \/ DaemonServes(t)
  BY <1>3 DEF Contact, DaemonServes, turnVars, SameTurn
<1>4. CASE PrepareFails(t) \/ Refused(t) \/ Fails(t)
  <2>1. \E fault, carried : Settle(t, fault, carried)
    BY <1>4, Zenon DEF PrepareFails, Refused, Fails
  <2> QED BY <2>1, SettleOthers
<1>5. CASE RunOut(t) \/ LastWord(t) \/ Breaks(t) \/ TaskCancelled(t) \/ Cap(t)
  <2>1. \E how : EndHold(t, how)
    BY <1>5 DEF RunOut, LastWord, Breaks, TaskCancelled, Cap
  <2>2. stop'[u] = stop[u] /\ told'[u] = told[u]
    BY <1>5 DEF RunOut, LastWord, Breaks, TaskCancelled, Cap, SetAll, TypeOK
  <2>3. running' \subseteq running
    BY <1>5 DEF RunOut, LastWord, Breaks, TaskCancelled, Cap, WorkerReturns
  <2>4. UNCHANGED <<asking, failing>>
    BY <1>5 DEF RunOut, LastWord, Breaks, TaskCancelled, Cap
  <2> QED BY <2>1, <2>2, <2>3, <2>4, HoldEndOthers DEF asking, failing, SameTurn
<1>6. CASE MonitorSees(t)
  BY <1>6 DEF MonitorSees, SetAll, asking, failing, SameTurn, TypeOK
<1> QED BY <1>0, <1>1, <1>2, <1>3, <1>4, <1>5, <1>6 DEF OwnStep, TurnMoves

LEMMA StepOfOne == ASSUME Next PROVE UNCHANGED turnVars \/ \E t \in Turns : OwnStep(t)
  BY DEF Next, Elsewhere, OwnStep

\* An end of the hold leaves nothing armed and the turn over, or storing.
LEMMA HoldEnded ==
  ASSUME TypeOK, NEW t \in Turns, NEW how, EndHold(t, how)
  PROVE  step'[t] \in {"closing", "over"} /\ outcome'[t] = how /\ timer'[t] = {}
  BY DEF EndHold, TypeOK

(***************************************************************************)
(* The strengthening.  What holds of each turn: it has an engine while it  *)
(* asks one and none before; every engine it was handed heard of whatever  *)
(* set the turn's event; deadlines and workers are of engines it asked.    *)
(***************************************************************************)
Fresh(t) == step[t] \in {"idle", "waiting"} => engine[t] = None /\ passed[t] = {} /\ first[t] = None /\ kept[t] = None /\ notices[t] = {}
Named(t) == Working(t) => engine[t] \in Engines
PassedOver(t) == step[t] = "looking" => engine[t] \in passed[t] \cup {None}
Heard(t) == \A e \in Handed(t) : stop[t] \subseteq told[t][e]
Timed(t) ==
  /\ timer[t] \subseteq Handed(t)
  /\ step[t] \in {"reading", "answering"} => engine[t] \notin timer[t]
  /\ timer[t] # {} => Holds(t)
Worked(t) ==
  \A e \in Engines : <<t, e>> \in running =>
    \/ Working(t) /\ e = engine[t]
    \/ step[t] \in {"closing", "over"} /\ (outcome[t] = "left" \/ told[t][e] # {})

TurnInv(t) == Fresh(t) /\ Named(t) /\ PassedOver(t) /\ Heard(t) /\ Timed(t) /\ Worked(t)

LEMMA SameTurnKeeps ==
  ASSUME NEW t \in Turns, SameTurn(t), TurnInv(t)
  PROVE  TurnInv(t)'
  BY DEF SameTurn, TurnInv, Fresh, Named, PassedOver, Heard, Timed, Worked, Working, Handed, Holds

\* A failed attempt: on to the next engine, or the end.
LEMMA SettleKeeps ==
  ASSUME TypeOK, NEW t \in Turns, TurnInv(t), Working(t), NEW fault, NEW carried, Settle(t, fault, carried)
  PROVE  TurnInv(t)'
<1>1. engine[t] \in Engines /\ None \notin Engines /\ engine' = engine /\ stop' = stop /\ told' = told
  BY CascadeAssumption DEF TurnInv, Named, Settle, asking
<1>2. passed'[t] = passed[t] \cup {engine[t]} /\ Handed(t)' = Handed(t)
  BY <1>1 DEF Settle, Handed, TypeOK
<1>3. \A e \in Engines : <<t, e>> \notin running'
  BY DEF Settle, WorkerReturns, TurnInv, Worked, Working
<1>4. \/ step'[t] = "looking" /\ timer'[t] = timer[t]
      \/ step'[t] \in {"closing", "over"} /\ timer'[t] = {}
  <2>1. \/ step' = [step EXCEPT ![t] = "looking"] /\ UNCHANGED <<timer, monitor, outcome>>
        \/ EndHold(t, IF carried \/ kept[t] # None THEN "refused" ELSE "final")
    BY DEF Settle
  <2> QED BY <2>1, HoldEnded DEF TypeOK
<1>5. Fresh(t)' /\ Named(t)' /\ PassedOver(t)'
  BY <1>1, <1>2, <1>4 DEF Fresh, Named, Working, PassedOver
<1>6. Heard(t)'
  BY <1>1, <1>2 DEF TurnInv, Heard
<1>7. Timed(t)'
  BY <1>2, <1>4 DEF TurnInv, Timed, Holds
<1>8. Worked(t)'
  BY <1>3 DEF Worked
<1> QED BY <1>5, <1>6, <1>7, <1>8 DEF TurnInv

\* The end of a hold whose worker has returned, was told, or was let go.
LEMMA EndKeeps ==
  ASSUME TypeOK, NEW t \in Turns, TurnInv(t), Holds(t), NEW how, EndHold(t, how),
         UNCHANGED <<asking, failing>>,
         \A e \in Handed(t) : stop'[t] \subseteq told'[t][e],
         running' \subseteq running,
         \A e \in Engines : <<t, e>> \in running' => how = "left" \/ told'[t][e] # {}
  PROVE  TurnInv(t)'
<1>1. step'[t] \in {"closing", "over"} /\ outcome'[t] = how /\ timer'[t] = {}
  BY HoldEnded
<1>2. Handed(t)' = Handed(t)
  BY DEF Handed, asking, failing
<1>3. Fresh(t)' /\ Named(t)' /\ PassedOver(t)'
  BY <1>1 DEF Fresh, Named, Working, PassedOver
<1>4. Heard(t)' /\ Timed(t)'
  BY <1>1, <1>2 DEF Heard, Timed
<1>5. Worked(t)'
  BY <1>1 DEF Worked
<1> QED BY <1>3, <1>4, <1>5 DEF TurnInv

LEMMA SetAllHeard ==
  ASSUME TypeOK, NEW t \in Turns, Heard(t), NEW why, SetAll(t, why), UNCHANGED <<engine, passed>>
  PROVE  /\ \A e \in Handed(t) : stop'[t] \subseteq told'[t][e] /\ why \in told'[t][e]
         /\ \A e \in Engines : told[t][e] \subseteq told'[t][e]
<1>1. told'[t] = [e \in Engines |-> IF e \in Handed(t) THEN told[t][e] \cup {why} ELSE told[t][e]]
  BY DEF SetAll, TypeOK
<1>2. stop'[t] = stop[t] \cup {why}
  BY DEF SetAll, TypeOK
<1>3. Handed(t) \subseteq Engines
  BY DEF Handed, TypeOK
<1> QED BY <1>1, <1>2, <1>3 DEF Heard

LEMMA OwnStepKeeps ==
  ASSUME TypeOK, NEW t \in Turns, TurnInv(t), OwnStep(t)
  PROVE  TurnInv(t)'
<1> USE DEF TurnInv
<1>1. CASE Ask(t)
  <2>1. PICK q \in Requests[t] : AskedWith(t, q)
    BY <1>1, AskedWhat
  <2>2. step[t] = "idle" /\ step'[t] \in {"waiting", "over"}
    BY <1>1, <2>1 DEF Ask, AskedWith, TypeOK
  <2>3. UNCHANGED <<failing, engine, stop, told, timer, running>>
    BY <1>1 DEF Ask
  <2> QED BY <2>2, <2>3 DEF failing, Fresh, Named, PassedOver, Heard, Timed, Worked, Working, Handed, Holds
<1>2. CASE Enter(t) \/ LeaveGate(t)
  <2>1. step[t] = "waiting" /\ step'[t] \in {"looking", "over"}
    BY <1>2 DEF Enter, LeaveGate, TypeOK
  <2>2. UNCHANGED <<failing, engine, stop, told, timer, running>>
    BY <1>2 DEF Enter, LeaveGate, asking
  <2> QED BY <2>1, <2>2 DEF failing, Fresh, Named, PassedOver, Heard, Timed, Worked, Working, Handed, Holds
<1>3. CASE Try(t)
  <2> DEFINE e == Best(left[t], asked[t])
  <2>1. left[t] \in SUBSET Engines /\ left[t] # {} /\ asked[t] \in Engines \cup {None} /\ step[t] = "looking"
    BY <1>3 DEF Try, AskEngine, TypeOK
  <2>2. e \in Engines /\ None \notin Engines
    BY <2>1, BestIsFirst, CascadeAssumption
  <2>3. /\ step'[t] = "asked" /\ engine'[t] = e /\ told'[t][e] = stop[t]
        /\ \A f \in Engines \ {e} : told'[t][f] = told[t][f]
        /\ timer'[t] \subseteq timer[t] \cup {e} /\ running' \subseteq running \cup {<<t, e>>}
        /\ UNCHANGED <<failing, stop, outcome>>
    BY <1>3, <2>2 DEF Try, AskEngine, TypeOK
  <2>4. Handed(t) \subseteq passed[t] /\ Handed(t)' = passed[t] \cup {e} /\ passed[t] \subseteq Engines
    BY <2>1, <2>2, <2>3 DEF Handed, PassedOver, failing, TypeOK
  <2>5. passed[t] \subseteq Handed(t)
    BY DEF Handed
  <2>6. Fresh(t)' /\ Named(t)' /\ PassedOver(t)'
    BY <2>2, <2>3 DEF Fresh, Named, PassedOver
  <2>7. Heard(t)'
    BY <2>2, <2>3, <2>4, <2>5 DEF Heard
  <2>8. Timed(t)'
    BY <2>3, <2>4 DEF Timed, Holds
  <2>9. Worked(t)'
    BY <2>1, <2>2, <2>3 DEF Worked, Working
  <2> QED BY <2>6, <2>7, <2>8, <2>9
<1>4. CASE RunOut(t)
  <2>1. \A f \in Engines : <<t, f>> \notin running
    BY <1>4 DEF RunOut, Worked, Working
  <2> QED BY <1>4, <2>1, EndKeeps DEF RunOut, Holds, Heard
<1>5. CASE Contact(t) \/ DaemonServes(t)
  BY <1>5, SameTurnKeeps DEF Contact, DaemonServes, turnVars, SameTurn
<1>6. CASE PrepareFails(t) \/ Refused(t) \/ Fails(t)
  <2>1. \E fault, carried : Settle(t, fault, carried)
    BY <1>6, Zenon DEF PrepareFails, Refused, Fails
  <2>2. Working(t)
    BY <1>6 DEF PrepareFails, Refused, Fails, Working
  <2> QED BY <2>1, <2>2, SettleKeeps
<1>7. CASE FirstWord(t)
  <2>1. /\ step[t] = "asked" /\ step'[t] \in {"reading", "answering"} /\ timer'[t] = timer[t] \ {engine[t]}
        /\ UNCHANGED <<asking, failing, stop, told, running, outcome>>
    BY <1>7 DEF FirstWord, TypeOK
  <2> QED BY <2>1 DEF asking, failing, Fresh, Named, PassedOver, Heard, Timed, Worked, Working, Handed, Holds
<1>8. CASE LastWord(t) \/ Breaks(t)
  <2>1. Working(t) /\ Holds(t)
    BY <1>8 DEF LastWord, Breaks, Working, Holds
  <2>2. \A f \in Engines : <<t, f>> \notin running'
    BY <1>8, <2>1 DEF LastWord, Breaks, WorkerReturns, Worked, Working
  <2>3. running' \subseteq running /\ UNCHANGED <<asking, failing, stop, told>> /\ \E how : EndHold(t, how)
    BY <1>8 DEF LastWord, Breaks, WorkerReturns
  <2> QED BY <2>1, <2>2, <2>3, EndKeeps DEF Heard
<1>9. CASE Cap(t)
  <2>1. Working(t) /\ Holds(t) /\ engine[t] \in Engines /\ None \notin Engines /\ engine[t] \in Handed(t)
    BY <1>9, CascadeAssumption DEF Cap, Working, Holds, Named, Handed
  <2>2. UNCHANGED <<asking, failing, running>> /\ EndHold(t, "partial")
    BY <1>9 DEF Cap
  <2>3. (\A e \in Handed(t) : stop'[t] \subseteq told'[t][e]) /\ told'[t][engine[t]] # {}
    <3>1. CASE SetAll(t, "cap")
      BY <2>1, <2>2, <3>1, SetAllHeard DEF asking, failing
    <3>2. CASE told' = [told EXCEPT ![t] = [told[t] EXCEPT ![engine[t]] = @ \cup {"cap"}]] /\ UNCHANGED stop
      <4>1. told'[t] = [told[t] EXCEPT ![engine[t]] = @ \cup {"cap"}] /\ told[t] \in [Engines -> SUBSET Reasons]
        BY <3>2 DEF TypeOK
      <4>2. Handed(t) \subseteq Engines
        BY DEF Handed, TypeOK
      <4> QED BY <2>1, <3>2, <4>1, <4>2 DEF Heard
    <3> QED BY <1>9, <3>1, <3>2 DEF Cap
  <2>4. \A e \in Engines : <<t, e>> \in running' => told'[t][e] # {}
    BY <2>1, <2>2, <2>3 DEF Worked, Working
  <2> QED BY <2>1, <2>2, <2>3, <2>4, EndKeeps
<1>10. CASE Stored(t)
  <2>1. step[t] = "closing" /\ step'[t] = "over" /\ UNCHANGED <<asking, failing, stop, told, timer, running, outcome>>
    BY <1>10 DEF Stored, TypeOK
  <2> QED BY <2>1 DEF asking, failing, Fresh, Named, PassedOver, Heard, Timed, Worked, Working, Handed, Holds
<1>11. CASE ClientLeaves(t) \/ CloudTurnedOff(t)
  <2>1. UNCHANGED <<step, engine, failing, stop, told, timer, running, outcome>>
    BY <1>11 DEF ClientLeaves, CloudTurnedOff, asking
  <2> QED BY <2>1 DEF failing, Fresh, Named, PassedOver, Heard, Timed, Worked, Working, Handed, Holds
<1>12. CASE MonitorSees(t)
  <2>1. UNCHANGED <<step, asking, failing, timer, running, outcome>> /\ SetAll(t, "gone")
    BY <1>12 DEF MonitorSees
  <2>2. (\A e \in Handed(t) : stop'[t] \subseteq told'[t][e]) /\ \A e \in Engines : told[t][e] \subseteq told'[t][e]
    BY <2>1, SetAllHeard DEF asking, failing
  <2> QED BY <2>1, <2>2 DEF asking, failing, Fresh, Named, PassedOver, Heard, Timed, Worked, Working, Handed, Holds
<1>13. CASE TaskCancelled(t)
  <2>1. Holds(t) /\ EndHold(t, "left") /\ UNCHANGED <<asking, failing, stop, told, running>>
    BY <1>13 DEF TaskCancelled, Holds
  <2> QED BY <2>1, EndKeeps DEF Heard
<1>14. ASSUME NEW e \in Engines, Deadline(t, e) PROVE TurnInv(t)'
  <2>1. /\ timer'[t] = timer[t] \ {e} /\ told'[t] = [told[t] EXCEPT ![e] = @ \cup {"deadline"}]
        /\ UNCHANGED <<step, asking, failing, stop, running, outcome>> /\ told[t] \in [Engines -> SUBSET Reasons]
    BY <1>14 DEF Deadline, TypeOK
  <2>2. Handed(t) \subseteq Engines
    BY DEF Handed, TypeOK
  <2> QED BY <2>1, <2>2 DEF asking, failing, Fresh, Named, PassedOver, Heard, Timed, Worked, Working, Handed, Holds
<1>15. ASSUME NEW e \in Engines, WorkerEnds(t, e) PROVE TurnInv(t)'
  <2>1. running' \subseteq running /\ UNCHANGED <<step, asking, failing, stop, told, timer, outcome>>
    BY <1>15 DEF WorkerEnds
  <2> QED BY <2>1 DEF asking, failing, Fresh, Named, PassedOver, Heard, Timed, Worked, Working, Handed, Holds
<1> QED BY <1>1, <1>2, <1>3, <1>4, <1>5, <1>6, <1>7, <1>8, <1>9, <1>10, <1>11, <1>12, <1>13, <1>14, <1>15
        DEF OwnStep, TurnMoves

(***************************************************************************)
(* The order of the cascade, and what leaves the machine.                  *)
(***************************************************************************)
InOrder(t) == \A e \in Handed(t), f \in left[t] : Ahead(e, f, asked[t])
FirstFailed(t) ==
  IF passed[t] = {} THEN first[t] = None
  ELSE first[t] \in passed[t] /\ \A e \in Handed(t) : Ahead(first[t], e, asked[t])
\* The failure that is kept is the first that came as a stream.
KeptFirst(t) ==
  /\ kept[t] = None <=> notices[t] = {}
  /\ notices[t] \subseteq passed[t]
  /\ kept[t] # None =>
       /\ kept[t] \in notices[t] /\ \A e \in notices[t] : Ahead(kept[t], e, asked[t])
       /\ Working(t) => Ahead(kept[t], engine[t], asked[t])
Ended(t) == outcome[t] # "none" => step[t] \in {"closing", "over"}
Exhausted(t) ==
  /\ outcome[t] \in {"notice", "exhausted"} => left[t] = {} \/ "gone" \in stop[t]
  /\ outcome[t] \in {"notice", "exhausted", "refused"} => passed[t] # {}
  /\ outcome[t] = "exhausted" => kept[t] = None /\ door[t] # "stream"
Hosted(t) ==
  /\ \A f \in left[t] \cap Cloud : asked[t] = f /\ left[t] = {f} /\ passed[t] = {} /\ engine[t] = None
  /\ engine[t] \in Cloud => asked[t] = engine[t] /\ left[t] = {}
  /\ step[t] = "asked" /\ engine[t] \in Cloud => passed[t] = {}

OrderInv(t) == InOrder(t) /\ FirstFailed(t) /\ KeptFirst(t) /\ Ended(t) /\ Exhausted(t) /\ Hosted(t)

LEMMA SameTurnOrdered ==
  ASSUME NEW t \in Turns, SameTurn(t), OrderInv(t)
  PROVE  OrderInv(t)'
  BY DEF SameTurn, OrderInv, InOrder, FirstFailed, KeptFirst, Ended, Exhausted, Hosted, Handed, Working

\* Nobody new is asked, and the turn goes on or ends as an answer or a refusal.
LEMMA QuietlyOrdered ==
  ASSUME NEW t \in Turns, OrderInv(t),
         UNCHANGED <<failing, engine>>, left'[t] = left[t], asked'[t] = asked[t], door'[t] = door[t],
         stop[t] \subseteq stop'[t],
         step[t] # "asked" => step'[t] # "asked", Working(t)' => Working(t),
         \/ outcome'[t] = outcome[t] /\ (step'[t] \in {"closing", "over"} \/ step[t] \notin {"closing", "over"})
         \/ step'[t] \in {"closing", "over"} /\ outcome'[t] \notin {"notice", "exhausted", "refused"}
  PROVE  OrderInv(t)'
  BY DEF failing, OrderInv, InOrder, FirstFailed, KeptFirst, Ended, Exhausted, Hosted, Handed, Working

LEMMA AheadOfItself == ASSUME NEW e \in Engines, NEW w PROVE Ahead(e, e, w)
  BY CascadeAssumption DEF Ahead

LEMMA SettleOrdered ==
  ASSUME TypeOK, NEW t \in Turns, TurnInv(t), OrderInv(t), Working(t), NEW fault, NEW carried, Settle(t, fault, carried)
  PROVE  OrderInv(t)'
<1>1. engine[t] \in Engines /\ None \notin Engines /\ UNCHANGED asking /\ stop' = stop
  BY CascadeAssumption DEF TurnInv, Named, Settle
<1>2. passed'[t] = passed[t] \cup {engine[t]} /\ first'[t] = (IF first[t] = None THEN engine[t] ELSE first[t])
  BY DEF Settle, TypeOK
<1>3. Handed(t)' = Handed(t) /\ Handed(t) = passed[t] \cup {engine[t]} /\ passed[t] \subseteq Engines
  BY <1>1, <1>2 DEF Handed, asking, TypeOK
<1>4. \/ step'[t] = "looking" /\ outcome'[t] = outcome[t]
      \/ step'[t] \in {"closing", "over"} /\ outcome'[t] \in {"refused", "final"}
  <2>1. \/ step' = [step EXCEPT ![t] = "looking"] /\ UNCHANGED <<timer, monitor, outcome>>
        \/ EndHold(t, IF carried \/ kept[t] # None THEN "refused" ELSE "final")
    BY DEF Settle
  <2>2. (IF carried \/ kept[t] # None THEN "refused" ELSE "final") \in {"refused", "final"}
    OBVIOUS
  <2> QED BY <2>1, <2>2, HoldEnded DEF TypeOK
<1>5. outcome[t] = "none"
  BY DEF OrderInv, Ended, Working
<1>6. InOrder(t)' /\ Ended(t)' /\ Exhausted(t)'
  BY <1>1, <1>2, <1>3, <1>4, <1>5 DEF OrderInv, InOrder, Ended, Exhausted, asking
<1>7. FirstFailed(t)'
  BY <1>1, <1>2, <1>3, AheadOfItself DEF OrderInv, FirstFailed, asking
<1>8. Hosted(t)'
  BY <1>1, <1>4 DEF OrderInv, Hosted, asking
<1>9. KeptFirst(t)'
  <2>1. /\ kept'[t] = (IF carried /\ kept[t] = None THEN engine[t] ELSE kept[t])
        /\ notices'[t] = (IF carried THEN notices[t] \cup {engine[t]} ELSE notices[t])
        /\ asked' = asked /\ ~Working(t)'
    BY <1>1, <1>4 DEF Settle, asking, Working, TypeOK
  <2>2. KeptFirst(t) /\ Ahead(engine[t], engine[t], asked[t])
    BY <1>1, AheadOfItself DEF OrderInv
  <2> QED BY <1>1, <1>2, <2>1, <2>2 DEF KeptFirst
<1> QED BY <1>6, <1>7, <1>8, <1>9 DEF OrderInv

LEMMA CandidatesAsked ==
  ASSUME NEW t \in Turns, NEW q \in Requests[t], NEW f \in Candidates(q) \cap Cloud
  PROVE  Asked(q) = f /\ Candidates(q) = {f}
<1>1. f \in Cascade(q) /\ Candidates(q) \subseteq Cascade(q)
  BY RequestTyped
<1>2. q.engine \in Cloud /\ Cascade(q) \subseteq {q.engine}
  BY <1>1 DEF Cascade
<1>3. q.engine # None
  BY <1>2, CascadeAssumption
<1> QED BY <1>1, <1>2, <1>3 DEF Asked

LEMMA OwnStepOrdered ==
  ASSUME TypeOK, NEW t \in Turns, TurnInv(t), OrderInv(t), OwnStep(t)
  PROVE  OrderInv(t)'
<1>1. CASE Ask(t)
  <2>1. PICK q \in Requests[t] : AskedWith(t, q)
    BY <1>1, AskedWhat
  <2>2. /\ step[t] = "idle" /\ step'[t] \in {"waiting", "over"} /\ outcome'[t] \in {outcome[t], "unable"}
        /\ outcome'[t] = "unable" => step'[t] = "over"
        /\ asked'[t] = Asked(q) /\ left'[t] = Candidates(q)
    BY <1>1, <2>1 DEF Ask, AskedWith, TypeOK, OrderInv, Ended
  <2>3. /\ UNCHANGED <<failing, engine, stop>>
        /\ engine[t] = None /\ passed[t] = {} /\ first[t] = None /\ outcome[t] = "none" /\ Handed(t)' = {}
        /\ kept[t] = None /\ notices[t] = {}
    BY <1>1, <2>2 DEF Ask, TurnInv, Fresh, OrderInv, Ended, Handed, failing
  <2>4. InOrder(t)' /\ FirstFailed(t)' /\ KeptFirst(t)' /\ Ended(t)' /\ Exhausted(t)'
    BY <2>2, <2>3 DEF InOrder, FirstFailed, KeptFirst, Ended, Exhausted, failing
  <2>5. Hosted(t)'
    BY <2>2, <2>3, CandidatesAsked, CascadeAssumption DEF Hosted, failing
  <2> QED BY <2>4, <2>5 DEF OrderInv
<1>2. CASE Enter(t) \/ LeaveGate(t) \/ FirstWord(t) \/ Stored(t)
  <2>1. /\ UNCHANGED <<asking, failing, stop>> /\ step[t] \notin {"over"} /\ step'[t] # "asked" /\ (Working(t)' => Working(t))
        /\ \/ outcome' = outcome /\ (step'[t] \in {"closing", "over"} \/ step[t] \notin {"closing", "over"})
           \/ step'[t] \in {"closing", "over"} /\ outcome'[t] \in {"busy", "left"}
    BY <1>2 DEF Enter, LeaveGate, FirstWord, Stored, Working, asking, TypeOK
  <2> QED BY <2>1, QuietlyOrdered DEF asking
<1>3. CASE Try(t)
  <2> DEFINE e == Best(left[t], asked[t])
  <2>1. left[t] \in SUBSET Engines /\ left[t] # {} /\ asked[t] \in Engines \cup {None} /\ step[t] = "looking"
    BY <1>3 DEF Try, AskEngine, TypeOK
  <2>2. e \in left[t] /\ e \in Engines /\ None \notin Engines /\ \A f \in left[t] : Ahead(e, f, asked[t])
    BY <2>1, BestIsFirst, CascadeAssumption
  <2>3. /\ step'[t] = "asked" /\ engine'[t] = e /\ left'[t] = left[t] \ {e}
        /\ UNCHANGED <<door, asked, failing, stop, outcome>>
    BY <1>3, <2>2 DEF Try, AskEngine, TypeOK
  <2>4. Handed(t) = passed[t] \ {None} /\ Handed(t)' = (passed[t] \cup {e}) \ {None} /\ passed[t] \subseteq Engines
    BY <2>1, <2>2, <2>3 DEF Handed, TurnInv, PassedOver, failing, TypeOK
  <2>5. outcome[t] = "none"
    BY <2>1 DEF OrderInv, Ended
  <2>6. InOrder(t)' /\ Ended(t)' /\ Exhausted(t)'
    BY <2>2, <2>3, <2>4, <2>5 DEF OrderInv, InOrder, Ended, Exhausted
  <2>7. FirstFailed(t)'
    BY <2>2, <2>3, <2>4 DEF OrderInv, InOrder, FirstFailed, failing
  <2>8. Hosted(t)'
    BY <2>2, <2>3 DEF OrderInv, Hosted, failing
  <2>9. KeptFirst(t)'
    <3>1. kept[t] # None => Ahead(kept[t], e, asked[t])
      BY <2>2, <2>4 DEF OrderInv, KeptFirst, InOrder
    <3> QED BY <2>3, <3>1 DEF OrderInv, KeptFirst, failing
  <2> QED BY <2>6, <2>7, <2>8, <2>9 DEF OrderInv
<1>4. CASE RunOut(t)
  <2>1. UNCHANGED <<asking, failing, stop>> /\ step[t] = "looking" /\ (left[t] = {} \/ "gone" \in stop[t])
    BY <1>4 DEF RunOut, Cancelled
  <2>2. PICK how : /\ EndHold(t, how)
                   /\ how = IF passed[t] = {} THEN "unable"
                            ELSE IF kept[t] # None \/ door[t] = "stream" THEN "notice" ELSE "exhausted"
    BY <1>4 DEF RunOut
  <2>3. step'[t] \in {"closing", "over"} /\ outcome'[t] = how
    BY <2>2, HoldEnded
  <2>4. Handed(t)' = Handed(t)
    BY <2>1 DEF Handed, asking, failing
  <2> QED BY <2>1, <2>2, <2>3, <2>4 DEF OrderInv, InOrder, FirstFailed, KeptFirst, Ended, Exhausted, Hosted, Working, asking, failing
<1>5. CASE Contact(t) \/ DaemonServes(t)
  BY <1>5, SameTurnOrdered DEF Contact, DaemonServes, turnVars, SameTurn
<1>6. CASE PrepareFails(t) \/ Refused(t) \/ Fails(t)
  <2>1. \E fault, carried : Settle(t, fault, carried)
    BY <1>6, Zenon DEF PrepareFails, Refused, Fails
  <2>2. Working(t)
    BY <1>6 DEF PrepareFails, Refused, Fails, Working
  <2> QED BY <2>1, <2>2, SettleOrdered
<1>7. CASE LastWord(t) \/ Breaks(t) \/ Cap(t) \/ TaskCancelled(t)
  <2>1. \E how \in {"answer", "partial", "left"} : EndHold(t, how)
    BY <1>7 DEF LastWord, Breaks, Cap, TaskCancelled
  <2>2. UNCHANGED <<asking, failing>>
    BY <1>7 DEF LastWord, Breaks, Cap, TaskCancelled
  <2>3. stop[t] \subseteq stop'[t]
    BY <1>7 DEF LastWord, Breaks, Cap, TaskCancelled, SetAll, TypeOK
  <2>4. step'[t] \in {"closing", "over"} /\ ~Working(t)'
    BY <2>1, HoldEnded DEF Working
  <2> QED BY <2>1, <2>2, <2>3, <2>4, HoldEnded, QuietlyOrdered DEF asking
<1>8. CASE ClientLeaves(t) \/ CloudTurnedOff(t) \/ MonitorSees(t) \/ \E e \in Engines : Deadline(t, e) \/ WorkerEnds(t, e)
  <2>1. UNCHANGED <<step, door, asked, left, engine, failing, outcome>>
    BY <1>8 DEF ClientLeaves, CloudTurnedOff, MonitorSees, Deadline, WorkerEnds, asking
  <2>2. SetAll(t, "gone") \/ UNCHANGED stop
    BY <1>8 DEF ClientLeaves, CloudTurnedOff, MonitorSees, Deadline, WorkerEnds
  <2>3. stop[t] \subseteq stop'[t]
    BY <2>2 DEF SetAll, TypeOK
  <2> QED BY <2>1, <2>3, QuietlyOrdered DEF Working
<1> QED BY <1>1, <1>2, <1>3, <1>4, <1>5, <1>6, <1>7, <1>8 DEF OwnStep, TurnMoves

\* A call goes out in no step of a turn but Contact.
LEMMA CallsOut ==
  ASSUME NEW t \in Turns, OwnStep(t), ~Contact(t)
  PROVE  call' = call \/ \E what \in {"no", "served", "again"} : Becomes(t, what)
<1>1. ASSUME CallOver(t) \/ Broke(t) \/ EndQuietly(t) \/ Served(t) \/ ServedAgain(t)
      PROVE  call' = call \/ \E what \in {"no", "served", "again"} : Becomes(t, what)
  BY <1>1 DEF CallOver, Broke, EndQuietly, Served, ServedAgain, breakerVars
<1>2. CASE DaemonServes(t) \/ LastWord(t) \/ Breaks(t) \/ Cap(t) \/ TaskCancelled(t)
  BY <1>1, <1>2 DEF DaemonServes, LastWord, Breaks, Cap, TaskCancelled
<1>3. CASE Fails(t)
  BY <1>1, <1>3 DEF Fails
<1>4. CASE Ask(t) \/ Enter(t) \/ LeaveGate(t) \/ Try(t) \/ RunOut(t) \/ PrepareFails(t) \/ Refused(t) \/ FirstWord(t) \/ Stored(t)
  BY <1>4 DEF Ask, Enter, LeaveGate, Try, AskEngine, RunOut, PrepareFails, Refused, FirstWord, Stored, breakerVars
<1>5. CASE ClientLeaves(t) \/ MonitorSees(t) \/ CloudTurnedOff(t) \/ \E e \in Engines : Deadline(t, e) \/ WorkerEnds(t, e)
  BY <1>5 DEF ClientLeaves, MonitorSees, CloudTurnedOff, Deadline, WorkerEnds, breakerVars
<1> QED BY <1>2, <1>3, <1>4, <1>5 DEF OwnStep, TurnMoves

(***************************************************************************)
(* The theorems.                                                           *)
(***************************************************************************)
CascadeInv == TypeOK /\ \A t \in Turns : TurnInv(t) /\ OrderInv(t)

LEMMA CascadeInitial == Init => CascadeInv
<1> SUFFICES ASSUME Init PROVE CascadeInv
  OBVIOUS
<1>1. BreakerTypeOK
  <2>1. 0 \in 0 .. FailureThreshold - 1 /\ 0 \in 0 .. SuccessThreshold - 1
    BY ThresholdAssumption
  <2>2. call \in [Callers -> CallStates]
    BY DEF Init, BreakerInit, CallStates
  <2> QED BY <2>1, <2>2 DEF Init, BreakerInit, BreakerTypeOK
<1>2. TypeOK
  BY <1>1 DEF Init, TypeOK, Steps, Outcomes
<1>3. ASSUME NEW t \in Turns PROVE TurnInv(t)
  BY DEF Init, TurnInv, Fresh, Named, PassedOver, Heard, Timed, Worked, Working, Handed
<1>4. ASSUME NEW t \in Turns PROVE OrderInv(t)
  BY CascadeAssumption DEF Init, OrderInv, InOrder, FirstFailed, KeptFirst, Ended, Exhausted, Hosted, Handed, Working
<1> QED BY <1>2, <1>3, <1>4 DEF CascadeInv

LEMMA CascadeKept == CascadeInv /\ [Next]_vars => CascadeInv'
<1> SUFFICES ASSUME CascadeInv, [Next]_vars PROVE CascadeInv'
  OBVIOUS
<1>1. TypeOK'
  BY TypesKept DEF CascadeInv, TurnInv, Named, Engaged
<1>2. ASSUME NEW u \in Turns PROVE TurnInv(u)' /\ OrderInv(u)'
  <2>1. CASE UNCHANGED turnVars
    <3>1. SameTurn(u)
      BY <2>1 DEF turnVars, SameTurn
    <3> QED BY <3>1, SameTurnKeeps, SameTurnOrdered DEF CascadeInv
  <2>2. ASSUME NEW t \in Turns, OwnStep(t) PROVE TurnInv(u)' /\ OrderInv(u)'
    <3>1. CASE u = t
      BY <2>2, <3>1, OwnStepKeeps, OwnStepOrdered DEF CascadeInv
    <3>2. CASE u # t
      BY <2>2, <3>2, OthersAsTheyAre, SameTurnKeeps, SameTurnOrdered DEF CascadeInv
    <3> QED BY <3>1, <3>2
  <2>3. CASE UNCHANGED vars
    BY <2>1, <2>3 DEF vars
  <2> QED BY <2>1, <2>2, <2>3, StepOfOne
<1> QED BY <1>1, <1>2 DEF CascadeInv

THEOREM CascadeInvariant == Spec => []CascadeInv
  BY CascadeInitial, CascadeKept, PTL DEF Spec

\* Every variable keeps its type: the counters of the breaker stay below the
\* thresholds that clear them.
THEOREM TypeCorrect == Spec => []TypeOK
<1>1. CascadeInv => TypeOK
  BY DEF CascadeInv
<1> QED BY <1>1, CascadeInvariant, PTL

\* What sets a turn's event reaches every engine the turn asked, whatever the
\* order of cancellations, failures and attempts.
THEOREM StopAlwaysReaches == Spec => []StopReachesEngines
<1>1. CascadeInv => StopReachesEngines
  BY DEF CascadeInv, TurnInv, Heard, Worked, Working, StopReachesEngines
<1> QED BY <1>1, CascadeInvariant, PTL

\* No deadline of a turn runs while its answer does, or after its slot is back.
THEOREM DeadlineOnlyWatchesTheSilent == Spec => []DeadlineWatchesTheSilent
<1>1. CascadeInv => DeadlineWatchesTheSilent
  BY DEF CascadeInv, TurnInv, Timed, DeadlineWatchesTheSilent
<1> QED BY <1>1, CascadeInvariant, PTL

\* A turn that nobody claims has asked every candidate, in order, unless its
\* client left; and the failure it is shown is of the one it wanted most, among
\* those whose failure can be shown.
THEOREM NobodyEverLeftUnasked == Spec => []NobodyLeftUnasked
<1>1. CascadeInv => NobodyLeftUnasked
  <2> SUFFICES ASSUME CascadeInv, NEW t \in Turns
               PROVE  /\ \A e \in Handed(t), f \in left[t] : Ahead(e, f, asked[t])
                      /\ outcome[t] \in {"notice", "exhausted"} => left[t] = {} \/ "gone" \in stop[t]
                      /\ outcome[t] \in {"notice", "exhausted", "refused"} =>
                           Shown(t) \in Showable(t) /\ \A e \in Showable(t) : Ahead(Shown(t), e, asked[t])
                      /\ outcome[t] = "exhausted" => notices[t] = {} /\ door[t] # "stream"
    BY DEF NobodyLeftUnasked
  <2>1. passed[t] \subseteq Handed(t)
    BY DEF Handed
  <2>2. InOrder(t) /\ FirstFailed(t) /\ KeptFirst(t) /\ Exhausted(t)
    BY DEF CascadeInv, OrderInv
  <2>3. CASE kept[t] = None
    BY <2>1, <2>2, <2>3 DEF InOrder, FirstFailed, KeptFirst, Exhausted, Shown, Showable
  <2>4. CASE kept[t] # None
    BY <2>2, <2>4 DEF InOrder, KeptFirst, Exhausted, Shown, Showable
  <2> QED BY <2>3, <2>4
<1> QED BY <1>1, CascadeInvariant, PTL

\* Nothing is sent to a hosted engine but by a turn that named it, past its
\* gate, while the switch allows it, with no engine before it or behind it.
THEOREM NothingEverLeavesUnasked == Spec => NothingLeavesUnasked
<1> DEFINE Sends(t) ==
             engine[t] \in Cloud /\ call[t] = "no" /\ call'[t] = "out" =>
               /\ allowed[t] /\ asked[t] = engine[t]
               /\ passed[t] = {} /\ left[t] = {}
<1>1. CascadeInv /\ [Next]_vars => [\A t \in Turns : Sends(t)]_vars
  <2> SUFFICES ASSUME CascadeInv, Next, NEW t \in Turns, engine[t] \in Cloud, call[t] = "no", call'[t] = "out"
               PROVE  allowed[t] /\ asked[t] = engine[t] /\ passed[t] = {} /\ left[t] = {}
    OBVIOUS
  <2>0. Turns \subseteq Callers /\ Guarded \cap Cloud = {} /\ call \in [Callers -> CallStates]
    BY CascadeAssumption DEF CascadeInv, TypeOK, BreakerTypeOK
  <2>1. step[t] = "asked" /\ allowed[t]
    <3>1. CASE Elsewhere
      <4>1. call' = call \/ \E c \in Callers \ Turns : \E what : Becomes(c, what)
        BY <3>1 DEF Elsewhere, Age, CallerStep, Admit, Served, ServedAgain, Broke, EndQuietly
      <4> QED BY <2>0, <4>1 DEF Becomes
    <3>2. ASSUME NEW u \in Turns, OwnStep(u) PROVE step[t] = "asked" /\ allowed[t]
      <4>1. CASE Contact(u)
        BY <2>0, <4>1 DEF Contact, ThroughBreaker, Admit, Becomes
      <4>2. CASE ~Contact(u)
        BY <2>0, <3>2, <4>2, CallsOut DEF Becomes
      <4> QED BY <4>1, <4>2
    <3> QED BY <3>1, <3>2 DEF Next, OwnStep
  <2> QED BY <2>1 DEF CascadeInv, OrderInv, Hosted
<1> QED BY <1>1, CascadeInvariant, PTL DEF Spec, NothingLeavesUnasked

(***************************************************************************)
(* The two gates.  Where a turn is with the gate it waits at, and the only *)
(* ways it gets from one place to another.                                 *)
(***************************************************************************)
Wants(t) == step[t] = "waiting"
IsThrough(t) == step[t] \in {"closing", "over"} /\ ~TurnedAway(t)
Nowhere(t) == ~Wants(t) /\ ~Holds(t) /\ ~IsThrough(t)

\* A turn that is let to the gate has somebody to ask, or has asked somebody.
HasSomebody(t) ==
  step[t] \in {"waiting", "looking"} /\ (OnTheWeb(t) \/ IsHosted(t)) => left[t] # {} \/ passed[t] # {}

Stays(t) ==
  /\ asked'[t] = asked[t]
  /\ Wants(t)' <=> Wants(t)
  /\ Holds(t)' <=> Holds(t)
  /\ IsThrough(t)' <=> IsThrough(t)
Comes(t) == Nowhere(t) /\ ~Holds(t)' /\ ~IsThrough(t)'
IsGranted(t) == Wants(t) /\ asked'[t] = asked[t] /\ ~Wants(t)' /\ Holds(t)' /\ Cardinality(BesideIn(t)) < Slots
Ends(t) == (Wants(t) \/ Holds(t)) /\ asked'[t] = asked[t] /\ ~Wants(t)' /\ ~Holds(t)' /\ IsThrough(t)'

LEMMA EndIsThrough ==
  ASSUME TypeOK, NEW t \in Turns, Wants(t) \/ Holds(t), asked'[t] = asked[t],
         step'[t] \in {"closing", "over"}, ~TurnedAway(t)'
  PROVE  Ends(t)
  BY DEF Ends, Wants, Holds, IsThrough

LEMMA SettledHold ==
  ASSUME TypeOK, NEW t \in Turns, TurnInv(t), Working(t), NEW fault, NEW carried, Settle(t, fault, carried)
  PROVE  (Stays(t) \/ Ends(t)) /\ HasSomebody(t)'
<1>0. Holds(t) /\ UNCHANGED asking /\ passed'[t] = passed[t] \cup {engine[t]}
  BY DEF Working, Holds, Settle, TypeOK
<1>1. \/ step' = [step EXCEPT ![t] = "looking"] /\ UNCHANGED <<timer, monitor, outcome>>
      \/ \E how \in {"refused", "final"} : EndHold(t, how)
  BY DEF Settle
<1>2. CASE step' = [step EXCEPT ![t] = "looking"] /\ UNCHANGED <<timer, monitor, outcome>>
  <2>1. step'[t] = "looking"
    BY <1>2 DEF TypeOK
  <2> QED BY <1>0, <2>1 DEF Stays, Wants, Holds, IsThrough, HasSomebody, asking
<1>3. ASSUME NEW how \in {"refused", "final"}, EndHold(t, how) PROVE Ends(t) /\ HasSomebody(t)'
  <2>1. step'[t] \in {"closing", "over"} /\ outcome'[t] = how
    BY <1>3, HoldEnded
  <2> QED BY <1>0, <2>1, EndIsThrough DEF TurnedAway, HasSomebody, asking
<1> QED BY <1>1, <1>2, <1>3

LEMMA OwnStepAtGate ==
  ASSUME TypeOK, NEW t \in Turns, TurnInv(t), OrderInv(t), HasSomebody(t), OwnStep(t)
  PROVE  (Stays(t) \/ Comes(t) \/ IsGranted(t) \/ Ends(t)) /\ HasSomebody(t)'
<1>1. CASE Ask(t)
  <2>1. PICK q \in Requests[t] : AskedWith(t, q)
    BY <1>1, AskedWhat
  <2>2. step[t] = "idle" /\ outcome[t] = "none"
    BY <1>1 DEF Ask, OrderInv, Ended
  <2>3. q.engine \in Cloud <=> Asked(q) \in Cloud
    BY RequestTyped, CascadeAssumption DEF Asked
  <2>4. asked'[t] = Asked(q) /\ door'[t] = q.door /\ left'[t] = Candidates(q)
    BY <2>1 DEF AskedWith, TypeOK
  <2>5. CASE NoOne(q)
    <3>1. step'[t] = "over" /\ outcome'[t] = "unable"
      BY <2>1, <2>5 DEF AskedWith, TypeOK
    <3> QED BY <2>2, <2>3, <2>4, <2>5, <3>1
            DEF NoOne, Comes, Nowhere, Wants, Holds, IsThrough, TurnedAway, OnTheWeb, IsHosted, HasSomebody
  <2>6. CASE ~NoOne(q)
    <3>1. step'[t] = "waiting"
      BY <2>1, <2>6 DEF AskedWith, TypeOK
    <3> QED BY <2>2, <2>3, <2>4, <2>6, <3>1
            DEF NoOne, Comes, Nowhere, Wants, Holds, IsThrough, OnTheWeb, IsHosted, HasSomebody
  <2> QED BY <2>5, <2>6
<1>2. CASE Enter(t)
  <2>1. step[t] = "waiting" /\ step'[t] = "looking" /\ Cardinality(BesideIn(t)) < Slots /\ UNCHANGED <<asking, failing>>
    BY <1>2 DEF Enter, TypeOK
  <2> QED BY <2>1 DEF IsGranted, Wants, Holds, HasSomebody, OnTheWeb, IsHosted, asking, failing
<1>3. CASE LeaveGate(t)
  <2>1. step[t] = "waiting" /\ step'[t] = "over" /\ outcome'[t] # "unable" /\ UNCHANGED asking
    BY <1>3 DEF LeaveGate, TypeOK
  <2> QED BY <2>1, EndIsThrough DEF Wants, TurnedAway, HasSomebody, asking
<1>4. CASE Try(t)
  <2>1. step[t] = "looking" /\ step'[t] = "asked" /\ UNCHANGED <<asked, door>>
    BY <1>4 DEF Try, AskEngine, TypeOK
  <2> QED BY <2>1 DEF Stays, Wants, Holds, IsThrough, HasSomebody
<1>5. CASE RunOut(t)
  <2>1. step[t] = "looking" /\ (left[t] = {} \/ Cancelled(t)) /\ UNCHANGED asking
    BY <1>5 DEF RunOut
  <2>2. PICK how : /\ EndHold(t, how)
                   /\ how = IF passed[t] = {} THEN "unable"
                            ELSE IF kept[t] # None \/ door[t] = "stream" THEN "notice" ELSE "exhausted"
    BY <1>5 DEF RunOut
  <2>3. step'[t] \in {"closing", "over"} /\ outcome'[t] = how
    BY <2>2, HoldEnded
  <2>4. how = "unable" => ~(OnTheWeb(t) \/ IsHosted(t))
    BY <2>1, <2>2 DEF HasSomebody, Cancelled
  <2>5. ~TurnedAway(t)'
    BY <2>1, <2>3, <2>4 DEF TurnedAway, OnTheWeb, IsHosted, asking
  <2> QED BY <2>1, <2>3, <2>5, EndIsThrough DEF Holds, HasSomebody, asking
<1>6. CASE Contact(t) \/ DaemonServes(t)
  BY <1>6 DEF Contact, DaemonServes, turnVars, Stays, Wants, Holds, IsThrough, TurnedAway, OnTheWeb, IsHosted, HasSomebody
<1>7. CASE PrepareFails(t) \/ Refused(t) \/ Fails(t)
  <2>1. \E fault, carried : Settle(t, fault, carried)
    BY <1>7, Zenon DEF PrepareFails, Refused, Fails
  <2>2. Working(t)
    BY <1>7 DEF PrepareFails, Refused, Fails, Working
  <2> QED BY <2>1, <2>2, SettledHold
<1>8. CASE FirstWord(t)
  <2>1. step[t] = "asked" /\ step'[t] \in {"reading", "answering"} /\ UNCHANGED asking
    BY <1>8 DEF FirstWord, TypeOK
  <2> QED BY <2>1 DEF Stays, Wants, Holds, IsThrough, HasSomebody, asking
<1>9. CASE LastWord(t) \/ Breaks(t) \/ Cap(t) \/ TaskCancelled(t)
  <2>1. PICK how \in {"answer", "partial", "left"} : EndHold(t, how)
    BY <1>9 DEF LastWord, Breaks, Cap, TaskCancelled
  <2>2. step'[t] \in {"closing", "over"} /\ outcome'[t] = how
    BY <2>1, HoldEnded
  <2>3. Holds(t) /\ UNCHANGED asking
    BY <1>9 DEF LastWord, Breaks, Cap, TaskCancelled, Holds
  <2> QED BY <2>2, <2>3, EndIsThrough DEF TurnedAway, HasSomebody, asking
<1>10. CASE Stored(t)
  <2>1. step[t] = "closing" /\ step'[t] = "over" /\ UNCHANGED <<asking, outcome>>
    BY <1>10 DEF Stored, TypeOK
  <2> QED BY <2>1 DEF Stays, Wants, Holds, IsThrough, TurnedAway, OnTheWeb, IsHosted, HasSomebody, asking
<1>11. CASE ClientLeaves(t) \/ CloudTurnedOff(t) \/ MonitorSees(t) \/ \E e \in Engines : Deadline(t, e) \/ WorkerEnds(t, e)
  <2>1. UNCHANGED <<step, door, asked, left, passed, outcome>>
    BY <1>11 DEF ClientLeaves, CloudTurnedOff, MonitorSees, Deadline, WorkerEnds, asking, failing
  <2> QED BY <2>1 DEF Stays, Wants, Holds, IsThrough, TurnedAway, OnTheWeb, IsHosted, HasSomebody
<1> QED BY <1>1, <1>2, <1>3, <1>4, <1>5, <1>6, <1>7, <1>8, <1>9, <1>10, <1>11 DEF OwnStep, TurnMoves

\* What a step does to the sets of one gate.
AsksGate(h, t) ==
  /\ t \notin Wanting(h) \cup Holding(h) \cup Through(h)
  /\ Wanting(h)' = Wanting(h) \cup {t} /\ Holding(h)' = Holding(h) /\ Through(h)' = Through(h)
TakesSlot(h, t) ==
  /\ t \notin Holding(h) \cup Through(h) /\ Cardinality(Holding(h)) < Slots
  /\ Wanting(h)' = Wanting(h) \ {t} /\ Holding(h)' = Holding(h) \cup {t} /\ Through(h)' = Through(h)
Forgoes(h, t) ==
  /\ t \in Wanting(h)
  /\ Wanting(h)' = Wanting(h) \ {t} /\ Holding(h)' = Holding(h) /\ Through(h)' = Through(h) \cup {t}
GivesBack(h, t) ==
  /\ t \in Holding(h)
  /\ Wanting(h)' = Wanting(h) /\ Holding(h)' = Holding(h) \ {t} /\ Through(h)' = Through(h) \cup {t}
GateStep(h) ==
  \/ UNCHANGED <<Wanting(h), Holding(h), Through(h)>>
  \/ \E t \in Turns : AsksGate(h, t) \/ TakesSlot(h, t) \/ Forgoes(h, t) \/ GivesBack(h, t)

\* Who is where, before a step and after it.
LEMMA Membership ==
  ASSUME NEW h \in BOOLEAN, NEW u \in Turns
  PROVE  /\ u \in Wanting(h) <=> (IsHosted(u) = h) /\ Wants(u)
         /\ u \in Holding(h) <=> (IsHosted(u) = h) /\ Holds(u)
         /\ u \in Through(h) <=> (IsHosted(u) = h) /\ IsThrough(u)
  BY DEF Wanting, Holding, Through, At, Wants, IsThrough

LEMMA MembershipNext ==
  ASSUME NEW h \in BOOLEAN, NEW u \in Turns
  PROVE  /\ u \in Wanting(h)' <=> (IsHosted(u)' = h) /\ Wants(u)'
         /\ u \in Holding(h)' <=> (IsHosted(u)' = h) /\ Holds(u)'
         /\ u \in Through(h)' <=> (IsHosted(u)' = h) /\ IsThrough(u)'
  BY DEF Wanting, Holding, Through, At, Wants, IsThrough

LEMMA OnlyTurns ==
  ASSUME NEW h \in BOOLEAN
  PROVE  /\ Wanting(h) \subseteq Turns /\ Holding(h) \subseteq Turns /\ Through(h) \subseteq Turns
         /\ Wanting(h)' \subseteq Turns /\ Holding(h)' \subseteq Turns /\ Through(h)' \subseteq Turns
  BY DEF Wanting, Holding, Through, At

LEMMA OthersAtGate ==
  ASSUME NEW h \in BOOLEAN, NEW u \in Turns, SameTurn(u)
  PROVE  /\ u \in Wanting(h)' <=> u \in Wanting(h)
         /\ u \in Holding(h)' <=> u \in Holding(h)
         /\ u \in Through(h)' <=> u \in Through(h)
<1>1. /\ IsHosted(u)' = IsHosted(u) /\ (Wants(u)' <=> Wants(u)) /\ (Holds(u)' <=> Holds(u))
      /\ (IsThrough(u)' <=> IsThrough(u))
  BY DEF SameTurn, IsHosted, Wants, Holds, IsThrough, TurnedAway, OnTheWeb
<1> QED BY <1>1, Membership, MembershipNext

LEMMA Beside ==
  ASSUME NEW h \in BOOLEAN, NEW t \in Turns, IsHosted(t) = h
  PROVE  BesideIn(t) = Holding(h)
  BY DEF BesideIn, Holding, At

LEMMA TurnAtGate ==
  ASSUME TypeOK, NEW t \in Turns, Stays(t) \/ Comes(t) \/ IsGranted(t) \/ Ends(t),
         \A u \in Turns \ {t} : SameTurn(u), NEW h \in BOOLEAN
  PROVE  GateStep(h)
<1> DEFINE W == Wanting(h)  H == Holding(h)  O == Through(h)
<1>1. \A u \in Turns \ {t} : (u \in W' <=> u \in W) /\ (u \in H' <=> u \in H) /\ (u \in O' <=> u \in O)
  BY OthersAtGate
<1>2. W \subseteq Turns /\ H \subseteq Turns /\ O \subseteq Turns /\ W' \subseteq Turns /\ H' \subseteq Turns /\ O' \subseteq Turns
  BY OnlyTurns
<1>3. \/ (t \in W' <=> t \in W) /\ (t \in H' <=> t \in H) /\ (t \in O' <=> t \in O)
      \/ t \notin W /\ t \notin H /\ t \notin O /\ t \in W' /\ t \notin H' /\ t \notin O'
      \/ t \in W /\ t \notin H /\ t \notin O /\ t \notin W' /\ t \in H' /\ t \notin O' /\ Cardinality(H) < Slots
      \/ t \in W /\ t \notin H /\ t \notin O /\ t \notin W' /\ t \notin H' /\ t \in O'
      \/ t \in H /\ t \notin W /\ t \notin O /\ t \notin W' /\ t \notin H' /\ t \in O'
  <2>1. /\ t \in W <=> (IsHosted(t) = h) /\ Wants(t)
        /\ t \in H <=> (IsHosted(t) = h) /\ Holds(t)
        /\ t \in O <=> (IsHosted(t) = h) /\ IsThrough(t)
    BY Membership
  <2>2. /\ t \in W' <=> (IsHosted(t)' = h) /\ Wants(t)'
        /\ t \in H' <=> (IsHosted(t)' = h) /\ Holds(t)'
        /\ t \in O' <=> (IsHosted(t)' = h) /\ IsThrough(t)'
    BY MembershipNext
  <2>3. asked'[t] = asked[t] => IsHosted(t)' = IsHosted(t)
    BY DEF IsHosted
  <2>4. ~(Wants(t) /\ Holds(t)) /\ ~(IsThrough(t) /\ (Wants(t) \/ Holds(t))) /\ ~(Wants(t)' /\ Holds(t)')
        /\ ~(IsThrough(t)' /\ (Wants(t)' \/ Holds(t)'))
    BY DEF Wants, Holds, IsThrough
  <2> HIDE DEF W, H, O
  <2>5. CASE Stays(t)
    BY <2>1, <2>2, <2>3, <2>5 DEF Stays
  <2>6. CASE Comes(t)
    BY <2>1, <2>2, <2>6 DEF Comes, Nowhere
  <2>7. CASE IsGranted(t)
    <3>1. IsHosted(t) = h => Cardinality(H) < Slots
      BY <2>7, Beside DEF IsGranted, H
    <3> QED BY <2>1, <2>2, <2>3, <2>4, <2>7, <3>1 DEF IsGranted
  <2>8. CASE Ends(t)
    BY <2>1, <2>2, <2>3, <2>4, <2>8 DEF Ends
  <2> QED BY <2>5, <2>6, <2>7, <2>8
<1> HIDE DEF W, H, O
<1>4. \/ W' = W /\ H' = H /\ O' = O
      \/ t \notin W \cup H \cup O /\ W' = W \cup {t} /\ H' = H /\ O' = O
      \/ t \notin H \cup O /\ Cardinality(H) < Slots /\ W' = W \ {t} /\ H' = H \cup {t} /\ O' = O
      \/ t \in W /\ W' = W \ {t} /\ O' = O \cup {t} /\ H' = H
      \/ t \in H /\ H' = H \ {t} /\ O' = O \cup {t} /\ W' = W
  BY <1>1, <1>2, <1>3
<1> QED BY <1>4 DEF GateStep, AsksGate, TakesSlot, Forgoes, GivesBack, W, H, O

GatesInv == \A t \in Turns : HasSomebody(t)

LEMMA StepAtGates ==
  ASSUME CascadeInv, GatesInv, [Next]_vars
  PROVE  GatesInv' /\ \A h \in BOOLEAN : GateStep(h)
<1>1. ASSUME UNCHANGED turnVars PROVE GatesInv' /\ \A h \in BOOLEAN : GateStep(h)
  BY <1>1 DEF turnVars, GatesInv, HasSomebody, OnTheWeb, IsHosted, GateStep, Wanting, Holding, Through, At, Holds, TurnedAway
<1>2. ASSUME NEW t \in Turns, OwnStep(t) PROVE GatesInv' /\ \A h \in BOOLEAN : GateStep(h)
  <2>1. (Stays(t) \/ Comes(t) \/ IsGranted(t) \/ Ends(t)) /\ HasSomebody(t)'
    BY <1>2, OwnStepAtGate DEF CascadeInv, GatesInv
  <2>2. \A u \in Turns \ {t} : SameTurn(u)
    BY <1>2, OthersAsTheyAre DEF CascadeInv
  <2>3. \A u \in Turns \ {t} : HasSomebody(u)'
    BY <2>2 DEF SameTurn, GatesInv, HasSomebody, OnTheWeb, IsHosted
  <2> QED BY <2>1, <2>2, <2>3, TurnAtGate DEF CascadeInv, GatesInv
<1> QED BY <1>1, <1>2, StepOfOne DEF vars

LEMMA GatesCount == \A S : LocalGate!Cardinality(S) = Cardinality(S) /\ HostedGate!Cardinality(S) = Cardinality(S)
  BY DEF LocalGate!Cardinality, HostedGate!Cardinality, Cardinality

\* A turn takes a slot of its gate at most once, when one is free, and gives it
\* back, whatever ends it: the cascade is a user of the pool that EngineGate
\* implements (EngineGate_proofs: GateImplementsPool).
THEOREM GatesUsedAsPromised == Spec => UsesTheGates
<1>1. Init => GatesInv /\ LocalGate!PoolInit /\ HostedGate!PoolInit
  BY DEF Init, GatesInv, HasSomebody, LocalGate!PoolInit, HostedGate!PoolInit, Wanting, Holding, Through, At, Holds
<1>2. GateStep(FALSE) => [LocalGate!PoolNext]_LocalGate!poolVars
  <2>1. ASSUME NEW t \in Turns, AsksGate(FALSE, t) PROVE LocalGate!Ask(t)
    BY <2>1 DEF AsksGate, LocalGate!Ask, LocalGate!MayTell
  <2>2. ASSUME NEW t \in Turns, TakesSlot(FALSE, t) PROVE LocalGate!Grant(t)
    BY <2>2, GatesCount DEF TakesSlot, LocalGate!Grant, LocalGate!MayTell
  <2>3. ASSUME NEW t \in Turns, Forgoes(FALSE, t) PROVE LocalGate!GiveUp(t)
    BY <2>3 DEF Forgoes, LocalGate!GiveUp
  <2>4. ASSUME NEW t \in Turns, GivesBack(FALSE, t) PROVE LocalGate!GiveBack(t)
    BY <2>4 DEF GivesBack, LocalGate!GiveBack
  <2> QED BY <2>1, <2>2, <2>3, <2>4 DEF GateStep, LocalGate!PoolNext, LocalGate!poolVars, LocalGate!Clients
<1>3. GateStep(TRUE) => [HostedGate!PoolNext]_HostedGate!poolVars
  <2>1. ASSUME NEW t \in Turns, AsksGate(TRUE, t) PROVE HostedGate!Ask(t)
    BY <2>1 DEF AsksGate, HostedGate!Ask, HostedGate!MayTell
  <2>2. ASSUME NEW t \in Turns, TakesSlot(TRUE, t) PROVE HostedGate!Grant(t)
    BY <2>2, GatesCount DEF TakesSlot, HostedGate!Grant, HostedGate!MayTell
  <2>3. ASSUME NEW t \in Turns, Forgoes(TRUE, t) PROVE HostedGate!GiveUp(t)
    BY <2>3 DEF Forgoes, HostedGate!GiveUp
  <2>4. ASSUME NEW t \in Turns, GivesBack(TRUE, t) PROVE HostedGate!GiveBack(t)
    BY <2>4 DEF GivesBack, HostedGate!GiveBack
  <2> QED BY <2>1, <2>2, <2>3, <2>4 DEF GateStep, HostedGate!PoolNext, HostedGate!poolVars, HostedGate!Clients
<1>4. CascadeInv /\ GatesInv /\ [Next]_vars => GatesInv' /\ GateStep(FALSE) /\ GateStep(TRUE)
  BY StepAtGates
<1> QED BY <1>1, <1>2, <1>3, <1>4, CascadeInvariant, PTL DEF Spec, UsesTheGates, LocalGate!PoolSpec, HostedGate!PoolSpec

(***************************************************************************)
(* The breaker.  A turn has a call out only while it works with the engine *)
(* the call is for, so that moving on to another engine is no event of the *)
(* breaker's, and a call to a provider never is one.                       *)
(***************************************************************************)
CallInv(t) ==
  /\ call[t] # "no" => Working(t) /\ (ThroughBreaker(t) \/ engine[t] \in Cloud)
  /\ engine[t] \in Cloud => call[t] \in {"no", "out"}

CallStep(t) ==
  \/ /\ UNCHANGED breakerVars
     /\ engine' = engine \/ (call[t] = "no" /\ \A u \in Turns \ {t} : engine'[u] = engine[u])
  \/ engine' = engine /\ ThroughBreaker(t) /\ CallerStep(t)
  \/ engine' = engine /\ engine[t] \in Cloud /\ UNCHANGED circuit /\ \E what \in {"no", "out"} : Becomes(t, what)

\* A call that is over, however the turn goes on.
LEMMA CallEnds ==
  ASSUME TypeOK, NEW t \in Turns, CallInv(t), engine' = engine,
         CallOver(t) \/ (ThroughBreaker(t) /\ (Broke(t) \/ EndQuietly(t)))
  PROVE  CallStep(t) /\ call'[t] = "no"
<1>0. Turns \subseteq Callers /\ call \in [Callers -> CallStates]
  BY CascadeAssumption DEF TypeOK, BreakerTypeOK
<1>1. CASE ThroughBreaker(t) /\ (Broke(t) \/ EndQuietly(t))
  BY <1>0, <1>1 DEF CallStep, CallerStep, Broke, EndQuietly, Becomes
<1>2. CASE CallOver(t) /\ call[t] = "no"
  BY <1>2 DEF CallOver, CallStep, breakerVars
<1>3. CASE CallOver(t) /\ call[t] # "no"
  <2>1. EndQuietly(t) /\ (ThroughBreaker(t) \/ engine[t] \in Cloud)
    BY <1>3 DEF CallOver, CallInv
  <2> QED BY <1>0, <2>1 DEF CallStep, CallerStep, EndQuietly, Becomes
<1> QED BY <1>1, <1>2, <1>3

LEMMA OwnStepCalls ==
  ASSUME TypeOK, NEW t \in Turns, TurnInv(t), CallInv(t), OwnStep(t)
  PROVE  CallStep(t) /\ CallInv(t)'
<1>0. Turns \subseteq Callers /\ call \in [Callers -> CallStates] /\ Guarded \cap Cloud = {}
  BY CascadeAssumption DEF TypeOK, BreakerTypeOK
<1>1. CASE Ask(t) \/ Enter(t) \/ LeaveGate(t) \/ RunOut(t) \/ Stored(t)
  <2>1. ~Working(t) /\ UNCHANGED <<breakerVars, engine>>
    BY <1>1 DEF Ask, Enter, LeaveGate, RunOut, Stored, Working, asking
  <2> QED BY <2>1 DEF CallInv, CallStep, breakerVars
<1>2. CASE Try(t)
  <2>1. ~Working(t) /\ UNCHANGED breakerVars /\ \E e : engine' = [engine EXCEPT ![t] = e]
    BY <1>2 DEF Try, AskEngine, Working
  <2>2. \A u \in Turns \ {t} : engine'[u] = engine[u]
    BY <2>1 DEF TypeOK
  <2> QED BY <2>1, <2>2 DEF CallInv, CallStep, breakerVars
<1>3. CASE Contact(t)
  <2>1. Working(t) /\ UNCHANGED <<step, engine, door>>
    BY <1>3 DEF Contact, Working, turnVars
  <2>2. \/ ThroughBreaker(t) /\ Admit(t)
        \/ engine[t] \in Cloud /\ Becomes(t, "out") /\ UNCHANGED circuit
    BY <1>3 DEF Contact
  <2>3. call'[t] = "out"
    BY <1>0, <2>2 DEF Admit, Becomes
  <2> QED BY <2>1, <2>2, <2>3 DEF CallInv, CallStep, CallerStep, Working, ThroughBreaker, OnTheWeb
<1>4. CASE DaemonServes(t)
  <2>1. ThroughBreaker(t) /\ (Served(t) \/ ServedAgain(t)) /\ UNCHANGED <<step, engine, door>>
    BY <1>4 DEF DaemonServes, turnVars
  <2>2. call[t] # "no" /\ engine[t] \notin Cloud
    BY <1>0, <2>1 DEF Served, ServedAgain, ThroughBreaker
  <2> QED BY <2>1, <2>2 DEF CallInv, CallStep, CallerStep, Working, ThroughBreaker, OnTheWeb
<1>5. CASE PrepareFails(t) \/ Refused(t)
  <2>1. call[t] = "no" /\ UNCHANGED <<breakerVars, engine>>
    BY <1>5 DEF PrepareFails, Refused, Settle, asking
  <2> QED BY <2>1 DEF CallInv, CallStep, breakerVars
<1>6. CASE Fails(t) \/ LastWord(t) \/ Breaks(t) \/ Cap(t) \/ TaskCancelled(t)
  <2>1. engine' = engine
    BY <1>6 DEF Fails, LastWord, Breaks, Cap, TaskCancelled, Settle, asking
  <2>2. CallOver(t) \/ (ThroughBreaker(t) /\ (Broke(t) \/ EndQuietly(t)))
    BY <1>6 DEF Fails, LastWord, Breaks, Cap, TaskCancelled
  <2> QED BY <2>1, <2>2, CallEnds DEF CallInv
<1>7. CASE FirstWord(t)
  <2>1. Working(t) /\ step'[t] \in {"reading", "answering"} /\ UNCHANGED <<breakerVars, engine, door>>
    BY <1>7 DEF FirstWord, Working, asking, TypeOK
  <2> QED BY <2>1 DEF CallInv, CallStep, Working, ThroughBreaker, OnTheWeb, breakerVars
<1>8. CASE ClientLeaves(t) \/ CloudTurnedOff(t) \/ MonitorSees(t) \/ \E e \in Engines : Deadline(t, e) \/ WorkerEnds(t, e)
  <2>1. UNCHANGED <<breakerVars, step, engine, door>>
    BY <1>8 DEF ClientLeaves, CloudTurnedOff, MonitorSees, Deadline, WorkerEnds, asking
  <2> QED BY <2>1 DEF CallInv, CallStep, Working, ThroughBreaker, OnTheWeb, breakerVars
<1> QED BY <1>1, <1>2, <1>3, <1>4, <1>5, <1>6, <1>7, <1>8 DEF OwnStep, TurnMoves

CallsInv == \A t \in Turns : CallInv(t)

\* What the breaker does is what it does in the instance.
LEMMA BreakerAlike ==
  /\ circuit = Breaker!circuit /\ circuit' = Breaker!circuit'
  /\ LetThrough => Breaker!LetThrough
  /\ RecordSuccess => Breaker!RecordSuccess
  /\ RecordFailure => Breaker!RecordFailure
<1>1. circuit = Breaker!circuit /\ circuit' = Breaker!circuit'
  BY DEF circuit, Breaker!circuit
<1>2. CanExecute <=> Breaker!CanExecute
  BY DEF CanExecute, Breaker!CanExecute
<1>3. \A to, probe : Transition(to, probe) <=> Breaker!Transition(to, probe)
  BY DEF Transition, Breaker!Transition
<1>4. LetThrough => Breaker!LetThrough
  BY <1>1, <1>2, <1>3 DEF LetThrough, Breaker!LetThrough
<1>5. RecordSuccess => Breaker!RecordSuccess
  BY <1>1, <1>3 DEF RecordSuccess, Breaker!RecordSuccess
<1>6. RecordFailure => Breaker!RecordFailure
  BY <1>1, <1>3 DEF RecordFailure, Breaker!RecordFailure
<1> QED BY <1>1, <1>4, <1>5, <1>6

\* One caller's step, seen through DaemonCall.
LEMMA CallerAlike ==
  ASSUME TypeOK, NEW c \in Callers, CallerStep(c), engine' = engine, ~(c \in Turns /\ engine[c] \in Cloud)
  PROVE  Breaker!BreakerNext
<1>0. call \in [Callers -> CallStates] /\ DaemonCall[c] = call[c]
  BY DEF TypeOK, BreakerTypeOK, DaemonCall
<1>1. ASSUME NEW what, Becomes(c, what) PROVE Breaker!Becomes(c, what)
  <2>1. \A d \in Callers : DaemonCall'[d] = IF d = c THEN what ELSE DaemonCall[d]
    BY <1>0, <1>1 DEF Becomes, DaemonCall
  <2>2. DaemonCall' = [d \in Callers |-> DaemonCall'[d]] /\ DaemonCall = [d \in Callers |-> DaemonCall[d]]
    BY DEF DaemonCall
  <2> HIDE DEF DaemonCall
  <2> QED BY <2>1, <2>2 DEF Breaker!Becomes
<1>2. Breaker!Admit(c) \/ Breaker!Served(c) \/ Breaker!ServedAgain(c) \/ Breaker!Broke(c) \/ Breaker!EndQuietly(c)
  BY <1>0, <1>1, BreakerAlike
     DEF CallerStep, Admit, Served, ServedAgain, Broke, EndQuietly,
         Breaker!Admit, Breaker!Served, Breaker!ServedAgain, Breaker!Broke, Breaker!EndQuietly
<1> QED BY <1>2 DEF Breaker!BreakerNext, Breaker!CallerStep

LEMMA TurnAtBreaker ==
  ASSUME TypeOK, NEW t \in Turns, CallInv(t), CallStep(t)
  PROVE  [Breaker!BreakerNext]_(Breaker!breakerVars)
<1>0. Turns \subseteq Callers /\ Guarded \cap Cloud = {} /\ call \in [Callers -> CallStates]
  BY CascadeAssumption DEF TypeOK, BreakerTypeOK
<1>1. CASE UNCHANGED breakerVars /\ engine' = engine
  BY <1>1 DEF breakerVars, Breaker!breakerVars, DaemonCall
<1>2. CASE UNCHANGED breakerVars /\ call[t] = "no" /\ \A u \in Turns \ {t} : engine'[u] = engine[u]
  <2>1. DaemonCall' = DaemonCall
    BY <1>2 DEF breakerVars, DaemonCall
  <2> QED BY <1>2, <2>1 DEF breakerVars, Breaker!breakerVars
<1>3. CASE engine' = engine /\ ThroughBreaker(t) /\ CallerStep(t)
  BY <1>0, <1>3, CallerAlike DEF ThroughBreaker
<1>4. CASE engine' = engine /\ engine[t] \in Cloud /\ UNCHANGED circuit /\ \E what \in {"no", "out"} : Becomes(t, what)
  <2>1. DaemonCall' = DaemonCall
    BY <1>0, <1>4 DEF Becomes, DaemonCall
  <2> QED BY <1>4, <2>1 DEF circuit, Breaker!breakerVars
<1> QED BY <1>1, <1>2, <1>3, <1>4 DEF CallStep

LEMMA StepAtBreaker ==
  ASSUME CascadeInv, CallsInv, [Next]_vars
  PROVE  CallsInv' /\ [Breaker!BreakerNext]_(Breaker!breakerVars)
<1>0. TypeOK /\ Turns \subseteq Callers /\ call \in [Callers -> CallStates]
  BY CascadeAssumption DEF CascadeInv, TypeOK, BreakerTypeOK
<1>1. ASSUME NEW t \in Turns, OwnStep(t) PROVE CallsInv' /\ [Breaker!BreakerNext]_(Breaker!breakerVars)
  <2>1. CallStep(t) /\ CallInv(t)'
    BY <1>1, OwnStepCalls DEF CascadeInv, CallsInv
  <2>2. ASSUME NEW u \in Turns \ {t} PROVE CallInv(u)'
    <3>1. SameTurn(u)
      BY <1>1, OthersAsTheyAre DEF CascadeInv
    <3>2. call'[u] = call[u]
      BY <1>0, <2>1 DEF CallStep, CallerStep, Admit, Served, ServedAgain, Broke, EndQuietly, Becomes, breakerVars
    <3> QED BY <3>1, <3>2 DEF SameTurn, CallsInv, CallInv, Working, ThroughBreaker, OnTheWeb
  <2> QED BY <1>0, <2>1, <2>2, TurnAtBreaker DEF CallsInv
<1>2. CASE Elsewhere
  <2>1. UNCHANGED turnVars /\ (Age \/ \E c \in Callers \ Turns : CallerStep(c))
    BY <1>2 DEF Elsewhere
  <2>2. \A u \in Turns : call'[u] = call[u]
    BY <1>0, <2>1 DEF Age, CallerStep, Admit, Served, ServedAgain, Broke, EndQuietly, Becomes
  <2>3. CallsInv'
    BY <2>1, <2>2 DEF turnVars, CallsInv, CallInv, Working, ThroughBreaker, OnTheWeb
  <2>4. CASE Age
    <3>1. Breaker!Age
      BY <2>1, <2>4 DEF turnVars, Age, Breaker!Age, DaemonCall
    <3> QED BY <2>3, <3>1 DEF Breaker!BreakerNext
  <2>5. CASE \E c \in Callers \ Turns : CallerStep(c)
    BY <1>0, <2>1, <2>3, <2>5, CallerAlike DEF turnVars
  <2> QED BY <2>1, <2>4, <2>5
<1>3. CASE UNCHANGED vars
  BY <1>3 DEF vars, turnVars, breakerVars, CallsInv, CallInv, Working, ThroughBreaker, OnTheWeb, Breaker!breakerVars, DaemonCall
<1> QED BY <1>1, <1>2, <1>3 DEF Next, OwnStep

\* The breaker sees only what its callers promise it: leave before a record,
\* one call of a turn at a time, none of a turn that has moved on, and nothing
\* of what is sent to a provider.
THEOREM BreakerUsedAsPromised == Spec => UsesTheBreaker
<1>1. Init => CallsInv /\ Breaker!BreakerInit
  <2> SUFFICES ASSUME Init PROVE CallsInv /\ Breaker!BreakerInit
    OBVIOUS
  <2>1. Turns \subseteq Callers /\ None \notin Cloud
    BY CascadeAssumption
  <2>2. CallsInv
    BY <2>1 DEF Init, BreakerInit, CallsInv, CallInv
  <2>3. DaemonCall = [c \in Callers |-> "no"]
    BY DEF Init, BreakerInit, DaemonCall
  <2> QED BY <2>2, <2>3 DEF Init, BreakerInit, Breaker!BreakerInit
<1>2. CascadeInv /\ CallsInv /\ [Next]_vars => CallsInv' /\ [Breaker!BreakerNext]_(Breaker!breakerVars)
  BY StepAtBreaker
<1> QED BY <1>1, <1>2, CascadeInvariant, PTL DEF Spec, UsesTheBreaker, Breaker!BreakerSpec
=============================================================================
