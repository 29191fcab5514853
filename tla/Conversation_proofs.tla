------------------------ MODULE Conversation_proofs ------------------------
(***************************************************************************)
(* Proofs about Conversation for every set of turns and engines, and every *)
(* bound on takeovers, deletions, restarts and attempts.                   *)
(***************************************************************************)
EXTENDS Conversation, SequenceTheorems, WellFoundedInduction, TLAPS

(***************************************************************************)
(* What the typing of the session needs besides itself: the objects made   *)
(* are counted, one per deletion or restart and one more while there is a  *)
(* current one; a turn that has begun, and a job, has an object; an object *)
(* not made yet is untouched.                                              *)
(***************************************************************************)
Counted ==
  /\ made <= deletes + restarts + (IF current = None THEN 0 ELSE 1)
  /\ current # None => current <= made

Begun ==
  /\ \A t \in Turns : obj[t] # None => obj[t] <= made
  /\ \A t \in Turns : pc[t] # "new" => obj[t] # None
  /\ waiting # None => pc[waiting] # "new"
  /\ \A q \in Engines : running[q] # None => pc[running[q]] # "new"

Untouched ==
  \A o \in Objects : o > made => lease[o] = None /\ msgs[o] = <<>> /\ covered[o] = {}

TypeInv == TypeOK /\ Counted /\ Begun /\ Untouched

(***************************************************************************)
(* The ways a step changes the session: a turn opens it, a turn writes it, *)
(* a compaction is applied, it is deleted, the server restarts.            *)
(***************************************************************************)
Move(t, places) == \E at \in places \ {pc[t]} : pc' = [pc EXCEPT ![t] = at]

Open(t, q) == OpenTurn(t, q) /\ Move(t, {"held", "done"})

Write(t) ==
  /\ pc[t] \in {"held", "asked", "serving"}
  /\ Move(t, {"asked", "answered", "told", "done"})
  /\ UNCHANGED obj
  /\ \E role \in {"user", "assistant"} : Add(obj[t], role, t)
  /\ Save(obj[t])

\* What a write of the file, or its removal, makes of it.
LEMMA FileWrites ==
  /\ \A o : Save(o) => \/ /\ disk' = [msgs |-> msgs'[o], covered |-> covered'[o]]
                          /\ filed' = written'[o] /\ behind' = FALSE
                       \/ UNCHANGED <<disk, filed>> /\ behind' = TRUE
  /\ Unlink => \/ disk' = None /\ filed' = {} /\ behind' = FALSE
               \/ UNCHANGED <<disk, filed>> /\ behind' = TRUE
<1>1. ASSUME NEW o, Save(o)
      PROVE  \/ /\ disk' = [msgs |-> msgs'[o], covered |-> covered'[o]]
                /\ filed' = written'[o] /\ behind' = FALSE
             \/ UNCHANGED <<disk, filed>> /\ behind' = TRUE
  BY <1>1 DEF Save
<1>2. Unlink => \/ disk' = None /\ filed' = {} /\ behind' = FALSE
                \/ UNCHANGED <<disk, filed>> /\ behind' = TRUE
  BY DEF Unlink
<1> QED BY <1>1, <1>2

LEMMA FileTyped ==
  ASSUME SessionTypes, NEW o \in Objects, Save(o),
         msgs' \in [Objects -> Seq(Messages)], covered' \in [Objects -> SUBSET Messages],
         written' \in [Objects -> SUBSET Messages]
  PROVE  disk' \in Files \cup {None} /\ filed' \subseteq Messages
<1>1. /\ [msgs |-> msgs'[o], covered |-> covered'[o]] \in Files /\ written'[o] \subseteq Messages
  BY DEF Files
<1>2. disk \in Files \cup {None} /\ filed \subseteq Messages
  BY DEF SessionTypes
<1>3. \/ disk' = [msgs |-> msgs'[o], covered |-> covered'[o]] /\ filed' = written'[o]
      \/ UNCHANGED <<disk, filed>>
  BY FileWrites
<1> QED BY <1>1, <1>2, <1>3

LEMMA SessionChanges ==
  ASSUME [Next]_vars
  PROVE  \/ UNCHANGED sessionVars
         \/ \E t \in Turns, q \in Engines : Open(t, q)
         \/ \E t \in Turns : Write(t)
         \/ \E q \in slot : snap[running[q]] > 0 /\ Apply(running[q]) /\ UNCHANGED turnVars
         \/ Delete
         \/ Restart
<1>1. ASSUME NEW t \in Turns, NEW q \in Engines, SessionRefused(t, q) PROVE Open(t, q)
  BY <1>1 DEF SessionRefused, Open, OpenTurn, Move
<1>2. ASSUME NEW t \in Turns, NEW q \in Engines, NEW force \in BOOLEAN, SessionGranted(t, q, force)
      PROVE Open(t, q)
  BY <1>2 DEF SessionGranted, Open, OpenTurn, Move
<1>3. ASSUME NEW t \in Turns, PersistUser(t) \/ Answer(t) \/ Cut(t) \/ ShortCircuit(t) PROVE Write(t)
  BY <1>3 DEF PersistUser, Answer, Cut, ShortCircuit, Write, Move
<1>4. ASSUME NEW t \in Turns, EngineStep(t) \/ Fail(t) \/ Serve(t) \/ Unread(t) \/ Emit(t) \/ EmitShort(t)
      PROVE UNCHANGED sessionVars
  BY <1>4 DEF EngineStep, Fail, Serve, Unread, Emit, EmitShort
<1>5. ASSUME NEW q \in Engines, JobTake(q) \/ JobStart(q) \/ GateSignal(q) \/ JobPreempted(q)
      PROVE UNCHANGED sessionVars
  BY <1>5 DEF JobTake, JobStart, GateSignal, JobPreempted
<1>6. ASSUME NEW q \in Engines, JobDone(q)
      PROVE UNCHANGED sessionVars \/ (q \in slot /\ snap[running[q]] > 0 /\ Apply(running[q]) /\ UNCHANGED turnVars)
  BY <1>6 DEF JobDone
<1>7. ASSUME Expire \/ UNCHANGED vars PROVE UNCHANGED sessionVars
  BY <1>7 DEF Expire, vars
<1> QED BY <1>1, <1>2, <1>3, <1>4, <1>5, <1>6, <1>7 DEF Next

(***************************************************************************)
(* The turns: one begins, one moves on, or the server stops under all.     *)
(***************************************************************************)
LEMMA TurnChanges ==
  ASSUME [Next]_vars
  PROVE  \/ UNCHANGED turnVars
         \/ \E t \in Turns, q \in Engines :
              OpenTurn(t, q) /\ \E at \in {"held", "done"} : pc' = [pc EXCEPT ![t] = at]
         \/ \E t \in Turns : \E at \in {"asked", "ready", "serving", "answered", "told", "refused", "unread", "done"} :
              t \in Active /\ pc[t] # "new" /\ pc' = [pc EXCEPT ![t] = at] /\ UNCHANGED <<obj, engine, asks>>
         \/ Restart
<1>1. ASSUME NEW t \in Turns, NEW q \in Engines,
             SessionRefused(t, q) \/ \E force \in BOOLEAN : SessionGranted(t, q, force)
      PROVE OpenTurn(t, q) /\ \E at \in {"held", "done"} : pc' = [pc EXCEPT ![t] = at]
  BY <1>1 DEF SessionRefused, SessionGranted
<1>2. ASSUME NEW t \in Turns,
             \/ PersistUser(t) \/ EngineStep(t) \/ Fail(t) \/ Serve(t) \/ Unread(t) \/ Answer(t) \/ Cut(t)
             \/ Emit(t) \/ ShortCircuit(t) \/ EmitShort(t)
      PROVE \E at \in {"asked", "ready", "serving", "answered", "told", "refused", "unread", "done"} :
              t \in Active /\ pc[t] # "new" /\ pc' = [pc EXCEPT ![t] = at] /\ UNCHANGED <<obj, engine, asks>>
  BY <1>2 DEF PersistUser, EngineStep, Fail, Serve, Unread, Answer, Cut, Emit, ShortCircuit, EmitShort, Active
<1>3. ASSUME NEW q \in Engines, JobTake(q) \/ JobStart(q) \/ GateSignal(q) \/ JobDone(q) \/ JobPreempted(q)
      PROVE UNCHANGED turnVars
  BY <1>3 DEF JobTake, JobStart, GateSignal, JobDone, JobPreempted
<1>4. ASSUME Expire \/ Delete \/ UNCHANGED vars PROVE UNCHANGED turnVars
  BY <1>4 DEF Expire, Delete, vars
<1> QED BY <1>1, <1>2, <1>3, <1>4 DEF Next

(***************************************************************************)
(* The initial state.                                                      *)
(***************************************************************************)
LEMMA TypeInit == Init => TypeInv
<1> SUFFICES ASSUME Init PROVE TypeInv
  OBVIOUS
<1> USE KeepAssumption, BoundsAssumption, NoneAssumption
<1>1. SessionTypes
  BY DEF Init, SessionTypes, Objects, Messages, Files
<1>2. LeaseTypes /\ TurnTypes
  BY DEF Init, LeaseTypes, TurnTypes, Places
<1>5. FaultTypes
  BY DEF Init, FaultTypes
<1>6. FlagTypes
  BY Zenon DEF Init, FlagTypes
<1>3. JobTypes
  BY DEF Init, JobTypes
<1>4. Counted /\ Begun /\ Untouched
  BY DEF Init, Counted, Begun, Untouched, Objects
<1> QED BY <1>1, <1>2, <1>3, <1>4, <1>5, <1>6 DEF TypeInv, TypeOK

(***************************************************************************)
(* There is always an object left to make, and who has begun has one.      *)
(***************************************************************************)
LEMMA ObjectLeft ==
  ASSUME TypeInv
  PROVE  /\ made \in Nat /\ made + 1 # None
         /\ current = None \/ restarts < MaxRestarts => made + 1 \in Objects
         /\ current # None => current \in Objects /\ current \in 1 .. made
<1>1. made \in Nat /\ deletes \in 0 .. MaxDeletes /\ restarts \in 0 .. MaxRestarts
  BY DEF TypeInv, TypeOK, SessionTypes, FaultTypes, Objects
<1>2. current # None => current \in Objects /\ current <= made
  BY DEF TypeInv, TypeOK, SessionTypes, Counted
<1>3. made <= deletes + restarts + (IF current = None THEN 0 ELSE 1)
  BY DEF TypeInv, Counted
<1>4. current = None \/ restarts < MaxRestarts => made + 1 \in Objects
  BY <1>1, <1>3, BoundsAssumption DEF Objects
<1> QED BY <1>1, <1>2, <1>4, NoneAssumption DEF Objects

LEMMA ObjectOf ==
  ASSUME TypeInv, NEW t \in Turns, pc[t] # "new"
  PROVE  obj[t] \in Objects /\ obj[t] # None /\ obj[t] <= made
  BY DEF TypeInv, TypeOK, TurnTypes, Begun

LEMMA RunningJob ==
  ASSUME TypeInv, NEW q \in slot
  PROVE  q \in Engines /\ running[q] \in Turns /\ pc[running[q]] # "new"
  BY DEF TypeInv, TypeOK, JobTypes, Begun

(***************************************************************************)
(* What a compaction keeps of a history is a history.                      *)
(***************************************************************************)
LEMMA KeptType ==
  ASSUME NEW s \in Seq(Messages), NEW n \in Nat
  PROVE  Kept(s, n) \in Seq(Messages)
<1>1. ASSUME NEW u \in Seq(Messages) PROVE FromUser(u) \in Seq(Messages)
  <2> DEFINE firsts == {i \in 1 .. Len(u) : u[i][1] = "user" /\ \A j \in 1 .. i - 1 : u[j][1] # "user"}
  <2>1. CASE firsts = {}
    BY <2>1 DEF FromUser
  <2>2. CASE firsts # {}
    <3>1. (CHOOSE i \in firsts : TRUE) \in firsts
      BY <2>2
    <3>2. PICK k \in 1 .. Len(u) : k = CHOOSE i \in firsts : TRUE
      BY <3>1
    <3>3. SubSeq(u, k, Len(u)) \in Seq(Messages)
      BY SubSeqProperties
    <3> QED BY <2>2, <3>2, <3>3 DEF FromUser
  <2> QED BY <2>1, <2>2
<1>2. SubSeq(s, n + 1, Len(s)) \in Seq(Messages)
  <2>1. \A i \in n + 1 .. Len(s) : s[i] \in Messages
    OBVIOUS
  <2> QED BY <2>1, SubSeqProperties
<1> QED BY <1>1, <1>2 DEF Kept

(***************************************************************************)
(* The session: its objects, their messages and the file.                  *)
(***************************************************************************)
LEMMA SessionStep == TypeInv /\ [Next]_vars => SessionTypes'
<1> SUFFICES ASSUME TypeInv, [Next]_vars PROVE SessionTypes'
  OBVIOUS
<1> USE DEF SessionTypes, Files
<1>0. SessionTypes
  BY DEF TypeInv, TypeOK
<1>1. CASE UNCHANGED sessionVars
  BY <1>0, <1>1 DEF sessionVars, fileVars
<1>2. ASSUME NEW t \in Turns, NEW q \in Engines, OpenTurn(t, q) PROVE SessionTypes'
  <2>1. CASE current # None
    BY <1>0, <1>2, <2>1 DEF OpenTurn, GetOrCreate, sessionVars, fileVars
  <2>2. CASE current = None
    <3>1. made + 1 \in Objects
      BY <2>2, ObjectLeft
    <3>2. UNCHANGED <<msgs, covered, written>> /\ Save(made + 1) /\ made' = made + 1 /\ current' = made + 1
      BY <1>2, <2>2 DEF OpenTurn, GetOrCreate
    <3>3. disk' \in Files \cup {None} /\ filed' \subseteq Messages
      BY <1>0, <3>1, <3>2, FileTyped
    <3> QED BY <1>0, <3>1, <3>2, <3>3
  <2> QED BY <2>1, <2>2
<1>3. ASSUME NEW t \in Turns, Write(t) PROVE SessionTypes'
  <2>1. obj[t] \in Objects
    BY <1>3, ObjectOf DEF Write
  <2>2. PICK role \in {"user", "assistant"} : Add(obj[t], role, t)
    BY <1>3 DEF Write
  <2>3. <<role, t>> \in Messages
    BY DEF Messages
  <2>4. Append(msgs[obj[t]], <<role, t>>) \in Seq(Messages)
    BY <1>0, <2>1, <2>3, AppendProperties
  <2>5. msgs' \in [Objects -> Seq(Messages)] /\ written' \in [Objects -> SUBSET Messages]
    BY <1>0, <2>1, <2>2, <2>3, <2>4 DEF Add
  <2>6. covered' = covered /\ current' = current /\ made' = made
    BY <2>2 DEF Add
  <2>7. disk' \in Files \cup {None} /\ filed' \subseteq Messages
    BY <1>0, <1>3, <2>1, <2>5, <2>6, FileTyped DEF Write
  <2> QED BY <1>0, <2>5, <2>6, <2>7
<1>4. ASSUME NEW q \in slot, Apply(running[q]) PROVE SessionTypes'
  <2> DEFINE t == running[q]
  <2>1. t \in Turns /\ obj[t] \in Objects
    BY RunningJob, ObjectOf
  <2>2. snap[t] \in Nat /\ seen[t] \in SUBSET Messages
    BY <2>1 DEF TypeInv, TypeOK, JobTypes
  <2>3. Kept(msgs[obj[t]], snap[t]) \in Seq(Messages)
    BY <1>0, <2>1, <2>2, KeptType
  <2>4. /\ msgs' \in [Objects -> Seq(Messages)] /\ covered' \in [Objects -> SUBSET Messages]
        /\ UNCHANGED <<written, current, made>>
    BY <1>0, <1>4, <2>1, <2>2, <2>3 DEF Apply
  <2>5. Save(obj[t]) \/ UNCHANGED fileVars
    BY <1>4 DEF Apply, SaveIfLive
  <2>6. disk' \in Files \cup {None} /\ filed' \subseteq Messages
    BY <1>0, <2>1, <2>4, <2>5, FileTyped DEF fileVars
  <2> QED BY <1>0, <2>4, <2>6
<1>5. CASE Delete
  <2>1. Unlink /\ current' = None /\ UNCHANGED <<made, msgs, covered, written>>
    BY <1>5 DEF Delete
  <2> QED BY <1>0, <2>1, FileWrites
<1>6. CASE Restart
  <2>1. CASE disk = None
    BY <1>0, <1>6, <2>1 DEF Restart
  <2>2. CASE disk # None
    <3>1. made + 1 \in Objects
      BY <1>6, ObjectLeft DEF Restart
    <3>2. disk.msgs \in Seq(Messages) /\ disk.covered \subseteq Messages
      BY <1>0, <2>2
    <3>3. written' \in [Objects -> SUBSET Messages]
      BY <1>0, <1>6, <2>2, <3>1 DEF Restart
    <3> QED BY <1>0, <1>6, <2>2, <3>1, <3>2, <3>3 DEF Restart
  <2> QED BY <2>1, <2>2
<1> QED BY <1>1, <1>2, <1>3, <1>4, <1>5, <1>6, SessionChanges DEF Open

(***************************************************************************)
(* The lease: who gives it, who takes it back.                             *)
(***************************************************************************)
LEMMA LeaseChanges ==
  ASSUME [Next]_vars
  PROVE  \/ UNCHANGED <<lease, expired, overtaken>>
         \/ \E t \in Turns, q \in Engines : \E force \in BOOLEAN : SessionGranted(t, q, force)
         \/ \E t \in Turns : t \in Active /\ Release(t) /\ UNCHANGED current
                             /\ pc' \in {[pc EXCEPT ![t] = "done"], [pc EXCEPT ![t] = "refused"]}
         \/ Expire
<1>1. ASSUME NEW t \in Turns, NEW q \in Engines, SessionRefused(t, q)
      PROVE UNCHANGED <<lease, expired, overtaken>>
  BY <1>1 DEF SessionRefused
<1>2. ASSUME NEW t \in Turns, PersistUser(t) \/ Serve(t) \/ Unread(t) \/ Answer(t) \/ ShortCircuit(t)
      PROVE UNCHANGED <<lease, expired, overtaken>>
  BY <1>2 DEF PersistUser, Serve, Unread, Answer, ShortCircuit, leaseVars
<1>3. ASSUME NEW t \in Turns, EngineStep(t) \/ Fail(t) \/ Cut(t) \/ Emit(t) \/ EmitShort(t)
      PROVE \/ UNCHANGED <<lease, expired, overtaken>>
            \/ /\ t \in Active /\ Release(t) /\ UNCHANGED current
               /\ pc' \in {[pc EXCEPT ![t] = "done"], [pc EXCEPT ![t] = "refused"]}
  BY <1>3 DEF EngineStep, Fail, Cut, Emit, EmitShort, Active, Add, sessionVars
<1>4. ASSUME NEW q \in Engines, JobTake(q) \/ JobStart(q) \/ GateSignal(q) \/ JobDone(q) \/ JobPreempted(q)
      PROVE UNCHANGED <<lease, expired, overtaken>>
  BY <1>4 DEF JobTake, JobStart, GateSignal, JobDone, JobPreempted, leaseVars
<1>5. ASSUME Delete \/ Restart \/ UNCHANGED vars PROVE UNCHANGED <<lease, expired, overtaken>>
  BY <1>5 DEF Delete, Restart, vars, leaseVars
<1> QED BY <1>1, <1>2, <1>3, <1>4, <1>5 DEF Next

LEMMA OpenedObject ==
  ASSUME TypeInv
  PROVE  Opened \in Objects /\ Opened # None
  BY ObjectLeft DEF Opened

LEMMA ConsentType == TypeInv /\ [Next]_vars => consent' \subseteq Objects
<1> SUFFICES ASSUME TypeInv, [Next]_vars PROVE consent' \subseteq Objects
  OBVIOUS
<1>0. consent \subseteq Objects
  BY DEF TypeInv, TypeOK, LeaseTypes
<1>1. ASSUME NEW t \in Turns, NEW q \in Engines, OpenTurn(t, q) PROVE consent' \subseteq Objects
  BY <1>0, <1>1, OpenedObject DEF OpenTurn, ConsentAfter
<1>2. ASSUME NEW t \in Turns, EngineStep(t) PROVE consent' \subseteq Objects
  <2>1. obj[t] \in Objects
    BY <1>2, ObjectOf DEF EngineStep
  <2> QED BY <1>0, <1>2, <2>1 DEF EngineStep, ConsentAfter
<1>3. \/ UNCHANGED consent
      \/ \E t \in Turns, q \in Engines : OpenTurn(t, q)
      \/ \E t \in Turns : EngineStep(t)
  <2>1. ASSUME NEW t \in Turns, NEW q \in Engines,
               SessionRefused(t, q) \/ \E force \in BOOLEAN : SessionGranted(t, q, force)
        PROVE OpenTurn(t, q)
    BY <2>1 DEF SessionRefused, SessionGranted
  <2>2. ASSUME NEW t \in Turns,
               \/ PersistUser(t) \/ Fail(t) \/ Serve(t) \/ Unread(t) \/ Answer(t) \/ Cut(t)
               \/ Emit(t) \/ ShortCircuit(t) \/ EmitShort(t)
        PROVE UNCHANGED consent
    BY <2>2 DEF PersistUser, Fail, Serve, Unread, Answer, Cut, Emit, ShortCircuit, EmitShort, leaseVars
  <2>3. ASSUME NEW q \in Engines, JobTake(q) \/ JobStart(q) \/ GateSignal(q) \/ JobDone(q) \/ JobPreempted(q)
        PROVE UNCHANGED consent
    BY <2>3 DEF JobTake, JobStart, GateSignal, JobDone, JobPreempted, leaseVars
  <2>4. ASSUME Expire \/ Delete \/ Restart \/ UNCHANGED vars PROVE UNCHANGED consent
    BY <2>4 DEF Expire, Delete, Restart, vars, leaseVars
  <2> QED BY <2>1, <2>2, <2>3, <2>4 DEF Next
<1> QED BY <1>0, <1>1, <1>2, <1>3

LEMMA LeaseStep == TypeInv /\ [Next]_vars => LeaseTypes'
<1> SUFFICES ASSUME TypeInv, [Next]_vars PROVE LeaseTypes'
  OBVIOUS
<1> USE DEF LeaseTypes
<1>0. LeaseTypes /\ consent' \subseteq Objects
  BY ConsentType DEF TypeInv, TypeOK
<1>1. CASE UNCHANGED <<lease, expired, overtaken>>
  BY <1>0, <1>1
<1>2. ASSUME NEW t \in Turns, NEW q \in Engines, NEW force \in BOOLEAN, SessionGranted(t, q, force)
      PROVE LeaseTypes'
  BY <1>0, <1>2 DEF SessionGranted, Active
<1>3. ASSUME NEW t \in Turns, Release(t) PROVE LeaseTypes'
  BY <1>0, <1>3 DEF Release
<1>4. CASE Expire
  <2>1. current \in Objects
    BY <1>4, ObjectLeft DEF Expire
  <2> QED BY <1>0, <1>4, <2>1 DEF Expire
<1> QED BY <1>1, <1>2, <1>3, <1>4, LeaseChanges

(***************************************************************************)
(* The turns.                                                              *)
(***************************************************************************)
LEMMA TurnStep == TypeInv /\ [Next]_vars => TurnTypes'
<1> SUFFICES ASSUME TypeInv, [Next]_vars PROVE TurnTypes'
  OBVIOUS
<1> USE DEF TurnTypes, Places
<1>0. TurnTypes
  BY DEF TypeInv, TypeOK
<1>1. CASE UNCHANGED turnVars
  BY <1>0, <1>1 DEF turnVars
<1>2. ASSUME NEW t \in Turns, NEW q \in Engines, OpenTurn(t, q),
             NEW at \in {"held", "done"}, pc' = [pc EXCEPT ![t] = at]
      PROVE TurnTypes'
  BY <1>0, <1>2, OpenedObject DEF OpenTurn
<1>3. ASSUME NEW t \in Turns, NEW at \in {"asked", "ready", "serving", "answered", "told", "refused", "unread", "done"},
             pc' = [pc EXCEPT ![t] = at], UNCHANGED <<obj, engine, asks>>
      PROVE TurnTypes'
  BY <1>0, <1>3
<1>4. CASE Restart
  BY <1>0, <1>4 DEF Restart
<1> QED BY <1>1, <1>2, <1>3, <1>4, TurnChanges

(***************************************************************************)
(* The compactions.                                                        *)
(***************************************************************************)
LEMMA SignalledTurns == ASSUME JobTypes PROVE Signalled \subseteq Turns
  BY DEF JobTypes, Signalled

LEMMA SeenType ==
  ASSUME TypeInv, NEW o \in Objects, Len(msgs[o]) > Keep
  PROVE  /\ Len(msgs[o]) - Keep \in Nat
         /\ covered[o] \cup Elems(SubSeq(msgs[o], 1, Len(msgs[o]) - Keep)) \subseteq Messages
<1>1. msgs[o] \in Seq(Messages) /\ covered[o] \subseteq Messages
  BY DEF TypeInv, TypeOK, SessionTypes
<1>2. Len(msgs[o]) \in Nat /\ Keep \in Nat
  BY <1>1, LenProperties, KeepAssumption
<1>3. Len(msgs[o]) - Keep \in 1 .. Len(msgs[o])
  BY <1>2
<1>4. SubSeq(msgs[o], 1, Len(msgs[o]) - Keep) \in Seq(Messages)
  <2>1. \A i \in 1 .. Len(msgs[o]) - Keep : msgs[o][i] \in Messages
    BY <1>1, <1>2, <1>3
  <2> QED BY <1>2, <2>1, SubSeqProperties
<1>5. Elems(SubSeq(msgs[o], 1, Len(msgs[o]) - Keep)) \subseteq Messages
  BY <1>4 DEF Elems
<1> QED BY <1>1, <1>3, <1>5

LEMMA JobStep == TypeInv /\ [Next]_vars => JobTypes'
<1> SUFFICES ASSUME TypeInv, [Next]_vars PROVE JobTypes'
  OBVIOUS
<1> USE KeepAssumption, NoneAssumption DEF JobTypes
<1>0. JobTypes
  BY DEF TypeInv, TypeOK
<1>1. ASSUME UNCHANGED jobVars PROVE JobTypes'
  BY <1>0, <1>1 DEF jobVars
<1>2. ASSUME NEW t \in Turns, NEW q \in Engines, NEW force \in BOOLEAN, SessionGranted(t, q, force)
      PROVE JobTypes'
  BY <1>0, <1>2, SignalledTurns DEF SessionGranted
<1>3. ASSUME NEW t \in Turns, Serve(t) PROVE JobTypes'
  <2>1. engine[t] \in slot => running[engine[t]] \in Turns
    BY RunningJob
  <2> QED BY <1>0, <1>3, <2>1 DEF Serve
<1>4. ASSUME NEW t \in Turns, Emit(t) PROVE JobTypes'
  BY <1>0, <1>4 DEF Emit
<1>5. ASSUME NEW q \in Engines, JobTake(q) PROVE JobTypes'
  BY <1>0, <1>5 DEF JobTake
<1>6. ASSUME NEW q \in Engines, JobStart(q) PROVE JobTypes'
  <2> DEFINE t == running[q]
             o == obj[t]
             old == Len(msgs[o]) - Keep
  <2>1. t \in Turns /\ pc[t] # "new"
    BY <1>0, <1>6 DEF JobStart, TypeInv, Begun
  <2>2. o \in Objects
    BY <2>1, ObjectOf
  <2>3. UNCHANGED <<waiting, running, attempts>> /\ slot' = slot \cup {q}
    BY <1>6 DEF JobStart
  <2>4. cancelled' \subseteq Turns
    BY <1>0, <1>6 DEF JobStart
  <2>5. snap' \in [Turns -> Nat] /\ seen' \in [Turns -> SUBSET Messages]
    <3>1. CASE snap' = [snap EXCEPT ![t] = 0] /\ UNCHANGED seen
      BY <1>0, <3>1
    <3>2. CASE /\ Len(msgs[o]) > Keep
               /\ snap' = [snap EXCEPT ![t] = old]
               /\ seen' = [seen EXCEPT ![t] = covered[o] \cup Elems(SubSeq(msgs[o], 1, old))]
      <4>1. old \in Nat /\ covered[o] \cup Elems(SubSeq(msgs[o], 1, old)) \subseteq Messages
        BY <2>2, <3>2, SeenType
      <4> QED BY <1>0, <3>2, <4>1
    <3> QED BY <1>6, <3>1, <3>2 DEF JobStart
  <2> QED BY <1>0, <1>6, <2>3, <2>4, <2>5 DEF JobStart
<1>7. ASSUME NEW q \in Engines, GateSignal(q) PROVE JobTypes'
  BY <1>0, <1>7, RunningJob DEF GateSignal
<1>8. ASSUME NEW q \in Engines, JobDone(q) PROVE JobTypes'
  BY <1>0, <1>8 DEF JobDone, JobFree
<1>9. ASSUME NEW q \in Engines, JobPreempted(q) PROVE JobTypes'
  <2>1. running[q] \in Turns
    BY <1>9, RunningJob DEF JobPreempted
  <2>2. running' \in [Engines -> Turns \cup {None}] /\ slot' \subseteq {p \in Engines : running'[p] # None}
        /\ snap' \in [Turns -> Nat] /\ seen' \in [Turns -> SUBSET Messages]
    BY <1>0, <1>9 DEF JobPreempted, JobFree
  <2>3. waiting' \in Turns \cup {None} /\ attempts' \in [Turns -> 0 .. MaxAttempts - 1] /\ cancelled' = cancelled
    BY <1>0, <1>9, <2>1 DEF JobPreempted
  <2> QED BY <1>0, <2>2, <2>3
<1>10. ASSUME Restart PROVE JobTypes'
  BY <1>0, <1>10 DEF Restart
<1>11. ASSUME NEW t \in Turns,
              \/ \E q \in Engines : SessionRefused(t, q)
              \/ PersistUser(t) \/ EngineStep(t) \/ Fail(t) \/ Unread(t) \/ Answer(t) \/ Cut(t) \/ ShortCircuit(t) \/ EmitShort(t)
       PROVE UNCHANGED jobVars
  BY <1>11 DEF SessionRefused, PersistUser, EngineStep, Fail, Unread, Answer, Cut, ShortCircuit, EmitShort
<1>12. ASSUME Expire \/ Delete \/ UNCHANGED vars PROVE UNCHANGED jobVars
  BY <1>12 DEF Expire, Delete, vars
<1> QED BY <1>1, <1>2, <1>3, <1>4, <1>5, <1>6, <1>7, <1>8, <1>9, <1>10, <1>11, <1>12 DEF Next

(***************************************************************************)
(* The bounded faults and the flags.                                       *)
(***************************************************************************)
LEMMA FaultChanges ==
  ASSUME [Next]_vars
  PROVE  UNCHANGED <<deletes, restarts>> \/ Delete \/ Restart
  BY DEF Next, SessionRefused, SessionGranted, PersistUser, EngineStep, Fail, Serve, Unread, Answer, Cut, Emit,
         ShortCircuit, EmitShort, JobTake, JobStart, GateSignal, JobDone, JobPreempted, Expire, vars, faultVars

LEMMA FaultStep == TypeInv /\ [Next]_vars => FaultTypes'
<1> SUFFICES ASSUME TypeInv, [Next]_vars PROVE FaultTypes'
  OBVIOUS
<1> USE BoundsAssumption DEF FaultTypes
<1>0. FaultTypes
  BY DEF TypeInv, TypeOK
<1>1. CASE UNCHANGED <<deletes, restarts>>
  BY <1>0, <1>1
<1>2. CASE Delete
  BY <1>0, <1>2 DEF Delete
<1>3. CASE Restart
  BY <1>0, <1>3 DEF Restart
<1> QED BY <1>1, <1>2, <1>3, FaultChanges

LEMMA FlagStep == TypeInv /\ [Next]_vars => FlagTypes'
<1> SUFFICES ASSUME TypeInv, [Next]_vars PROVE FlagTypes'
  OBVIOUS
<1>0. overlap \in BOOLEAN /\ deletedUnder \in BOOLEAN
  BY Zenon DEF TypeInv, TypeOK, FlagTypes
<1>1. \/ overlap' = overlap
      \/ overlap' = (overlap \/ slot # {})
  BY Zenon DEF Next, SessionRefused, SessionGranted, PersistUser, EngineStep, Fail, Serve, Unread, Answer, Cut, Emit,
         ShortCircuit, EmitShort, JobTake, JobStart, GateSignal, JobDone, JobPreempted, Expire, Delete, Restart, vars, jobVars
<1>2. \/ deletedUnder' = deletedUnder
      \/ deletedUnder' = (deletedUnder \/ \E t \in Active : obj[t] = current)
  BY Zenon DEF Next, SessionRefused, SessionGranted, PersistUser, EngineStep, Fail, Serve, Unread, Answer, Cut, Emit,
         ShortCircuit, EmitShort, JobTake, JobStart, GateSignal, JobDone, JobPreempted, Expire, Delete, Restart, vars, faultVars
<1>3. behind' \in BOOLEAN
  <2>0. behind \in BOOLEAN
    BY DEF TypeInv, TypeOK, FlagTypes
  <2>1. ASSUME NEW t \in Turns, NEW q \in Engines, Open(t, q) PROVE UNCHANGED behind \/ Save(made + 1)
    BY <2>1 DEF Open, OpenTurn, GetOrCreate, sessionVars, fileVars
  <2>2. ASSUME NEW q \in slot, Apply(running[q]) PROVE UNCHANGED behind \/ Save(obj[running[q]])
    BY <2>2 DEF Apply, SaveIfLive, fileVars
  <2>3. UNCHANGED behind \/ Unlink \/ (\E o : Save(o)) \/ behind' = FALSE
    BY <2>1, <2>2, SessionChanges DEF sessionVars, fileVars, Write, Delete, Restart
  <2> QED BY <2>0, <2>3, FileWrites
<1> QED BY <1>0, <1>1, <1>2, <1>3, Zenon DEF FlagTypes

(***************************************************************************)
(* Objects are made one at a time, and only for a deleted conversation or  *)
(* at a restart.                                                           *)
(***************************************************************************)
LEMMA MadeChanges ==
  ASSUME TypeInv, [Next]_vars
  PROVE  \/ UNCHANGED <<made, current, deletes, restarts>>
         \/ /\ current = None /\ made' = made + 1 /\ current' = made + 1
            /\ UNCHANGED <<deletes, restarts>>
         \/ Delete
         \/ Restart
<1>1. ASSUME UNCHANGED sessionVars PROVE UNCHANGED <<made, current>>
  BY <1>1 DEF sessionVars
<1>2. ASSUME NEW t \in Turns, NEW q \in Engines, OpenTurn(t, q)
      PROVE \/ UNCHANGED <<made, current>>
            \/ current = None /\ made' = made + 1 /\ current' = made + 1
  BY <1>2 DEF OpenTurn, GetOrCreate, sessionVars
<1>3. ASSUME NEW t \in Turns, Write(t) PROVE UNCHANGED <<made, current>>
  BY <1>3 DEF Write, Add
<1>4. ASSUME NEW q \in slot, Apply(running[q]) PROVE UNCHANGED <<made, current>>
  BY <1>4 DEF Apply
<1> QED BY <1>1, <1>2, <1>3, <1>4, SessionChanges, FaultChanges DEF Open

LEMMA CountedStep == TypeInv /\ [Next]_vars => Counted' /\ made <= made'
<1> SUFFICES ASSUME TypeInv, [Next]_vars PROVE Counted' /\ made <= made'
  OBVIOUS
<1>0. /\ made \in Nat /\ deletes \in Nat /\ restarts \in Nat /\ Counted
      /\ made + 1 # None /\ (current # None => current \in 1 .. made)
  BY ObjectLeft DEF TypeInv, TypeOK, FaultTypes
<1> USE DEF Counted
<1>1. CASE UNCHANGED <<made, current, deletes, restarts>>
  BY <1>0, <1>1
<1>2. CASE /\ current = None /\ made' = made + 1 /\ current' = made + 1
           /\ UNCHANGED <<deletes, restarts>>
  BY <1>0, <1>2
<1>3. CASE Delete
  BY <1>0, <1>3 DEF Delete
<1>4. CASE Restart
  <2>1. CASE disk = None
    BY <1>0, <1>4, <2>1 DEF Restart
  <2>2. CASE disk # None
    BY <1>0, <1>4, <2>2 DEF Restart
  <2> QED BY <2>1, <2>2
<1> QED BY <1>1, <1>2, <1>3, <1>4, MadeChanges

(***************************************************************************)
(* Who has begun has an object, whatever becomes of the turn, and so has   *)
(* the compaction it left behind.                                          *)
(***************************************************************************)
LEMMA QueueChanges ==
  ASSUME TypeInv, [Next]_vars
  PROVE  /\ waiting' # None => \/ waiting' = waiting
                               \/ waiting' \in Turns /\ pc[waiting'] # "new"
         /\ \A q \in Engines : running'[q] # None => \/ running'[q] = running[q]
                                                     \/ running'[q] = waiting
<1>0. running \in [Engines -> Turns \cup {None}]
  BY DEF TypeInv, TypeOK, JobTypes
<1> DEFINE Waits == waiting' # None => \/ waiting' = waiting
                                       \/ waiting' \in Turns /\ pc[waiting'] # "new"
           Runs == \A q \in Engines : running'[q] # None => \/ running'[q] = running[q]
                                                            \/ running'[q] = waiting
<1>1. ASSUME UNCHANGED <<waiting, running>> PROVE Waits /\ Runs
  BY <1>1
<1>2. ASSUME NEW t \in Turns, Emit(t) PROVE Waits /\ Runs
  BY <1>2 DEF Emit
<1>3. ASSUME NEW p \in Engines, JobTake(p) PROVE Waits /\ Runs
  BY <1>0, <1>3 DEF JobTake
<1>4. ASSUME NEW p \in Engines, JobDone(p) \/ JobPreempted(p) PROVE Waits /\ Runs
  <2>1. waiting' = waiting \/ waiting' = running[p]
    BY <1>4 DEF JobDone, JobPreempted
  <2>2. running[p] \in Turns /\ pc[running[p]] # "new"
    BY <1>4, RunningJob DEF JobDone, JobPreempted
  <2>3. \A q \in Engines : running'[q] \in {running[q], None}
    BY <1>0, <1>4 DEF JobDone, JobPreempted, JobFree
  <2> QED BY <2>1, <2>2, <2>3
<1>5. ASSUME Restart PROVE Waits /\ Runs
  BY <1>5 DEF Restart
<1>6. \/ UNCHANGED <<waiting, running>>
      \/ \E t \in Turns : Emit(t)
      \/ \E p \in Engines : JobTake(p) \/ JobDone(p) \/ JobPreempted(p)
      \/ Restart
  BY DEF Next, SessionRefused, SessionGranted, PersistUser, EngineStep, Fail, Serve, Unread, Answer, Cut,
         ShortCircuit, EmitShort, JobStart, GateSignal, Expire, Delete, vars, jobVars
<1> HIDE DEF Waits, Runs
<1>7. Waits /\ Runs
  BY <1>1, <1>2, <1>3, <1>4, <1>5, <1>6
<1> QED BY <1>7 DEF Waits, Runs

LEMMA NeverNewAgain ==
  ASSUME TypeInv, [Next]_vars, NEW t \in Turns, pc[t] # "new"
  PROVE  pc'[t] # "new"
  BY TurnChanges DEF TypeInv, TypeOK, TurnTypes, Places, OpenTurn, turnVars, Restart

LEMMA BegunStep == TypeInv /\ [Next]_vars => Begun'
<1> SUFFICES ASSUME TypeInv, [Next]_vars PROVE Begun'
  OBVIOUS
<1>0. /\ Begun /\ TurnTypes /\ JobTypes /\ made \in Nat /\ made' \in Nat /\ made <= made'
      /\ obj \in [Turns -> Objects \cup {None}]
  BY CountedStep, SessionStep DEF TypeInv, TypeOK, SessionTypes, TurnTypes, Objects
<1>1. \A t \in Turns : /\ obj'[t] # None => obj'[t] <= made'
                       /\ pc'[t] # "new" => obj'[t] # None
  <2>0. \A t \in Turns : /\ obj[t] # None => obj[t] \in Nat /\ obj[t] <= made'
                         /\ pc[t] # "new" => obj[t] # None
    BY <1>0 DEF Begun, Objects
  <2>1. CASE UNCHANGED turnVars
    BY <2>0, <2>1 DEF turnVars
  <2>2. ASSUME NEW t \in Turns, NEW q \in Engines, OpenTurn(t, q),
               NEW at \in {"held", "done"}, pc' = [pc EXCEPT ![t] = at]
        PROVE <1>1
    <3>1. Opened # None /\ Opened <= made'
      BY <2>2, <1>0, ObjectLeft DEF OpenTurn, GetOrCreate, Opened, sessionVars
    <3>2. obj' = [obj EXCEPT ![t] = Opened]
      BY <2>2 DEF OpenTurn
    <3> QED BY <1>0, <2>0, <2>2, <3>1, <3>2 DEF TurnTypes
  <2>3. ASSUME NEW t \in Turns, NEW at \in {"asked", "ready", "serving", "answered", "told", "refused", "unread", "done"},
               pc[t] # "new", pc' = [pc EXCEPT ![t] = at], UNCHANGED <<obj, engine, asks>>
        PROVE <1>1
    BY <1>0, <2>0, <2>3 DEF TurnTypes
  <2>4. CASE Restart
    BY <1>0, <2>0, <2>4 DEF TurnTypes, Restart
  <2> QED BY <2>1, <2>2, <2>3, <2>4, TurnChanges
<1>2. waiting' # None => pc'[waiting'] # "new"
  BY <1>0, NeverNewAgain, QueueChanges DEF Begun, JobTypes
<1>3. ASSUME NEW q \in Engines, running'[q] # None PROVE pc'[running'[q]] # "new"
  <2>1. CASE running'[q] = running[q]
    BY <1>0, <1>3, <2>1, NeverNewAgain DEF Begun, JobTypes
  <2>2. CASE running'[q] = waiting
    BY <1>0, <1>3, <2>2, NeverNewAgain DEF Begun, JobTypes
  <2> QED BY <1>3, <2>1, <2>2, QueueChanges
<1> QED BY <1>1, <1>2, <1>3 DEF Begun

(***************************************************************************)
(* An object not made yet is as it was at the start.                       *)
(***************************************************************************)
LEMMA LeaseTouches ==
  ASSUME TypeInv, [Next]_vars, NEW o \in Objects, lease'[o] # lease[o]
  PROVE  o <= made'
<1>0. made \in Nat /\ made' \in Nat /\ made <= made' /\ lease \in [Objects -> Turns \cup {None}]
  BY CountedStep, SessionStep DEF TypeInv, TypeOK, SessionTypes, LeaseTypes, Objects
<1>1. ASSUME NEW t \in Turns, NEW q \in Engines, NEW force \in BOOLEAN, SessionGranted(t, q, force)
      PROVE o <= made'
  <2>1. o = Opened
    BY <1>0, <1>1 DEF SessionGranted
  <2> QED BY <1>0, <1>1, <2>1, ObjectLeft DEF SessionGranted, OpenTurn, GetOrCreate, Opened, sessionVars
<1>2. ASSUME NEW t \in Turns, Release(t) PROVE o <= made'
  <2>1. current # None /\ o = current
    BY <1>0, <1>2 DEF Release
  <2> QED BY <1>0, <2>1, ObjectLeft
<1> QED BY <1>1, <1>2, LeaseChanges DEF Expire

LEMMA MessagesTouch ==
  ASSUME TypeInv, [Next]_vars, NEW o \in Objects, msgs'[o] # msgs[o] \/ covered'[o] # covered[o]
  PROVE  o <= made'
<1>0. made \in Nat /\ made' \in Nat /\ made <= made' /\ SessionTypes
  BY CountedStep, SessionStep DEF TypeInv, TypeOK, SessionTypes, Objects
<1>1. ASSUME NEW t \in Turns, Write(t) PROVE o <= made'
  <2>1. obj[t] \in Objects /\ obj[t] <= made
    BY <1>1, ObjectOf DEF Write
  <2>2. o = obj[t]
    BY <1>0, <1>1, <2>1 DEF Write, Add, SessionTypes
  <2> QED BY <1>0, <2>1, <2>2 DEF Objects
<1>2. ASSUME NEW q \in slot, Apply(running[q]) PROVE o <= made'
  <2>1. obj[running[q]] \in Objects /\ obj[running[q]] <= made
    BY RunningJob, ObjectOf
  <2>2. o = obj[running[q]]
    BY <1>0, <1>2, <2>1 DEF Apply, SessionTypes
  <2> QED BY <1>0, <2>1, <2>2 DEF Objects
<1>3. ASSUME Restart PROVE o <= made'
  BY <1>0, <1>3 DEF Restart, SessionTypes
<1>4. ASSUME NEW t \in Turns, NEW q \in Engines, OpenTurn(t, q) PROVE UNCHANGED <<msgs, covered>>
  BY <1>4 DEF OpenTurn, GetOrCreate, sessionVars
<1> QED BY <1>1, <1>2, <1>3, <1>4, SessionChanges DEF sessionVars, Delete, Open

LEMMA UntouchedStep == TypeInv /\ [Next]_vars => Untouched'
<1> SUFFICES ASSUME TypeInv, [Next]_vars, NEW o \in Objects, o > made'
             PROVE  lease'[o] = None /\ msgs'[o] = <<>> /\ covered'[o] = {}
  BY DEF Untouched
<1>1. o \in Nat /\ made \in Nat /\ made' \in Nat /\ made <= made'
  BY CountedStep, SessionStep DEF TypeInv, TypeOK, SessionTypes, Objects
<1>2. o > made /\ ~(o <= made')
  BY <1>1
<1>3. lease[o] = None /\ msgs[o] = <<>> /\ covered[o] = {}
  BY <1>2 DEF TypeInv, Untouched
<1> QED BY <1>2, <1>3, LeaseTouches, MessagesTouch

(***************************************************************************)
(* The conversation's state is well typed, and an object can always be     *)
(* made for a turn that finds none.                                        *)
(***************************************************************************)
LEMMA TypeStep == TypeInv /\ [Next]_vars => TypeInv'
  BY SessionStep, LeaseStep, TurnStep, JobStep, FaultStep, FlagStep, CountedStep, BegunStep, UntouchedStep
  DEF TypeInv, TypeOK

THEOREM TypeCorrect == Spec => []TypeOK
<1>1. TypeInv => TypeOK
  BY DEF TypeInv
<1> QED BY <1>1, TypeInit, TypeStep, PTL DEF Spec

(***************************************************************************)
(* The lease.  Both facts are inductive together with the typing: a lease  *)
(* passes to a turn that begins, and only from a turn that gave it back,   *)
(* was forced out or had let it expire; it is given back by its holder.    *)
(***************************************************************************)
LeaseInv == LeaseEndsWithTurn /\ HolderHolds

LEMMA ActiveHolds ==
  ASSUME TypeInv, NEW t \in Active
  PROVE  t \in Turns /\ pc[t] # "new" /\ obj[t] \in Objects
  BY ObjectOf DEF Active

LEMMA ReleaseKeeps ==
  ASSUME TypeInv, LeaseInv, NEW t \in Active, Release(t), UNCHANGED current,
         pc' \in {[pc EXCEPT ![t] = "done"], [pc EXCEPT ![t] = "refused"]}, UNCHANGED obj
  PROVE  LeaseInv'
<1>0. /\ pc \in [Turns -> Places] /\ lease \in [Objects -> Turns \cup {None}]
      /\ t \in Turns /\ (current # None => current \in Objects)
  BY ObjectLeft DEF TypeInv, TypeOK, TurnTypes, LeaseTypes, Active
<1>1. Active' = Active \ {t} /\ Abandoned' = Abandoned
  BY <1>0 DEF Active, Abandoned
<1>2. ASSUME current # None, lease'[current] # None PROVE lease'[current] \in (Active \cup Abandoned) \ {t}
  BY <1>0, <1>2, NoneAssumption DEF LeaseInv, LeaseEndsWithTurn, Release
<1>3. ASSUME NEW u \in Active \ {t}, u \notin overtaken PROVE lease'[obj[u]] = u
  <2>1. obj[u] \in Objects /\ lease[obj[u]] = u
    BY <1>3, ActiveHolds DEF LeaseInv, HolderHolds
  <2> QED BY <1>0, <1>3, <2>1 DEF Release
<1> QED BY <1>1, <1>2, <1>3 DEF LeaseInv, LeaseEndsWithTurn, HolderHolds, Release

LEMMA GrantKeeps ==
  ASSUME TypeInv, LeaseInv, NEW t \in Turns, NEW q \in Engines, NEW force \in BOOLEAN,
         SessionGranted(t, q, force)
  PROVE  LeaseInv'
<1>0. /\ pc \in [Turns -> Places] /\ lease \in [Objects -> Turns \cup {None}]
      /\ obj \in [Turns -> Objects \cup {None}] /\ Opened \in Objects
  BY OpenedObject DEF TypeInv, TypeOK, TurnTypes, LeaseTypes
<1>1. Active' = Active \cup {t} /\ t \notin Active
  BY <1>0 DEF SessionGranted, OpenTurn, Active
<1>2. current' = Opened /\ lease' = [lease EXCEPT ![Opened] = t] /\ obj' = [obj EXCEPT ![t] = Opened]
  BY DEF SessionGranted, OpenTurn, GetOrCreate, Opened, sessionVars
<1>3. overtaken \subseteq overtaken'
  BY DEF SessionGranted
<1>4. ASSUME NEW u \in Active, u \notin overtaken' PROVE lease'[obj'[u]] = u
  <2>1. obj[u] \in Objects /\ lease[obj[u]] = u /\ u # t /\ u \in Turns
    BY <1>1, <1>3, <1>4, ActiveHolds DEF LeaseInv, HolderHolds
  <2>2. obj[u] # Opened
    <3>1. SUFFICES ASSUME lease[Opened] = u PROVE FALSE
      BY <2>1
    <3>2. force \/ Opened \in expired
      BY <2>1, <3>1, NoneAssumption DEF SessionGranted, LeaseRefuses
    <3> QED BY <1>4, <3>1, <3>2 DEF SessionGranted
  <2> QED BY <1>0, <1>2, <2>1, <2>2
<1>5. lease'[obj'[t]] = t /\ lease'[current'] = t
  BY <1>0, <1>2
<1> QED BY <1>1, <1>4, <1>5 DEF LeaseInv, LeaseEndsWithTurn, HolderHolds

(***************************************************************************)
(* A turn that opens a conversation and is refused, or moves on, leaves    *)
(* the lease and the turns under way as they are.                          *)
(***************************************************************************)
LEMMA RefusalKeeps ==
  ASSUME TypeInv, LeaseInv, NEW t \in Turns, NEW q \in Engines, SessionRefused(t, q)
  PROVE  LeaseInv'
<1>0. /\ pc \in [Turns -> Places] /\ obj \in [Turns -> Objects \cup {None}]
  BY DEF TypeInv, TypeOK, TurnTypes
<1>1. Active' = Active /\ Abandoned' = Abandoned /\ t \notin Active /\ UNCHANGED <<lease, overtaken>>
  BY <1>0 DEF SessionRefused, OpenTurn, Active, Abandoned
<1>2. current' = current \/ lease[current'] = None
  <2>1. current = None => made + 1 \in Objects /\ made + 1 > made
    BY ObjectLeft
  <2> QED BY <2>1 DEF SessionRefused, OpenTurn, GetOrCreate, sessionVars, TypeInv, Untouched
<1>3. \A u \in Active : obj'[u] = obj[u]
  BY <1>0, <1>1 DEF SessionRefused, OpenTurn
<1> QED BY <1>1, <1>2, <1>3 DEF LeaseInv, LeaseEndsWithTurn, HolderHolds

LEMMA LeaseInit == Init => LeaseInv
  BY DEF Init, LeaseInv, LeaseEndsWithTurn, HolderHolds, Active

LEMMA LeaseInvStep == TypeInv /\ LeaseInv /\ [Next]_vars => LeaseInv'
<1> SUFFICES ASSUME TypeInv, LeaseInv, [Next]_vars PROVE LeaseInv'
  OBVIOUS
<1>0. pc \in [Turns -> Places]
  BY DEF TypeInv, TypeOK, TurnTypes
<1>1. ASSUME UNCHANGED <<lease, overtaken, current, obj>>, Active' = Active, Abandoned' = Abandoned PROVE LeaseInv'
  BY <1>1 DEF LeaseInv, LeaseEndsWithTurn, HolderHolds
<1>2. ASSUME NEW t \in Turns, PersistUser(t) \/ Serve(t) \/ Answer(t) \/ ShortCircuit(t) PROVE LeaseInv'
  <2>1. Active' = Active /\ Abandoned' = Abandoned
    BY <1>0, <1>2 DEF PersistUser, Serve, Answer, ShortCircuit, Active, Abandoned
  <2>2. UNCHANGED <<lease, overtaken, current, obj>>
    BY <1>2 DEF PersistUser, Serve, Answer, ShortCircuit, Add, leaseVars, sessionVars
  <2> QED BY <1>1, <2>1, <2>2
<1>9. ASSUME NEW t \in Turns, Unread(t) PROVE LeaseInv'
  <2>1. Active' = Active \ {t} /\ Abandoned' = Abandoned \cup {t}
    BY <1>0, <1>9 DEF Unread, Active, Abandoned
  <2>2. UNCHANGED <<lease, overtaken, current, obj>>
    BY <1>9 DEF Unread, leaseVars, sessionVars
  <2> QED BY <2>1, <2>2 DEF LeaseInv, LeaseEndsWithTurn, HolderHolds
<1>3. ASSUME NEW t \in Turns, EngineStep(t) PROVE LeaseInv'
  <2>1. CASE CloudRefused(t, obj[t])
    BY <1>3, <2>1, ReleaseKeeps DEF EngineStep, Active, sessionVars
  <2>2. CASE ~CloudRefused(t, obj[t])
    <3>1. Active' = Active /\ Abandoned' = Abandoned
      BY <1>0, <1>3, <2>2 DEF EngineStep, Active, Abandoned
    <3>2. UNCHANGED <<lease, overtaken, current, obj>>
      BY <1>3, <2>2 DEF EngineStep, sessionVars
    <3> QED BY <1>1, <3>1, <3>2
  <2> QED BY <2>1, <2>2
<1>4. ASSUME NEW t \in Turns, Fail(t) \/ Cut(t) \/ Emit(t) \/ EmitShort(t) PROVE LeaseInv'
  <2>1. /\ t \in Active /\ Release(t) /\ UNCHANGED <<current, obj>>
        /\ pc' = [pc EXCEPT ![t] = "done"]
    BY <1>4 DEF Fail, Cut, Emit, EmitShort, Active, Add, sessionVars
  <2> QED BY <2>1, ReleaseKeeps
<1>5. ASSUME NEW q \in Engines, JobTake(q) \/ JobStart(q) \/ GateSignal(q) \/ JobDone(q) \/ JobPreempted(q)
      PROVE LeaseInv'
  BY <1>1, <1>5 DEF JobTake, JobStart, GateSignal, JobDone, JobPreempted, Apply, Active, Abandoned,
     sessionVars, leaseVars, turnVars
<1>6. ASSUME Expire \/ UNCHANGED vars PROVE LeaseInv'
  BY <1>1, <1>6 DEF Expire, vars, Active, Abandoned, sessionVars, leaseVars, turnVars
<1>7. CASE Delete
  <2>1. Active' = Active /\ current' = None /\ UNCHANGED <<lease, overtaken, obj>>
    BY <1>7 DEF Delete, Active, leaseVars, turnVars
  <2> QED BY <2>1 DEF LeaseInv, LeaseEndsWithTurn, HolderHolds
<1>8. CASE Restart
  <2>1. Active' = {} /\ UNCHANGED lease
    BY <1>8 DEF Restart, Active, leaseVars
  <2>2. current' # None => current' = made + 1 /\ made + 1 \in Objects /\ made + 1 > made
    BY <1>8, ObjectLeft DEF Restart
  <2>3. current' # None => lease[current'] = None
    BY <2>2 DEF TypeInv, Untouched
  <2> QED BY <2>1, <2>3 DEF LeaseInv, LeaseEndsWithTurn, HolderHolds
<1> QED BY <1>2, <1>3, <1>4, <1>5, <1>6, <1>7, <1>8, <1>9, GrantKeeps, RefusalKeeps DEF Next

(***************************************************************************)
(* A turn that ends leaves the conversation leased to nobody, or to the    *)
(* turn that took it over (core/turn/lease.py, #1105).  Only a body the    *)
(* server never pulls keeps the lease, until it is forced or expires.      *)
(***************************************************************************)
THEOREM LeaseEnds == Spec => []LeaseEndsWithTurn
<1>1. LeaseInv => LeaseEndsWithTurn
  BY DEF LeaseInv
<1> QED BY <1>1, TypeInit, TypeStep, LeaseInit, LeaseInvStep, PTL DEF Spec

(***************************************************************************)
(* Nobody takes, or gives back, the lease of a turn under way that was     *)
(* neither forced out nor let it expire (session_manager.py:733-744).      *)
(***************************************************************************)
THEOREM HolderKeepsLease == Spec => []HolderHolds
<1>1. LeaseInv => HolderHolds
  BY DEF LeaseInv
<1> QED BY <1>1, TypeInit, TypeStep, LeaseInit, LeaseInvStep, PTL DEF Spec

(***************************************************************************)
(* "One live writer per session" (session_manager.py:692): two holders of  *)
(* one object's lease are one turn.                                        *)
(***************************************************************************)
THEOREM OneLiveWriter == Spec => []OneWriter
<1>1. HolderHolds => OneWriter
  BY DEF HolderHolds, OneWriter
<1> QED BY <1>1, HolderKeepsLease, PTL

(***************************************************************************)
(* The file.  Until a conversation is deleted under a turn, the turns      *)
(* under way write the object the manager holds; a compaction writes only  *)
(* that one anyway.  So what a good write leaves on file is what the       *)
(* manager shows, and there is no file of a conversation it has deleted.   *)
(***************************************************************************)
Filed ==
  /\ current = None => disk = None
  /\ current # None => disk = Image(current) /\ filed = written[current]

FileInv ==
  ~deletedUnder => /\ \A t \in Active : obj[t] = current
                   /\ ~behind => Filed

LEMMA UnderChanges ==
  ASSUME [Next]_vars
  PROVE  UNCHANGED deletedUnder \/ Delete
  BY DEF Next, SessionRefused, SessionGranted, PersistUser, EngineStep, Fail, Serve, Unread, Answer, Cut, Emit,
         ShortCircuit, EmitShort, JobTake, JobStart, GateSignal, JobDone, JobPreempted, Expire, Restart,
         vars, faultVars

LEMMA DeletedUnderNobody ==
  ASSUME FlagTypes, Delete, ~deletedUnder'
  PROVE  ~deletedUnder /\ \A t \in Active : obj[t] # current
  BY Zenon DEF FlagTypes, Delete

(***************************************************************************)
(* Who is under way after a step was so before, or has just opened the     *)
(* conversation.                                                           *)
(***************************************************************************)
LEMMA ActiveChanges ==
  ASSUME TypeInv, [Next]_vars, NEW u \in Active'
  PROVE  \/ u \in Active /\ obj'[u] = obj[u]
         \/ obj'[u] = current' /\ current' # None
<1>0. pc \in [Turns -> Places] /\ obj \in [Turns -> Objects \cup {None}] /\ u \in Turns
  BY DEF TypeInv, TypeOK, TurnTypes, Active
<1>1. CASE UNCHANGED turnVars
  BY <1>1 DEF turnVars, Active
<1>2. ASSUME NEW t \in Turns, NEW q \in Engines, OpenTurn(t, q),
             NEW at \in {"held", "done"}, pc' = [pc EXCEPT ![t] = at]
      PROVE \/ u \in Active /\ obj'[u] = obj[u]
            \/ obj'[u] = current' /\ current' # None
  <2>1. current' = Opened /\ Opened # None /\ obj' = [obj EXCEPT ![t] = Opened]
    BY <1>2, OpenedObject DEF OpenTurn, GetOrCreate, Opened, sessionVars
  <2> QED BY <1>0, <1>2, <2>1 DEF Active
<1>3. ASSUME NEW t \in Active, NEW at \in {"asked", "ready", "serving", "answered", "told", "refused", "unread", "done"},
             pc' = [pc EXCEPT ![t] = at], UNCHANGED <<obj, engine, asks>>
      PROVE u \in Active /\ obj'[u] = obj[u]
  BY <1>0, <1>3 DEF Active
<1>4. CASE Restart
  BY <1>0, <1>4 DEF Restart, Active
<1> QED BY <1>1, <1>2, <1>3, <1>4, TurnChanges

LEMMA FileInit == Init => FileInv
  BY DEF Init, FileInv, Filed, Active

\* A write of the manager's own object.
LEMMA WriteFiles ==
  ASSUME NEW o, Save(o), current' = o, o # None
  PROVE  ~behind' => Filed'
  BY FileWrites DEF Filed, Image

LEMMA FileStep == TypeInv /\ FileInv /\ [Next]_vars => FileInv'
<1> SUFFICES ASSUME TypeInv, FileInv, [Next]_vars, ~deletedUnder'
             PROVE  /\ \A t \in Active' : obj'[t] = current'
                    /\ ~behind' => Filed'
  BY DEF FileInv
<1>0. /\ msgs \in [Objects -> Seq(Messages)] /\ covered \in [Objects -> SUBSET Messages]
      /\ written \in [Objects -> SUBSET Messages] /\ disk \in Files \cup {None} /\ None \notin Files
      /\ current # None => current \in Objects
      /\ None \notin Objects
  BY ObjectLeft, NoneAssumption DEF TypeInv, TypeOK, SessionTypes, Objects
<1>u. ~deletedUnder
  <2>1. CASE Delete
    BY <2>1, DeletedUnderNobody DEF TypeInv, TypeOK
  <2> QED BY <2>1, UnderChanges
<1>f. (\A t \in Active : obj[t] = current) /\ (~behind => Filed)
  BY <1>u DEF FileInv
<1>a. ASSUME UNCHANGED current, NEW u \in Active' PROVE obj'[u] = current'
  BY <1>a, <1>f, ActiveChanges
<1>1. ASSUME UNCHANGED sessionVars PROVE /\ \A t \in Active' : obj'[t] = current'
                                         /\ ~behind' => Filed'
  BY <1>1, <1>a, <1>f DEF sessionVars, fileVars, Filed, Image
<1>2. ASSUME NEW t \in Turns, NEW q \in Engines, Open(t, q)
      PROVE  /\ \A u \in Active' : obj'[u] = current'
             /\ ~behind' => Filed'
  <2>1. CASE current # None
    BY <1>1, <1>2, <2>1 DEF Open, OpenTurn, GetOrCreate
  <2>2. CASE current = None
    <3>1. current' = made + 1 /\ Save(made + 1)
      BY <1>2, <2>2 DEF Open, OpenTurn, GetOrCreate
    <3>2. Active = {}
      BY <1>0, <1>f, <2>2, ActiveHolds
    <3>3. made + 1 # None
      BY ObjectLeft
    <3> QED BY <3>1, <3>2, <3>3, WriteFiles, ActiveChanges
  <2> QED BY <2>1, <2>2
<1>3. ASSUME NEW t \in Turns, Write(t)
      PROVE  /\ \A u \in Active' : obj'[u] = current'
             /\ ~behind' => Filed'
  <2>1. t \in Active /\ UNCHANGED current /\ Save(obj[t])
    BY <1>3 DEF Write, Active, Add
  <2>2. obj[t] = current /\ obj[t] # None
    BY <1>0, <1>f, <2>1, ActiveHolds
  <2> QED BY <1>a, <2>1, <2>2, WriteFiles
<1>4. ASSUME NEW q \in slot, Apply(running[q])
      PROVE  /\ \A u \in Active' : obj'[u] = current'
             /\ ~behind' => Filed'
  <2> DEFINE o == obj[running[q]]
  <2>1. o \in Objects /\ UNCHANGED <<current, written>>
    BY <1>4, RunningJob, ObjectOf DEF Apply
  <2>2. CASE current = o
    <3>1. Save(o) /\ o # None
      BY <1>0, <1>4, <2>1, <2>2 DEF Apply, SaveIfLive
    <3> QED BY <1>a, <2>1, <2>2, <3>1, WriteFiles
  <2>3. CASE current # o
    <3>1. UNCHANGED fileVars
      BY <1>4, <2>3 DEF Apply, SaveIfLive
    <3>2. current # None => msgs'[current] = msgs[current] /\ covered'[current] = covered[current]
      BY <1>0, <1>4, <2>1, <2>3 DEF Apply
    <3>3. ~behind' => Filed'
      BY <1>f, <2>1, <3>1, <3>2 DEF Filed, Image, fileVars
    <3> QED BY <1>a, <2>1, <3>3
  <2> QED BY <2>2, <2>3
<1>5. ASSUME Delete
      PROVE  /\ \A u \in Active' : obj'[u] = current'
             /\ ~behind' => Filed'
  <2>1. current' = None /\ Active' = Active /\ Unlink
    BY <1>5 DEF Delete, Active, turnVars
  <2>2. Active = {}
    BY <1>5, <1>f, DeletedUnderNobody DEF TypeInv, TypeOK
  <2> QED BY <2>1, <2>2, FileWrites DEF Filed
<1>6. ASSUME Restart
      PROVE  /\ \A u \in Active' : obj'[u] = current'
             /\ ~behind' => Filed'
  <2>1. Active' = {} /\ UNCHANGED <<disk, filed>>
    BY <1>6 DEF Restart, Active
  <2>2. CASE disk = None
    BY <1>6, <2>1, <2>2 DEF Restart, Filed
  <2>3. CASE disk # None
    <3>1. disk = [msgs |-> disk.msgs, covered |-> disk.covered]
      BY <1>0, <2>3 DEF Files
    <3>2. made + 1 \in Objects /\ made + 1 # None
      BY <1>6, ObjectLeft DEF Restart
    <3>3. /\ msgs'[made + 1] = disk.msgs /\ covered'[made + 1] = disk.covered /\ written'[made + 1] = filed
          /\ current' = made + 1
      BY <1>0, <1>6, <2>3, <3>2 DEF Restart
    <3> QED BY <2>1, <3>1, <3>2, <3>3 DEF Filed, Image
  <2> QED BY <2>2, <2>3
<1> QED BY <1>1, <1>2, <1>3, <1>4, <1>5, <1>6, SessionChanges

(***************************************************************************)
(* Unless the last attempt to write it failed, the file holds what the     *)
(* manager shows, whoever wrote it last (session_manager.py:528-585,       *)
(* 659-671); a conversation deleted under a turn is excepted.              *)
(***************************************************************************)
THEOREM FileAlwaysCurrent == Spec => []FileIsCurrent
<1>1. FileInv => FileIsCurrent
  BY DEF FileInv, FileIsCurrent, Filed
<1> QED BY <1>1, TypeInit, TypeStep, FileInit, FileStep, PTL DEF Spec

(***************************************************************************)
(* A compaction never brings back the file of a deleted conversation       *)
(* (save_session_if_live, session_manager.py:659-671).                     *)
(***************************************************************************)
THEOREM NothingBroughtBack == Spec => JobsBringNothingBack
<1>1. TypeInv /\ [Next]_vars => [current = None /\ disk = None /\ disk' # None => pc' # pc]_vars
  <2> SUFFICES ASSUME TypeInv, [Next]_vars, current = None, disk = None, disk' # None PROVE pc' # pc
    OBVIOUS
  <2>0. pc \in [Turns -> Places]
    BY DEF TypeInv, TypeOK, TurnTypes
  <2>1. ASSUME NEW t \in Turns, NEW places, Move(t, places) PROVE pc' # pc
    BY <2>0, <2>1 DEF Move
  <2>2. ASSUME NEW q \in slot, Apply(running[q]) PROVE FALSE
    <3>1. obj[running[q]] # None
      BY RunningJob, ObjectOf
    <3> QED BY <2>2, <3>1 DEF Apply, SaveIfLive, fileVars
  <2> QED BY <2>1, <2>2, SessionChanges DEF Open, Write, sessionVars, fileVars, Delete, Restart
<1> QED BY <1>1, TypeInit, TypeStep, PTL DEF Spec, JobsBringNothingBack

(***************************************************************************)
(* What a compaction measured is still the beginning of the history it is  *)
(* applied to, since no other runs and turns only add at the end; so every *)
(* message of the user is in the history or in what the summary covers.    *)
(***************************************************************************)
Measured(t, o) ==
  snap[t] > 0 =>
    /\ snap[t] + Keep <= Len(msgs[o])
    /\ seen[t] = covered[o] \cup Elems(SubSeq(msgs[o], 1, snap[t]))

MeasureInv ==
  ~overlap =>
    /\ \A p, q \in slot : p = q
    /\ \A q \in slot : Measured(running[q], obj[running[q]])

\* ... and so is every one that was said when the file was last written.
FileRemembers ==
  disk # None => \A m \in filed : m[1] = "user" => m \in Elems(disk.msgs) \cup disk.covered

RememberInv ==
  ~overlap =>
    /\ \A o \in Objects : \A m \in written[o] : m[1] = "user" => Remembered(o, m)
    /\ FileRemembers

(***************************************************************************)
(* Sequences: what is added at the end, the first part, and what a         *)
(* compaction keeps of the rest.                                           *)
(***************************************************************************)
LEMMA AppendElems ==
  ASSUME NEW S, NEW s \in Seq(S), NEW m \in S
  PROVE  Elems(Append(s, m)) = Elems(s) \cup {m}
<1>1. /\ Len(Append(s, m)) = Len(s) + 1 /\ Len(s) \in Nat
      /\ \A i \in 1 .. Len(s) : Append(s, m)[i] = s[i]
      /\ Append(s, m)[Len(s) + 1] = m
  OBVIOUS
<1>2. 1 .. Len(s) + 1 = 1 .. Len(s) \cup {Len(s) + 1}
  BY <1>1
<1> QED BY <1>1, <1>2 DEF Elems

LEMMA AppendPrefix ==
  ASSUME NEW S, NEW s \in Seq(S), NEW m \in S, NEW n \in 1 .. Len(s)
  PROVE  SubSeq(Append(s, m), 1, n) = SubSeq(s, 1, n)
  OBVIOUS

LEMMA LeastNatural ==
  ASSUME NEW I, I \subseteq Nat, I # {}
  PROVE  \E x \in I : \A y \in I : x <= y
<1>1. PICK x \in I : \A y \in I : ~ (<<y, x>> \in OpToRel(<, Nat))
  BY NatLessThanWellFounded, WFMin
<1>2. \A y \in I : ~ (y < x)
  BY <1>1 DEF OpToRel
<1> QED BY <1>2

LEMMA FromUserKeeps ==
  ASSUME NEW s \in Seq(Messages), NEW i \in 1 .. Len(s), s[i][1] = "user"
  PROVE  s[i] \in Elems(FromUser(s))
<1> DEFINE users == {j \in 1 .. Len(s) : s[j][1] = "user"}
           firsts == {j \in 1 .. Len(s) : s[j][1] = "user" /\ \A l \in 1 .. j - 1 : s[l][1] # "user"}
           k == CHOOSE j \in firsts : TRUE
<1>1. firsts # {}
  <2>1. PICK x \in users : \A y \in users : x <= y
    <3>1. users \subseteq Nat /\ users # {}
      OBVIOUS
    <3> HIDE DEF users
    <3> QED BY <3>1, LeastNatural
  <2>2. x \in 1 .. Len(s) /\ s[x][1] = "user" /\ Len(s) \in Nat
    OBVIOUS
  <2>3. ASSUME NEW l \in 1 .. x - 1, s[l][1] = "user" PROVE FALSE
    <3>1. l \in 1 .. Len(s) /\ l < x
      BY <2>2
    <3>2. l \in users
      BY <2>3, <3>1
    <3> QED BY <2>1, <2>2, <3>1, <3>2
  <2> QED BY <2>2, <2>3
<1>2. k \in firsts
  BY <1>1
<1> HIDE DEF k
<1>3. k \in 1 .. Len(s) /\ k <= i
  BY <1>2
<1>4. FromUser(s) = SubSeq(s, k, Len(s))
  BY <1>1 DEF FromUser, k
<1> DEFINE v == SubSeq(s, k, Len(s))
<1>5. Len(v) = Len(s) - k + 1 /\ \A j \in 1 .. Len(s) - k + 1 : v[j] = s[k + j - 1]
  BY <1>3
<1>6. i - k + 1 \in 1 .. Len(v) /\ v[i - k + 1] = s[i]
  BY <1>3, <1>5
<1> QED BY <1>4, <1>6 DEF Elems

LEMMA KeptOrCovered ==
  ASSUME NEW s \in Seq(Messages), NEW n \in 1 .. Len(s), NEW m \in Elems(s), m[1] = "user"
  PROVE  m \in Elems(SubSeq(s, 1, n)) \cup Elems(Kept(s, n))
<1>1. PICK i \in 1 .. Len(s) : m = s[i]
  BY DEF Elems
<1>2. CASE i <= n
  <2>1. Len(SubSeq(s, 1, n)) = n /\ i \in 1 .. n /\ SubSeq(s, 1, n)[i] = s[i]
    BY <1>2
  <2> QED BY <1>1, <2>1 DEF Elems
<1>3. CASE i > n
  <2> DEFINE v == SubSeq(s, n + 1, Len(s))
  <2>1. /\ Len(v) = Len(s) - n
        /\ \A j \in 1 .. Len(s) - n : v[j] = s[n + j]
    BY <1>3
  <2>3. \A j \in n + 1 .. Len(s) : s[j] \in Messages
    OBVIOUS
  <2>4. v \in Seq(Messages)
    BY <1>3, <2>3, SubSeqProperties
  <2> HIDE DEF v
  <2>5. i - n \in 1 .. Len(v) /\ v[i - n] = s[i]
    BY <1>3, <2>1
  <2>2. v[i - n] \in Elems(FromUser(v))
    BY <1>1, <2>4, <2>5, FromUserKeeps
  <2> QED BY <1>1, <2>2, <2>5 DEF Kept, v
<1> QED BY <1>2, <1>3

(***************************************************************************)
(* The compactions that run, and the objects they run on.                  *)
(***************************************************************************)
LEMMA BegunObject ==
  ASSUME TypeInv, [Next]_vars, NEW t \in Turns, pc[t] # "new"
  PROVE  obj'[t] = obj[t]
<1>1. obj \in [Turns -> Objects \cup {None}]
  BY DEF TypeInv, TypeOK, TurnTypes
<1> QED BY <1>1, TurnChanges DEF OpenTurn, turnVars, Restart

LEMMA OverlapStays ==
  ASSUME TypeInv, [Next]_vars, ~overlap'
  PROVE  ~overlap
<1>1. overlap \in BOOLEAN
  BY DEF TypeInv, TypeOK, FlagTypes
<1>2. \/ overlap' = overlap
      \/ overlap' = (overlap \/ slot # {})
  BY Zenon DEF Next, SessionRefused, SessionGranted, PersistUser, EngineStep, Fail, Serve, Unread, Answer, Cut, Emit,
         ShortCircuit, EmitShort, JobTake, JobStart, GateSignal, JobDone, JobPreempted, Expire, Delete, Restart, vars, jobVars
<1> QED BY <1>1, <1>2, Zenon

LEMMA RunChanges ==
  ASSUME [Next]_vars
  PROVE  \/ UNCHANGED <<running, slot, snap, seen>> /\ (UNCHANGED sessionVars \/ Delete
              \/ (\E t \in Turns, q \in Engines : Open(t, q)) \/ \E t \in Turns : Write(t))
         \/ \E q \in Engines : JobTake(q) \/ JobStart(q) \/ JobPreempted(q) \/ JobDone(q)
         \/ Restart
<1>1. ASSUME NEW t \in Turns, NEW q \in Engines,
             SessionRefused(t, q) \/ \E force \in BOOLEAN : SessionGranted(t, q, force)
      PROVE  Open(t, q) /\ UNCHANGED <<running, slot, snap, seen>>
  BY <1>1 DEF SessionRefused, SessionGranted, Open, OpenTurn, Move, jobVars
<1>2. ASSUME NEW t \in Turns, PersistUser(t) \/ Answer(t) \/ Cut(t) \/ ShortCircuit(t)
      PROVE  Write(t) /\ UNCHANGED <<running, slot, snap, seen>>
  BY <1>2 DEF PersistUser, Answer, Cut, ShortCircuit, Write, Move, jobVars
<1>3. ASSUME NEW t \in Turns, EngineStep(t) \/ Fail(t) \/ Serve(t) \/ Unread(t) \/ Emit(t) \/ EmitShort(t)
      PROVE  UNCHANGED sessionVars /\ UNCHANGED <<running, slot, snap, seen>>
  BY <1>3 DEF EngineStep, Fail, Serve, Unread, Emit, EmitShort, jobVars
<1>4. ASSUME NEW q \in Engines, GateSignal(q)
      PROVE  UNCHANGED sessionVars /\ UNCHANGED <<running, slot, snap, seen>>
  BY <1>4 DEF GateSignal
<1>5. ASSUME Expire \/ UNCHANGED vars PROVE UNCHANGED sessionVars /\ UNCHANGED <<running, slot, snap, seen>>
  BY <1>5 DEF Expire, vars, jobVars
<1>6. ASSUME Delete PROVE UNCHANGED <<running, slot, snap, seen>>
  BY <1>6 DEF Delete, jobVars
<1> QED BY <1>1, <1>2, <1>3, <1>4, <1>5, <1>6 DEF Next

(***************************************************************************)
(* Without a compaction or a restart, histories only grow.                 *)
(***************************************************************************)
Grown(o) ==
  /\ covered'[o] = covered[o]
  /\ \/ msgs'[o] = msgs[o] /\ written'[o] = written[o]
     \/ \E m \in Messages : msgs'[o] = Append(msgs[o], m) /\ written'[o] = written[o] \cup {m}

LEMMA HistoriesGrow ==
  ASSUME TypeInv, NEW o \in Objects,
         \/ UNCHANGED sessionVars \/ Delete
         \/ \E t \in Turns, q \in Engines : Open(t, q)
         \/ \E t \in Turns : Write(t)
  PROVE  Grown(o)
<1> USE DEF Grown
<1>1. ASSUME NEW t \in Turns, Write(t) PROVE Grown(o)
  <2>1. obj[t] \in Objects
    BY <1>1, ObjectOf DEF Write
  <2>2. PICK role \in {"user", "assistant"} : Add(obj[t], role, t)
    BY <1>1 DEF Write
  <2>3. <<role, t>> \in Messages
    BY DEF Messages
  <2>4. msgs \in [Objects -> Seq(Messages)] /\ written \in [Objects -> SUBSET Messages]
    BY DEF TypeInv, TypeOK, SessionTypes
  <2>5. CASE o = obj[t]
    BY <2>1, <2>2, <2>3, <2>4, <2>5 DEF Add
  <2>6. CASE o # obj[t]
    BY <2>1, <2>2, <2>4, <2>6 DEF Add
  <2> QED BY <2>5, <2>6
<1>2. ASSUME NEW t \in Turns, NEW q \in Engines, Open(t, q) PROVE Grown(o)
  BY <1>2 DEF Open, OpenTurn, GetOrCreate, sessionVars
<1>3. CASE UNCHANGED sessionVars \/ Delete
  BY <1>3 DEF Delete, sessionVars
<1> QED BY <1>1, <1>2, <1>3

LEMMA MeasureStep == TypeInv /\ MeasureInv /\ [Next]_vars => MeasureInv'
<1> SUFFICES ASSUME TypeInv, MeasureInv, [Next]_vars, ~overlap'
             PROVE  /\ \A p, q \in slot' : p = q
                    /\ \A q \in slot' : Measured(running[q], obj[running[q]])'
  BY DEF MeasureInv
<1>0. /\ ~overlap /\ \A p, q \in slot : p = q
      /\ \A q \in slot : Measured(running[q], obj[running[q]])
  BY OverlapStays DEF MeasureInv
<1>t. /\ msgs \in [Objects -> Seq(Messages)] /\ running \in [Engines -> Turns \cup {None}]
      /\ snap \in [Turns -> Nat] /\ seen \in [Turns -> SUBSET Messages]
      /\ slot \subseteq {q \in Engines : running[q] # None} /\ Keep \in Nat
  BY KeepAssumption DEF TypeInv, TypeOK, SessionTypes, JobTypes
<1>r. \A q \in slot : /\ q \in Engines /\ running[q] \in Turns
                      /\ obj[running[q]] \in Objects /\ obj'[running[q]] = obj[running[q]]
  BY RunningJob, ObjectOf, BegunObject
<1>1. ASSUME UNCHANGED <<running, slot, snap, seen>>, \A o \in Objects : Grown(o), NEW q \in slot
      PROVE  Measured(running[q], obj[running[q]])'
  <2> DEFINE t == running[q]
             o == obj[t]
  <2>1. o \in Objects /\ t \in Turns /\ obj'[t] = o
    BY <1>r
  <2>2. Measured(t, o) /\ snap[t] \in Nat /\ msgs[o] \in Seq(Messages) /\ covered'[o] = covered[o]
    BY <1>0, <1>1, <1>t, <2>1 DEF Grown
  <2>3. CASE msgs'[o] = msgs[o]
    BY <1>1, <2>1, <2>2, <2>3 DEF Measured
  <2>4. ASSUME NEW m \in Messages, msgs'[o] = Append(msgs[o], m), snap[t] > 0
        PROVE  snap[t] + Keep <= Len(msgs'[o]) /\ SubSeq(msgs'[o], 1, snap[t]) = SubSeq(msgs[o], 1, snap[t])
    <3>1. /\ snap[t] \in 1 .. Len(msgs[o]) /\ Len(Append(msgs[o], m)) = Len(msgs[o]) + 1
          /\ snap[t] + Keep <= Len(msgs[o]) + 1
      BY <1>t, <2>2, <2>4 DEF Measured
    <3> QED BY <2>2, <2>4, <3>1, AppendPrefix
  <2>5. \/ msgs'[o] = msgs[o]
        \/ \E m \in Messages : msgs'[o] = Append(msgs[o], m)
    BY <1>1, <2>1 DEF Grown
  <2> HIDE DEF t, o
  <2>6. snap[t] > 0 => snap[t] + Keep <= Len(msgs'[o]) /\ SubSeq(msgs'[o], 1, snap[t]) = SubSeq(msgs[o], 1, snap[t])
    BY <2>2, <2>3, <2>4, <2>5 DEF Measured
  <2> QED BY <1>1, <2>1, <2>2, <2>6 DEF Measured, t, o
<1>2. CASE UNCHANGED <<running, slot, snap, seen>> /\ \A o \in Objects : Grown(o)
  BY <1>0, <1>1, <1>2
<1>3. ASSUME NEW p \in Engines, JobTake(p)
      PROVE  /\ \A q \in slot' : q \in slot
             /\ \A q \in slot : Measured(running[q], obj[running[q]])'
  <2>1. UNCHANGED <<msgs, covered, obj, snap, seen, slot>>
    BY <1>3 DEF JobTake, sessionVars, turnVars
  <2>2. \A q \in slot : running'[q] = running[q]
    BY <1>3, <1>t DEF JobTake
  <2> QED BY <1>0, <2>1, <2>2 DEF Measured
<1>4. ASSUME NEW p \in Engines, JobStart(p)
      PROVE  slot' = {p} /\ Measured(running[p], obj[running[p]])'
  <2> DEFINE t == running[p]
             o == obj[t]
             old == Len(msgs[o]) - Keep
  <2>1. slot = {}
    <3>1. overlap' = (overlap \/ slot # {})
      BY <1>4 DEF JobStart
    <3> QED BY <3>1
  <2>2. /\ slot' = {p} /\ UNCHANGED <<msgs, covered, obj, running>>
        /\ running[p] # None
    BY <1>4, <2>1 DEF JobStart, sessionVars, turnVars
  <2>3. t \in Turns /\ o \in Objects /\ msgs[o] \in Seq(Messages)
    <3>1. t \in Turns /\ pc[t] # "new"
      BY <1>t, <2>2 DEF TypeInv, Begun
    <3> QED BY <1>t, <3>1, ObjectOf
  <2>4. \/ snap'[t] = 0
        \/ /\ snap'[t] = old /\ Len(msgs[o]) > Keep
           /\ seen'[t] = covered[o] \cup Elems(SubSeq(msgs[o], 1, old))
    BY <1>4, <1>t, <2>3 DEF JobStart
  <2>5. Len(msgs[o]) \in Nat /\ old + Keep <= Len(msgs[o])
    BY <1>t, <2>3
  <2> QED BY <2>2, <2>4, <2>5 DEF Measured
<1>5. ASSUME NEW p \in Engines, JobPreempted(p) \/ JobDone(p) PROVE slot' = {}
  <2>1. p \in slot /\ slot' = slot \ {p}
    BY <1>5 DEF JobPreempted, JobDone, JobFree
  <2> QED BY <1>0, <2>1
<1>6. CASE Restart
  BY <1>6 DEF Restart
<1> HIDE DEF Measured
<1> QED BY <1>0, <1>2, <1>3, <1>4, <1>5, <1>6, RunChanges, HistoriesGrow

LEMMA RememberHistories ==
  ASSUME TypeInv, MeasureInv, RememberInv, [Next]_vars, ~overlap',
         NEW o \in Objects, NEW m \in written'[o], m[1] = "user"
  PROVE  m \in Elems(msgs'[o]) \cup covered'[o]
<1>0. ~overlap
  BY OverlapStays
<1>1. \A p \in Objects : \A n \in written[p] : n[1] = "user" => n \in Elems(msgs[p]) \cup covered[p]
  BY <1>0 DEF RememberInv, Remembered
<1>t. /\ msgs \in [Objects -> Seq(Messages)] /\ covered \in [Objects -> SUBSET Messages]
      /\ written \in [Objects -> SUBSET Messages]
  BY DEF TypeInv, TypeOK, SessionTypes
<1>2. CASE Grown(o)
  <2>1. CASE msgs'[o] = msgs[o] /\ written'[o] = written[o]
    BY <1>1, <1>2, <2>1 DEF Grown
  <2>2. ASSUME NEW n \in Messages, msgs'[o] = Append(msgs[o], n), written'[o] = written[o] \cup {n}
        PROVE  m \in Elems(msgs'[o]) \cup covered'[o]
    <3>1. msgs[o] \in Seq(Messages)
      BY <1>t
    <3>2. Elems(msgs'[o]) = Elems(msgs[o]) \cup {n}
      BY <2>2, <3>1, AppendElems
    <3> QED BY <1>1, <1>2, <2>2, <3>2 DEF Grown
  <2> QED BY <1>2, <2>1, <2>2 DEF Grown
<1>3. ASSUME NEW q \in slot, snap[running[q]] > 0, Apply(running[q])
      PROVE m \in Elems(msgs'[o]) \cup covered'[o]
  <2> DEFINE t == running[q]
             b == obj[t]
  <2>1. t \in Turns /\ b \in Objects
    BY RunningJob, ObjectOf
  <2>2. written' = written
    BY <1>3 DEF Apply
  <2>3. CASE o # b
    BY <1>1, <1>3, <1>t, <2>1, <2>2, <2>3 DEF Apply
  <2>4. CASE o = b
    <3>1. /\ msgs'[b] = Kept(msgs[b], snap[t]) /\ covered'[b] = seen[t]
          /\ msgs[b] \in Seq(Messages)
      BY <1>3, <1>t, <2>1 DEF Apply
    <3>2. /\ snap[t] + Keep <= Len(msgs[b]) /\ snap[t] \in Nat /\ Keep \in Nat
          /\ seen[t] = covered[b] \cup Elems(SubSeq(msgs[b], 1, snap[t]))
      BY <1>0, <1>3, <2>1, KeepAssumption DEF MeasureInv, Measured, TypeInv, TypeOK, JobTypes
    <3>3. snap[t] \in 1 .. Len(msgs[b])
      BY <1>3, <3>1, <3>2
    <3>4. m \in Elems(msgs[b]) \cup covered[b]
      BY <1>1, <2>1, <2>2, <2>4
    <3>5. m \in Elems(msgs[b]) => m \in Elems(SubSeq(msgs[b], 1, snap[t])) \cup Elems(Kept(msgs[b], snap[t]))
      BY <3>1, <3>3, KeptOrCovered
    <3> QED BY <2>4, <3>1, <3>2, <3>4, <3>5
  <2> QED BY <2>3, <2>4
<1>4. CASE Restart
  <2>1. CASE disk = None
    BY <1>1, <1>4, <2>1 DEF Restart
  <2>2. CASE disk # None
    <3>1. made + 1 \in Objects
      BY <1>4, ObjectLeft DEF Restart
    <3>2. CASE o # made + 1
      BY <1>1, <1>4, <1>t, <2>2, <3>1, <3>2 DEF Restart
    <3>3. CASE o = made + 1
      <4>1. msgs'[o] = disk.msgs /\ covered'[o] = disk.covered /\ written'[o] = filed
        BY <1>4, <1>t, <2>2, <3>1, <3>3 DEF Restart
      <4> QED BY <1>0, <2>2, <4>1 DEF RememberInv, FileRemembers
    <3> QED BY <3>2, <3>3
  <2> QED BY <2>1, <2>2
<1> QED BY <1>2, <1>3, <1>4, SessionChanges, HistoriesGrow

LEMMA RememberStep == TypeInv /\ MeasureInv /\ RememberInv /\ [Next]_vars => RememberInv'
<1> SUFFICES ASSUME TypeInv, MeasureInv, RememberInv, [Next]_vars, ~overlap'
             PROVE  /\ \A o \in Objects : \A m \in written'[o] : m[1] = "user" => m \in Elems(msgs'[o]) \cup covered'[o]
                    /\ FileRemembers'
  BY DEF RememberInv, Remembered
<1>1. \A o \in Objects : \A m \in written'[o] : m[1] = "user" => m \in Elems(msgs'[o]) \cup covered'[o]
  BY RememberHistories
<1>2. FileRemembers
  BY OverlapStays DEF RememberInv
<1>3. ASSUME UNCHANGED <<disk, filed>> PROVE FileRemembers'
  BY <1>2, <1>3 DEF FileRemembers
<1>4. ASSUME NEW o \in Objects, Save(o) PROVE FileRemembers'
  BY <1>1, <1>3, <1>4, FileWrites DEF FileRemembers
<1>5. ASSUME NEW t \in Turns, NEW q \in Engines, Open(t, q) PROVE FileRemembers'
  <2>1. CASE current # None
    BY <1>3, <1>5, <2>1 DEF Open, OpenTurn, GetOrCreate, sessionVars, fileVars
  <2>2. CASE current = None
    BY <1>4, <1>5, <2>2, ObjectLeft DEF Open, OpenTurn, GetOrCreate
  <2> QED BY <2>1, <2>2
<1>6. ASSUME NEW t \in Turns, Write(t) PROVE FileRemembers'
  BY <1>4, <1>6, ObjectOf DEF Write
<1>7. ASSUME NEW q \in slot, Apply(running[q]) PROVE FileRemembers'
  <2>1. obj[running[q]] \in Objects
    BY RunningJob, ObjectOf
  <2> QED BY <1>3, <1>4, <1>7, <2>1 DEF Apply, SaveIfLive, fileVars
<1>8. ASSUME Delete PROVE FileRemembers'
  <2>1. Unlink
    BY <1>8 DEF Delete
  <2> QED BY <1>3, <2>1, FileWrites DEF FileRemembers
<1>9. ASSUME UNCHANGED sessionVars \/ Restart PROVE FileRemembers'
  BY <1>3, <1>9 DEF sessionVars, fileVars, Restart
<1> QED BY <1>1, <1>5, <1>6, <1>7, <1>8, <1>9, SessionChanges

(***************************************************************************)
(* As long as the two sides never compact the conversation at once, a user *)
(* turn does not lose its message to a compaction: it is in the history or *)
(* the summary covers it; after a restart this holds of what was said when *)
(* the file was last written (compactor.py:162-164,                        *)
(* session_manager.py:270-287, 528-585).                                   *)
(***************************************************************************)
THEOREM UserMessagesSurvive == Spec => []OneCompactionKeepsUserMessages
<1>1. Init => MeasureInv /\ RememberInv
  BY DEF Init, MeasureInv, RememberInv, FileRemembers
<1>2. TypeInv /\ RememberInv => OneCompactionKeepsUserMessages
  <2> SUFFICES ASSUME TypeInv, RememberInv, ~overlap, current # None, ~deletedUnder
               PROVE  \A m \in written[current] : m[1] = "user" => Remembered(current, m)
    BY DEF OneCompactionKeepsUserMessages, UserMessagesKept
  <2>1. current \in Objects
    BY ObjectLeft
  <2> QED BY <2>1 DEF RememberInv
<1> QED BY <1>1, <1>2, TypeInit, TypeStep, MeasureStep, RememberStep, PTL DEF Spec

(***************************************************************************)
(* The transcript.  What a turn has said, in some object or on file, tells *)
(* how far it is, so nothing is said twice and no answer before its        *)
(* question; an object not made yet holds no words.                        *)
(***************************************************************************)
Told(m) == m \in filed \/ \E o \in Objects : m \in written[o]

SpokenSoFar(t) ==
  /\ Told(<<"user", t>>) => pc[t] \notin {"new", "held"}
  /\ Told(<<"assistant", t>>) => pc[t] \in {"answered", "told", "done"}
  /\ pc[t] \in {"asked", "ready", "serving"} => <<"user", t>> \in written[obj[t]]

SpokenInv ==
  /\ \A t \in Turns : SpokenSoFar(t)
  /\ \A o \in Objects : o > made => written[o] = {}

(***************************************************************************)
(* A turn speaks and moves on in one step, or moves on without a word.     *)
(***************************************************************************)
Speaks(t, role) ==
  /\ \/ role = "user" /\ pc[t] = "held" /\ pc' = [pc EXCEPT ![t] = "asked"]
     \/ /\ role = "assistant" /\ pc[t] \in {"asked", "serving"}
        /\ \E at \in {"answered", "told", "done"} : pc' = [pc EXCEPT ![t] = at]
  /\ Add(obj[t], role, t) /\ Save(obj[t])
  /\ UNCHANGED obj

MovesOn(t) ==
  /\ \/ pc[t] = "asked" /\ pc' = [pc EXCEPT ![t] = "ready"]
     \/ pc[t] = "ready" /\ pc' = [pc EXCEPT ![t] = "serving"]
     \/ t \in Active /\ \E at \in {"refused", "unread", "done"} :
          /\ pc' = [pc EXCEPT ![t] = at]
          /\ at = "refused" => pc[t] = "asked"
          /\ at = "unread" => pc[t] = "ready"
  /\ UNCHANGED <<sessionVars, obj>>

LEMMA SpeechChanges ==
  ASSUME [Next]_vars
  PROVE  \/ UNCHANGED <<sessionVars, pc, obj>>
         \/ \E t \in Turns, q \in Engines : Open(t, q)
         \/ \E t \in Turns : \E role \in {"user", "assistant"} : Speaks(t, role)
         \/ \E t \in Turns : MovesOn(t)
         \/ \E q \in slot : snap[running[q]] > 0 /\ Apply(running[q]) /\ UNCHANGED turnVars
         \/ Delete
         \/ Restart
<1>1. ASSUME NEW t \in Turns, NEW q \in Engines,
             SessionRefused(t, q) \/ \E force \in BOOLEAN : SessionGranted(t, q, force)
      PROVE Open(t, q)
  BY <1>1 DEF SessionRefused, SessionGranted, Open, OpenTurn, Move
<1>2. ASSUME NEW t \in Turns, PersistUser(t) PROVE Speaks(t, "user")
  BY <1>2 DEF PersistUser, Speaks
<1>3. ASSUME NEW t \in Turns, Answer(t) \/ Cut(t) \/ ShortCircuit(t) PROVE Speaks(t, "assistant")
  BY <1>3 DEF Answer, Cut, ShortCircuit, Speaks
<1>4. ASSUME NEW t \in Turns, EngineStep(t) \/ Fail(t) \/ Serve(t) \/ Unread(t) \/ Emit(t) \/ EmitShort(t)
      PROVE MovesOn(t)
  BY <1>4 DEF EngineStep, Fail, Serve, Unread, Emit, EmitShort, MovesOn, Active
<1>5. ASSUME NEW q \in Engines, JobTake(q) \/ JobStart(q) \/ GateSignal(q) \/ JobPreempted(q)
      PROVE UNCHANGED <<sessionVars, pc, obj>>
  BY <1>5 DEF JobTake, JobStart, GateSignal, JobPreempted, turnVars
<1>6. ASSUME NEW q \in Engines, JobDone(q)
      PROVE \/ UNCHANGED <<sessionVars, pc, obj>>
            \/ q \in slot /\ snap[running[q]] > 0 /\ Apply(running[q]) /\ UNCHANGED turnVars
  BY <1>6 DEF JobDone, turnVars
<1>7. ASSUME Expire \/ UNCHANGED vars PROVE UNCHANGED <<sessionVars, pc, obj>>
  BY <1>7 DEF Expire, vars, turnVars
<1> QED BY <1>1, <1>2, <1>3, <1>4, <1>5, <1>6, <1>7 DEF Next

(***************************************************************************)
(* What is on file after a step was there before, or was said in the       *)
(* object written: no step tells more than what is said in it.             *)
(***************************************************************************)
LEMMA NothingElseTold ==
  ASSUME TypeInv, NEW o \in Objects, Save(o) \/ UNCHANGED <<disk, filed>>, NEW m, Told(m)',
         \A p \in Objects : m \in written'[p] => m \in written[p]
  PROVE  Told(m)
<1>1. filed' \in {filed, written'[o]}
  BY FileWrites
<1> QED BY <1>1 DEF Told

LEMMA SpokenStep == TypeInv /\ SpokenInv /\ [Next]_vars => SpokenInv'
<1> SUFFICES ASSUME TypeInv, SpokenInv, [Next]_vars
             PROVE  /\ \A t \in Turns : SpokenSoFar(t)'
                    /\ \A o \in Objects : o > made' => written'[o] = {}
  BY DEF SpokenInv
<1>1. /\ \A t \in Turns : SpokenSoFar(t)
      /\ \A o \in Objects : o > made => written[o] = {}
  BY DEF SpokenInv
<1>t. /\ written \in [Objects -> SUBSET Messages] /\ pc \in [Turns -> Places]
      /\ obj \in [Turns -> Objects \cup {None}] /\ made \in Nat /\ made + 1 # None
      /\ None \notin Objects /\ Objects \subseteq Nat
  BY ObjectLeft, NoneAssumption DEF TypeInv, TypeOK, SessionTypes, TurnTypes, Objects
<1>2. CASE UNCHANGED <<sessionVars, pc, obj>>
  BY <1>1, <1>2 DEF sessionVars, fileVars, SpokenSoFar, Told
<1>3. ASSUME NEW u \in Turns, NEW q \in Engines, Open(u, q)
      PROVE  /\ \A t \in Turns : SpokenSoFar(t)'
             /\ \A o \in Objects : o > made' => written'[o] = {}
  <2>1. /\ written' = written /\ pc[u] = "new" /\ obj' = [obj EXCEPT ![u] = Opened]
        /\ \E at \in {"held", "done"} : pc' = [pc EXCEPT ![u] = at]
    BY <1>3 DEF Open, OpenTurn, GetOrCreate, Move, sessionVars
  <2>2. made' \in {made, made + 1}
    BY <1>3, <1>t DEF Open, OpenTurn, GetOrCreate, sessionVars
  <2>3. ASSUME NEW m, Told(m)' PROVE Told(m)
    <3>1. CASE current # None
      BY <1>3, <2>3, <3>1 DEF Open, OpenTurn, GetOrCreate, sessionVars, fileVars, Told
    <3>2. CASE current = None
      <4>1. made + 1 \in Objects /\ Save(made + 1)
        BY <1>3, <3>2, ObjectLeft DEF Open, OpenTurn, GetOrCreate
      <4> QED BY <2>1, <2>3, <4>1, NothingElseTold
    <3> QED BY <3>1, <3>2
  <2>4. ~Told(<<"user", u>>) /\ ~Told(<<"assistant", u>>)
    BY <1>1, <2>1 DEF SpokenSoFar
  <2>5. SpokenSoFar(u)'
    BY <1>t, <2>1, <2>3, <2>4 DEF SpokenSoFar
  <2>6. ASSUME NEW t \in Turns, t # u PROVE SpokenSoFar(t)'
    BY <1>1, <1>t, <2>1, <2>3, <2>6 DEF SpokenSoFar
  <2>7. \A o \in Objects : o > made' => o > made
    BY <1>t, <2>2
  <2> QED BY <1>1, <2>1, <2>5, <2>6, <2>7
<1>4. ASSUME NEW u \in Turns, NEW role \in {"user", "assistant"}, Speaks(u, role)
      PROVE  /\ \A t \in Turns : SpokenSoFar(t)'
             /\ \A o \in Objects : o > made' => written'[o] = {}
  <2>1. obj[u] \in Objects /\ obj[u] <= made
    BY <1>4, ObjectOf DEF Speaks
  <2>2. /\ written' = [written EXCEPT ![obj[u]] = @ \cup {<<role, u>>}]
        /\ made' = made /\ obj' = obj /\ Save(obj[u])
    BY <1>4 DEF Speaks, Add
  <2>4. \A o \in Objects : o > made => o # obj[u]
    BY <1>t, <2>1
  <2>5. \A o \in Objects : written'[o] \subseteq written[o] \cup {<<role, u>>} /\ written[o] \subseteq written'[o]
    BY <1>t, <2>1, <2>2
  <2>6. ASSUME NEW m, m # <<role, u>>, Told(m)' PROVE Told(m)
    BY <2>1, <2>2, <2>5, <2>6, NothingElseTold
  <2>7. ASSUME NEW t \in Turns, t # u PROVE SpokenSoFar(t)'
    <3>1. SpokenSoFar(t) /\ obj'[t] = obj[t] /\ pc'[t] = pc[t]
      BY <1>1, <1>4, <1>t, <2>2, <2>7 DEF Speaks
    <3>2. /\ Told(<<"user", t>>)' => Told(<<"user", t>>)
          /\ Told(<<"assistant", t>>)' => Told(<<"assistant", t>>)
      BY <2>6, <2>7
    <3>3. pc[t] \in {"asked", "ready", "serving"} => obj[t] \in Objects
      BY ObjectOf
    <3> QED BY <2>5, <3>1, <3>2, <3>3 DEF SpokenSoFar
  <2>8. SpokenSoFar(u)'
    <3>1. CASE role = "user"
      <4>1. pc[u] = "held" /\ pc'[u] = "asked" /\ <<"user", u>> \in written'[obj[u]]
        BY <1>4, <1>t, <2>1, <2>2, <3>1 DEF Speaks
      <4>2. ~Told(<<"assistant", u>>)'
        BY <1>1, <2>6, <3>1, <4>1 DEF SpokenSoFar
      <4> QED BY <2>2, <4>1, <4>2 DEF SpokenSoFar
    <3>2. CASE role = "assistant"
      BY <1>4, <1>t, <3>2 DEF Speaks, SpokenSoFar
    <3> QED BY <3>1, <3>2
  <2>9. \A o \in Objects : o > made' => written'[o] = {}
    BY <1>1, <1>t, <2>1, <2>2, <2>4
  <2> QED BY <2>7, <2>8, <2>9
<1>5. ASSUME NEW u \in Turns, MovesOn(u)
      PROVE  /\ \A t \in Turns : SpokenSoFar(t)'
             /\ \A o \in Objects : o > made' => written'[o] = {}
  <2>1. /\ UNCHANGED <<written, filed, made, obj>> /\ \A t \in Turns \ {u} : pc'[t] = pc[t]
        /\ \A m : Told(m)' <=> Told(m)
    BY <1>5, <1>t DEF MovesOn, sessionVars, fileVars, Told
  <2>2. ASSUME NEW t \in Turns, t # u PROVE SpokenSoFar(t)'
    BY <1>1, <2>1, <2>2 DEF SpokenSoFar
  <2>3. /\ pc[u] \notin {"new", "held"} => pc'[u] \notin {"new", "held"}
        /\ pc[u] \in {"answered", "told", "done"} => pc'[u] \in {"answered", "told", "done"}
        /\ pc'[u] \in {"asked", "ready", "serving"} => pc[u] \in {"asked", "ready", "serving"}
    BY <1>5, <1>t DEF MovesOn, Active
  <2>4. SpokenSoFar(u)'
    BY <1>1, <2>1, <2>3 DEF SpokenSoFar
  <2> QED BY <1>1, <2>1, <2>2, <2>4
<1>7. ASSUME NEW q \in slot, Apply(running[q]), UNCHANGED turnVars
      PROVE  /\ \A t \in Turns : SpokenSoFar(t)'
             /\ \A o \in Objects : o > made' => written'[o] = {}
  <2>1. UNCHANGED <<made, written, pc, obj>> /\ obj[running[q]] \in Objects
    BY <1>7, RunningJob, ObjectOf DEF Apply, turnVars
  <2>2. ASSUME NEW m, Told(m)' PROVE Told(m)
    <3>1. Save(obj[running[q]]) \/ UNCHANGED <<disk, filed>>
      BY <1>7 DEF Apply, SaveIfLive, fileVars
    <3> QED BY <2>1, <2>2, <3>1, NothingElseTold
  <2> QED BY <1>1, <2>1, <2>2 DEF SpokenSoFar
<1>8. ASSUME Delete
      PROVE  /\ \A t \in Turns : SpokenSoFar(t)'
             /\ \A o \in Objects : o > made' => written'[o] = {}
  <2>1. UNCHANGED <<made, written, pc, obj>> /\ Unlink
    BY <1>8 DEF Delete, turnVars
  <2>2. ASSUME NEW m, Told(m)' PROVE Told(m)
    BY <2>1, <2>2, FileWrites DEF Told
  <2> QED BY <1>1, <2>1, <2>2 DEF SpokenSoFar
<1>9. ASSUME Restart
      PROVE  /\ \A t \in Turns : SpokenSoFar(t)'
             /\ \A o \in Objects : o > made' => written'[o] = {}
  <2>1. /\ UNCHANGED <<disk, filed, obj>>
        /\ \A t \in Turns : pc'[t] = IF pc[t] = "new" THEN "new" ELSE "done"
    BY <1>9 DEF Restart
  <2>2. CASE disk = None
    <3>1. made' = made /\ written' = written
      BY <1>9, <2>2 DEF Restart
    <3>2. ASSUME NEW t \in Turns PROVE SpokenSoFar(t)'
      BY <1>1, <2>1, <3>1 DEF SpokenSoFar, Told
    <3> QED BY <1>1, <3>1, <3>2
  <2>3. CASE disk # None
    <3>1. made + 1 \in Objects
      BY <1>9, ObjectLeft DEF Restart
    <3>2. written' = [written EXCEPT ![made + 1] = filed] /\ made' = made + 1
      BY <1>9, <2>3 DEF Restart
    <3>3. ASSUME NEW m, Told(m)' PROVE Told(m)
      BY <1>t, <2>1, <3>1, <3>2, <3>3 DEF Told
    <3>4. ASSUME NEW t \in Turns PROVE SpokenSoFar(t)'
      BY <1>1, <2>1, <3>3 DEF SpokenSoFar
    <3>5. \A o \in Objects : o > made + 1 => o > made /\ o # made + 1
      BY <1>t
    <3>6. \A o \in Objects : o > made' => written'[o] = {}
      BY <1>1, <1>t, <3>2, <3>5
    <3> QED BY <3>4, <3>6
  <2> QED BY <2>2, <2>3
<1> QED BY <1>2, <1>3, <1>4, <1>5, <1>7, <1>8, <1>9, SpeechChanges

(***************************************************************************)
(* What a compaction keeps is the rest of the history from some message    *)
(* on, and no message of the user lies between that one and the slice.     *)
(***************************************************************************)
LEMMA FromUserIsSuffix ==
  ASSUME NEW s \in Seq(Messages)
  PROVE  \E k \in 0 .. Len(s) : /\ FromUser(s) = SubSeq(s, k + 1, Len(s))
                                /\ \A i \in 1 .. k : s[i][1] # "user"
<1> DEFINE users == {j \in 1 .. Len(s) : s[j][1] = "user"}
           firsts == {j \in 1 .. Len(s) : s[j][1] = "user" /\ \A l \in 1 .. j - 1 : s[l][1] # "user"}
<1>0. Len(s) \in Nat
  OBVIOUS
<1>1. CASE users = {}
  <2>1. firsts = {} /\ \A i \in 1 .. Len(s) : s[i][1] # "user"
    BY <1>1
  <2>2. FromUser(s) = <<>>
    BY <2>1 DEF FromUser
  <2>3. SubSeq(s, Len(s) + 1, Len(s)) = <<>>
    BY <1>0
  <2> QED BY <1>0, <2>1, <2>2, <2>3
<1>2. CASE users # {}
  <2>1. PICK x \in users : \A y \in users : x <= y
    <3>1. users \subseteq Nat /\ users # {}
      BY <1>2
    <3> HIDE DEF users
    <3> QED BY <3>1, LeastNatural
  <2>2. x \in 1 .. Len(s) /\ s[x][1] = "user"
    BY <2>1
  <2>3. ASSUME NEW l \in 1 .. x - 1 PROVE s[l][1] # "user"
    <3>1. l \in 1 .. Len(s) /\ ~(x <= l)
      BY <1>0, <2>2
    <3> QED BY <2>1, <3>1
  <2>4. firsts # {}
    BY <2>2, <2>3
  <2> DEFINE k == CHOOSE j \in firsts : TRUE
  <2>5. k \in firsts
    BY <2>4
  <2>6. FromUser(s) = SubSeq(s, k, Len(s))
    BY <2>4 DEF FromUser
  <2> HIDE DEF k
  <2>7. k - 1 \in 0 .. Len(s) /\ (k - 1) + 1 = k
    BY <1>0, <2>5
  <2> QED BY <2>5, <2>6, <2>7
<1> QED BY <1>1, <1>2

LEMMA KeptIsSuffix ==
  ASSUME NEW s \in Seq(Messages), NEW n \in 1 .. Len(s)
  PROVE  \E m \in n .. Len(s) : /\ Kept(s, n) = SubSeq(s, m + 1, Len(s))
                                /\ \A i \in n + 1 .. m : s[i][1] # "user"
<1> DEFINE v == SubSeq(s, n + 1, Len(s))
<1>0. Len(s) \in Nat /\ n \in Nat
  OBVIOUS
<1>1. /\ Len(v) = Len(s) - n
      /\ \A j \in 1 .. Len(s) - n : v[j] = s[n + j]
  BY <1>0
<1>2. v \in Seq(Messages)
  <2>1. \A j \in n + 1 .. Len(s) : s[j] \in Messages
    OBVIOUS
  <2> QED BY <2>1, SubSeqProperties
<1> HIDE DEF v
<1>3. PICK k \in 0 .. Len(v) : /\ FromUser(v) = SubSeq(v, k + 1, Len(v))
                               /\ \A i \in 1 .. k : v[i][1] # "user"
  BY <1>2, FromUserIsSuffix
<1>4. n + k \in n .. Len(s)
  BY <1>0, <1>1
<1>5. SubSeq(v, k + 1, Len(v)) = SubSeq(s, n + k + 1, Len(s))
  <2> DEFINE a == SubSeq(v, k + 1, Len(v))
             b == SubSeq(s, n + k + 1, Len(s))
             l == Len(s) - n - k
  <2>1. Len(v) - (k + 1) + 1 = l /\ Len(s) - (n + k + 1) + 1 = l /\ l \in Nat /\ k \in Nat /\ Len(v) \in Nat
    BY <1>0, <1>1
  <2>2. a \in Seq(Messages) /\ Len(a) = l /\ \A i \in 1 .. l : a[i] = v[k + i]
    <3>1. \A i \in k + 1 .. Len(v) : v[i] \in Messages
      BY <1>2, <2>1
    <3>2. \A i \in 1 .. l : k + 1 + i - 1 = k + i
      BY <2>1
    <3>3. (IF k + 1 <= Len(v) THEN Len(v) - (k + 1) + 1 ELSE 0) = l
      BY <2>1
    <3> HIDE DEF l
    <3> QED BY <2>1, <3>1, <3>2, <3>3, SubSeqProperties
  <2>3. b \in Seq(Messages) /\ Len(b) = l /\ \A i \in 1 .. l : b[i] = s[n + k + i]
    <3>1. \A i \in n + k + 1 .. Len(s) : s[i] \in Messages
      BY <1>0, <2>1
    <3>2. \A i \in 1 .. l : n + k + 1 + i - 1 = n + k + i
      BY <1>0, <2>1
    <3>3. (IF n + k + 1 <= Len(s) THEN Len(s) - (n + k + 1) + 1 ELSE 0) = l
      BY <1>0, <2>1
    <3> HIDE DEF l
    <3> QED BY <1>0, <2>1, <3>1, <3>2, <3>3, SubSeqProperties
  <2>4. ASSUME NEW i \in 1 .. l PROVE v[k + i] = s[n + k + i]
    <3>1. k + i \in 1 .. Len(s) - n /\ n + (k + i) = n + k + i
      BY <1>0, <2>1
    <3> QED BY <1>1, <3>1
  <2> HIDE DEF a, b, l
  <2>5. a = b
    BY <2>2, <2>3, <2>4, SeqEqual
  <2> QED BY <2>5 DEF a, b
<1>6. \A i \in n + 1 .. n + k : s[i][1] # "user"
  <2>1. ASSUME NEW i \in n + 1 .. n + k PROVE s[i][1] # "user"
    <3>1. i - n \in 1 .. k /\ i - n \in 1 .. Len(s) - n /\ n + (i - n) = i
      BY <1>0, <1>1
    <3> QED BY <1>1, <1>3, <3>1
  <2> QED BY <2>1
<1>7. Kept(s, n) = SubSeq(s, n + k + 1, Len(s))
  BY <1>3, <1>5 DEF Kept, v
<1> QED BY <1>4, <1>6, <1>7

LEMMA PrefixElems ==
  ASSUME NEW S, NEW s \in Seq(S), NEW n \in 1 .. Len(s)
  PROVE  Elems(SubSeq(s, 1, n)) = {s[i] : i \in 1 .. n}
<1>1. Len(SubSeq(s, 1, n)) = n /\ \A i \in 1 .. n : SubSeq(s, 1, n)[i] = s[i]
  OBVIOUS
<1> QED BY <1>1 DEF Elems

(***************************************************************************)
(* The steps of the transcript: a conversation is opened, something is     *)
(* said in it, a compaction is applied to it, it is deleted, or shown      *)
(* again as it is on file; the other steps leave it alone.                 *)
(***************************************************************************)
Promising == TypeInv /\ FileInv /\ MeasureInv /\ SpokenInv

Still == UNCHANGED <<Shown, OnFile, behind>>

LEMMA RecordStill == ASSUME UNCHANGED sessionVars PROVE Still
  BY DEF sessionVars, fileVars, Still, Shown, OnFile

LEMMA ShownIsRecord ==
  ASSUME TypeInv, current # None
  PROVE  /\ Shown # None
         /\ Shown = [msgs |-> msgs[current], covered |-> covered[current], said |-> written[current]]
<1>1. current \in Objects
  BY ObjectLeft
<1>2. /\ msgs[current] \in Seq(Messages) /\ covered[current] \in SUBSET Messages
      /\ written[current] \in SUBSET Messages
  BY <1>1 DEF TypeInv, TypeOK, SessionTypes
<1>3. Shown = [msgs |-> msgs[current], covered |-> covered[current], said |-> written[current]]
  BY DEF Shown
<1>4. Shown \in Records
  BY <1>2, <1>3 DEF Records
<1> QED BY <1>3, <1>4, NoneAssumption

LEMMA RecordFiled ==
  ASSUME TypeInv, [Next]_vars, NEW o \in Objects, Save(o), current' = o, o # None
  PROVE  /\ Record!Filed
         /\ Shown' = [msgs |-> msgs'[o], covered |-> covered'[o], said |-> written'[o]]
<1>1. msgs'[o] \in Seq(Messages) /\ covered'[o] \in SUBSET Messages
  BY SessionStep DEF SessionTypes
<1>2. Shown' = [msgs |-> msgs'[o], covered |-> covered'[o], said |-> written'[o]]
  BY DEF Shown
<1>3. CASE UNCHANGED <<disk, filed>> /\ behind' = TRUE
  BY <1>2, <1>3 DEF Record!Filed, OnFile
<1>4. CASE disk' = [msgs |-> msgs'[o], covered |-> covered'[o]] /\ filed' = written'[o] /\ behind' = FALSE
  <2>1. disk' # None
    BY <1>1, <1>4, NoneAssumption DEF Files
  <2>2. OnFile' = [msgs |-> msgs'[o], covered |-> covered'[o], said |-> written'[o]]
    BY <1>4, <2>1 DEF OnFile
  <2> QED BY <1>2, <1>4, <2>2 DEF Record!Filed
<1> QED BY <1>2, <1>3, <1>4, FileWrites

LEMMA RecordOpens ==
  ASSUME Promising, [Next]_vars, NEW t \in Turns, NEW q \in Engines, Open(t, q)
  PROVE  Record!Open \/ Still
<1>1. CASE current # None
  BY <1>1, RecordStill DEF Open, OpenTurn, GetOrCreate
<1>2. CASE current = None
  <2>1. made + 1 \in Objects /\ made + 1 > made /\ made + 1 # None
    BY <1>2, ObjectLeft DEF Promising
  <2>2. written[made + 1] = {} /\ msgs[made + 1] = <<>> /\ covered[made + 1] = {}
    BY <2>1 DEF Promising, SpokenInv, TypeInv, Untouched
  <2>3. Save(made + 1) /\ current' = made + 1 /\ UNCHANGED <<msgs, covered, written>>
    BY <1>2 DEF Open, OpenTurn, GetOrCreate
  <2>4. Record!Filed /\ Shown' = [msgs |-> <<>>, covered |-> {}, said |-> {}]
    BY <2>1, <2>2, <2>3, RecordFiled DEF Promising
  <2>5. Shown = None
    BY <1>2 DEF Shown
  <2> QED BY <2>4, <2>5 DEF Record!Open
<1> QED BY <1>1, <1>2

LEMMA RecordSays ==
  ASSUME Promising, [Next]_vars, ~deletedUnder, NEW t \in Turns, NEW role \in {"user", "assistant"}, Speaks(t, role)
  PROVE  Record!Say(role, t)
<1> DEFINE o == obj[t]
<1>1. t \in Active /\ o \in Objects /\ o # None
  BY ObjectOf DEF Promising, Speaks, Active
<1>2. o = current
  BY <1>1 DEF Promising, FileInv
<1>t. /\ msgs \in [Objects -> Seq(Messages)] /\ written \in [Objects -> SUBSET Messages]
  BY DEF Promising, TypeInv, TypeOK, SessionTypes
<1>3. /\ msgs'[o] = Append(msgs[o], <<role, t>>) /\ written'[o] = written[o] \cup {<<role, t>>}
      /\ current' = current /\ covered' = covered /\ Save(o)
  BY <1>1, <1>t DEF Speaks, Add
<1>4. /\ Shown # None
      /\ Shown = [msgs |-> msgs[o], covered |-> covered[o], said |-> written[o]]
  BY <1>1, <1>2, ShownIsRecord DEF Promising
<1>5. /\ Record!Filed
      /\ Shown' = [msgs |-> msgs'[o], covered |-> covered'[o], said |-> written'[o]]
  BY <1>1, <1>2, <1>3, RecordFiled DEF Promising
<1>6. <<role, t>> \notin written[o] /\ (role = "assistant" => <<"user", t>> \in written[o])
  <2>1. SpokenSoFar(t)
    BY DEF Promising, SpokenInv
  <2> QED BY <1>1, <2>1 DEF SpokenSoFar, Told, Speaks
<1> QED BY <1>3, <1>4, <1>5, <1>6 DEF Record!Say

LEMMA RecordSummarises ==
  ASSUME Promising, [Next]_vars, ~overlap, NEW q \in slot, snap[running[q]] > 0, Apply(running[q])
  PROVE  \/ Shown # None /\ \E n \in 1 .. Len(Shown.msgs), m \in 1 .. Len(Shown.msgs) : Record!Summarise(n, m)
         \/ Still
<1> DEFINE t == running[q]
           o == obj[t]
           n == snap[t]
<1>1. t \in Turns /\ o \in Objects /\ o # None
  BY RunningJob, ObjectOf DEF Promising
<1>2. UNCHANGED <<current, written>>
  BY DEF Apply
<1>t. /\ msgs \in [Objects -> Seq(Messages)] /\ covered \in [Objects -> SUBSET Messages]
      /\ n \in Nat /\ Keep \in Nat /\ msgs[o] \in Seq(Messages) /\ Len(msgs[o]) \in Nat
      /\ current # None => current \in Objects
  BY <1>1, KeepAssumption, ObjectLeft DEF Promising, TypeInv, TypeOK, SessionTypes, JobTypes
<1>3. CASE current # o
  <2>1. UNCHANGED fileVars
    BY <1>3 DEF Apply, SaveIfLive
  <2>2. current # None => msgs'[current] = msgs[current] /\ covered'[current] = covered[current]
    BY <1>1, <1>3, <1>t DEF Apply
  <2> QED BY <1>2, <2>1, <2>2 DEF Still, Shown, OnFile, fileVars
<1>4. CASE current = o
  <2>1. /\ Shown # None
        /\ Shown = [msgs |-> msgs[o], covered |-> covered[o], said |-> written[o]]
    BY <1>1, <1>4, ShownIsRecord DEF Promising
  <2>2. Save(o)
    BY <1>4 DEF Apply, SaveIfLive
  <2>3. n > 0 /\ n + Keep <= Len(msgs[o]) /\ seen[t] = covered[o] \cup Elems(SubSeq(msgs[o], 1, n))
    BY DEF Promising, MeasureInv, Measured
  <2>4. n \in 1 .. Len(msgs[o])
    BY <2>3, <1>t
  <2>5. PICK m \in n .. Len(msgs[o]) : /\ Kept(msgs[o], n) = SubSeq(msgs[o], m + 1, Len(msgs[o]))
                                       /\ \A i \in n + 1 .. m : msgs[o][i][1] # "user"
    BY <2>4, <1>t, KeptIsSuffix
  <2>6. seen[t] = covered[o] \cup {msgs[o][i] : i \in 1 .. n}
    BY <2>3, <2>4, <1>t, PrefixElems
  <2>7. msgs'[o] = Kept(msgs[o], n) /\ covered'[o] = seen[t] /\ written'[o] = written[o]
    BY <1>1, <1>2, <1>t DEF Apply
  <2>8. /\ Record!Filed
        /\ Shown' = [msgs |-> msgs'[o], covered |-> covered'[o], said |-> written'[o]]
    BY <1>1, <1>2, <1>4, <2>2, RecordFiled DEF Promising
  <2>9. m \in 1 .. Len(msgs[o])
    BY <2>4, <2>5
  <2> HIDE DEF n, o, t
  <2>10. Record!Summarise(n, m)
    BY <2>1, <2>3, <2>5, <2>6, <2>7, <2>8 DEF Record!Summarise
  <2> QED BY <2>1, <2>4, <2>9, <2>10
<1> QED BY <1>3, <1>4

LEMMA RecordReloads ==
  ASSUME Promising, ~deletedUnder, Restart
  PROVE  Record!Reload
<1>1. UNCHANGED <<disk, filed>> /\ behind' = FALSE /\ OnFile' = OnFile
  BY DEF Restart, OnFile
<1>t. /\ msgs \in [Objects -> Seq(Messages)] /\ covered \in [Objects -> SUBSET Messages]
      /\ written \in [Objects -> SUBSET Messages]
  BY DEF Promising, TypeInv, TypeOK, SessionTypes
<1>2. behind \/ OnFile = Shown
  <2>1. ASSUME ~behind PROVE OnFile = Shown
    <3>1. Filed
      BY <2>1 DEF Promising, FileInv
    <3>2. CASE current = None
      BY <3>1, <3>2 DEF Filed, OnFile, Shown
    <3>3. CASE current # None
      <4>1. disk # None
        <5>1. current \in Objects
          BY <3>3, ObjectLeft DEF Promising
        <5>2. Image(current) \in Files
          BY <1>t, <5>1 DEF Image, Files
        <5> QED BY <3>1, <3>3, <5>2, NoneAssumption DEF Filed
      <4> QED BY <3>1, <3>3, <4>1 DEF Filed, Image, OnFile, Shown
    <3> QED BY <3>2, <3>3
  <2> QED BY <2>1 DEF Promising, TypeInv, TypeOK, FlagTypes
<1>3. Shown' = OnFile
  <2>1. CASE disk = None
    BY <2>1 DEF Restart, Shown, OnFile
  <2>2. CASE disk # None
    <3>1. made + 1 \in Objects /\ made + 1 # None
      BY ObjectLeft DEF Promising, Restart
    <3>2. /\ msgs'[made + 1] = disk.msgs /\ covered'[made + 1] = disk.covered /\ written'[made + 1] = filed
          /\ current' = made + 1
      BY <1>t, <2>2, <3>1 DEF Restart
    <3> QED BY <2>2, <3>1, <3>2 DEF Shown, OnFile
  <2> QED BY <2>1, <2>2
<1> QED BY <1>1, <1>2, <1>3 DEF Record!Reload

LEMMA RecordDeletes ==
  ASSUME Promising, Delete
  PROVE  Record!Delete
<1>1. Shown # None
  BY ShownIsRecord DEF Promising, Delete
<1>2. Shown' = None /\ Unlink
  BY DEF Delete, Shown
<1>3. CASE disk' = None /\ behind' = FALSE
  BY <1>1, <1>2, <1>3 DEF Record!Delete, Record!Filed, OnFile
<1>4. CASE UNCHANGED <<disk, filed>> /\ behind' = TRUE
  BY <1>1, <1>2, <1>4 DEF Record!Delete, Record!Filed, OnFile
<1> QED BY <1>2, <1>3, <1>4, FileWrites

LEMMA RecordStep ==
  ASSUME Promising, [Next]_vars
  PROVE  [Record!TranscriptNext]_(Record!transcriptVars)
<1>1. CASE (deletedUnder \/ overlap)'
  BY <1>1, Zenon DEF Record!TranscriptNext
<1>2. CASE ~(deletedUnder \/ overlap)'
  <2>0. ~deletedUnder' /\ ~overlap'
    BY <1>2, Zenon
  <2>1. ~overlap
    BY <2>0, OverlapStays DEF Promising
  <2>2. ~deletedUnder
    <3>1. CASE Delete
      BY <2>0, <3>1, DeletedUnderNobody DEF Promising, TypeInv, TypeOK
    <3> QED BY <2>0, <3>1, UnderChanges
  <2> DEFINE Moves == \/ Record!Open \/ Record!Delete \/ Record!Reload
                      \/ \E role \in Record!Roles, t \in Turns : Record!Say(role, t)
                      \/ Shown # None /\ \E n \in 1 .. Len(Shown.msgs), m \in 1 .. Len(Shown.msgs) : Record!Summarise(n, m)
  <2>4. ASSUME NEW t \in Turns, NEW q \in Engines, Open(t, q) PROVE Still \/ Moves
    BY <2>4, RecordOpens
  <2>5. ASSUME NEW t \in Turns, NEW role \in {"user", "assistant"}, Speaks(t, role) PROVE Moves
    BY <2>2, <2>5, RecordSays DEF Record!Roles
  <2>6. ASSUME NEW q \in slot, snap[running[q]] > 0, Apply(running[q]) PROVE Still \/ Moves
    BY <2>1, <2>6, RecordSummarises
  <2>7. ASSUME Delete \/ Restart PROVE Moves
    BY <2>2, <2>7, RecordDeletes, RecordReloads
  <2> HIDE DEF Moves
  <2>9. Still \/ Moves
    <3>1. ASSUME NEW t \in Turns, MovesOn(t) PROVE Still
      BY <3>1, RecordStill DEF MovesOn
    <3> QED BY <2>4, <2>5, <2>6, <2>7, <3>1, RecordStill, SpeechChanges
  <2>10. CASE Still
    <3>1. (deletedUnder \/ overlap)' = (deletedUnder \/ overlap)
      BY <2>0, <2>1, <2>2, Zenon
    <3> QED BY <2>10, <3>1, Zenon DEF Still, Record!transcriptVars
  <2>11. CASE Moves
    BY <2>0, <2>1, <2>2, <2>11, Zenon DEF Moves, Record!TranscriptNext
  <2> QED BY <2>9, <2>10, <2>11
<1> QED BY <1>1, <1>2

(***************************************************************************)
(* The sessions keep the promise of the transcript, whatever turns cross,  *)
(* take each other's lease, fail or are cut, whenever a compaction is      *)
(* applied or the server restarts, and whichever writes of the file fail:  *)
(* what was said is on record in its order, once, each answer after its    *)
(* question; only a summary that covers it or a deletion takes it away;    *)
(* the file is the record or, after a write that failed, an earlier one,   *)
(* and that is all a restart can lose (session_manager.py:262-290,         *)
(* 528-585, 659-671).                                                      *)
(***************************************************************************)
THEOREM ConversationKeepsTranscript == Spec => ImplementsTranscript
<1>1. Init => Record!TranscriptInit /\ MeasureInv /\ SpokenInv
  <2>1. Init => MeasureInv /\ SpokenInv
    BY DEF Init, MeasureInv, SpokenInv, SpokenSoFar, Told
  <2>2. Init => Shown = None /\ OnFile = None /\ behind = FALSE /\ (deletedUnder \/ overlap) = FALSE
    BY Zenon DEF Init, Shown, OnFile
  <2> QED BY <2>1, <2>2 DEF Record!TranscriptInit
<1>2. TypeInv /\ FileInv /\ MeasureInv /\ SpokenInv /\ [Next]_vars
      => [Record!TranscriptNext]_(Record!transcriptVars)
  BY RecordStep DEF Promising
<1> QED BY <1>1, <1>2, TypeInit, TypeStep, FileInit, FileStep, MeasureStep, SpokenStep, PTL
    DEF Spec, ImplementsTranscript, Record!TranscriptSpec

=============================================================================
