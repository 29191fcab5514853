--------------------------- MODULE TurnRun_proofs ---------------------------
(***************************************************************************)
(* Proofs about TurnRun, for either door and any number of newer turns.    *)
(***************************************************************************)
EXTENDS TurnRun, FiniteSetTheorems, WellFoundedInduction, TLAPS

-----------------------------------------------------------------------------
(* The order of the steps.                                                 *)

LEMMA StepsByName ==
  Steps = {"validate", "authorize", "sanitize", "session", "persist_user_turn", "intent", "recall",
           "clock", "system_prompt", "engine", "budget", "generate", "postprocess",
           "persist_assistant_turn", "memory.write", "emit", "describe_image", "compact"}
<1> DEFINE Names == {"validate", "authorize", "sanitize", "session", "persist_user_turn", "intent", "recall",
           "clock", "system_prompt", "engine", "budget", "generate", "postprocess",
           "persist_assistant_turn", "memory.write", "emit", "describe_image", "compact"}
<1>1. \A i \in 1 .. 18 : TurnSteps[i] \in Names
  BY DEF TurnSteps
<1>2. \A s \in Names : \E i \in 1 .. 18 : TurnSteps[i] = s
  BY DEF TurnSteps
<1> HIDE DEF Names
<1>3. Steps \subseteq Names
  BY <1>1, Zenon DEF Steps
<1>4. Names \subseteq Steps
  BY <1>2, Zenon DEF Steps
<1>5. Steps = Names
  BY <1>3, <1>4, Zenon
<1> QED BY <1>5 DEF Names

\* A step has one place.
LEMMA OnePlace == ASSUME NEW i \in 1 .. 18, NEW j \in 1 .. 18, TurnSteps[i] = TurnSteps[j] PROVE i = j
  BY DEF TurnSteps

LEMMA IndexOf == ASSUME NEW i \in 1 .. 18 PROVE Index(TurnSteps[i]) = i
<1>1. \E j \in 1 .. 18 : TurnSteps[j] = TurnSteps[i]
  OBVIOUS
<1>2. Index(TurnSteps[i]) \in 1 .. 18 /\ TurnSteps[Index(TurnSteps[i])] = TurnSteps[i]
  BY <1>1 DEF Index
<1> QED BY <1>2, OnePlace

LEMMA Places ==
  /\ \A s \in Steps : Index(s) \in 1 .. 18
  /\ \A s, t \in Steps : Index(s) = Index(t) => s = t
  /\ Index("persist_user_turn") = 5 /\ Index("intent") = 6 /\ Index("engine") = 10
  /\ Index("budget") = 11 /\ Index("generate") = 12
  /\ Index("persist_assistant_turn") = 14 /\ Index("memory.write") = 15 /\ Index("emit") = 16
  /\ Index("describe_image") = 17 /\ Index("compact") = 18
<1>1. \A s \in Steps : \E i \in 1 .. 18 : s = TurnSteps[i] /\ Index(s) = i
  BY IndexOf DEF Steps
<1>2. /\ TurnSteps[5] = "persist_user_turn" /\ TurnSteps[6] = "intent" /\ TurnSteps[10] = "engine"
      /\ TurnSteps[11] = "budget" /\ TurnSteps[12] = "generate"
      /\ TurnSteps[14] = "persist_assistant_turn" /\ TurnSteps[15] = "memory.write" /\ TurnSteps[16] = "emit"
      /\ TurnSteps[17] = "describe_image" /\ TurnSteps[18] = "compact"
  BY DEF TurnSteps
<1>3. \A i \in 1 .. 18 : Index(TurnSteps[i]) = i
  BY IndexOf
<1>4. \A s \in Steps : Index(s) \in 1 .. 18
  BY <1>1
<1>5. \A s, t \in Steps : Index(s) = Index(t) => s = t
  BY <1>1
<1>6. /\ Index(TurnSteps[5]) = 5 /\ Index(TurnSteps[6]) = 6 /\ Index(TurnSteps[10]) = 10
      /\ Index(TurnSteps[11]) = 11 /\ Index(TurnSteps[12]) = 12
      /\ Index(TurnSteps[14]) = 14 /\ Index(TurnSteps[15]) = 15 /\ Index(TurnSteps[16]) = 16
      /\ Index(TurnSteps[17]) = 17 /\ Index(TurnSteps[18]) = 18
  BY <1>3
<1> QED BY <1>2, <1>4, <1>5, <1>6

-----------------------------------------------------------------------------
(* The record.                                                             *)

Record == [steps : SUBSET Steps, fell : SUBSET Steps, pending : SUBSET PostCommit, final : BOOLEAN]

LEMMA OldRecordType == ASSUME TypeOK PROVE OldRecord \in Record
<1>1. NewRecord \in Record
  BY DEF NewRecord, Record
<1>2. record # NoRecord => record \in Record
  BY DEF TypeOK, Record
<1> QED BY <1>1, <1>2 DEF OldRecord

LEMMA FieldSet ==
  ASSUME NEW a, NEW b, NEW c, NEW d, NEW x, NEW r, r = [steps |-> a, fell |-> b, pending |-> c, final |-> d]
  PROVE  /\ [r EXCEPT !.steps = x] = [steps |-> x, fell |-> b, pending |-> c, final |-> d]
         /\ [r EXCEPT !.fell = x] = [steps |-> a, fell |-> x, pending |-> c, final |-> d]
         /\ [r EXCEPT !.pending = x] = [steps |-> a, fell |-> b, pending |-> x, final |-> d]
         /\ [r EXCEPT !.final = x] = [steps |-> a, fell |-> b, pending |-> c, final |-> x]
  BY SMT

LEMMA FieldsSet ==
  ASSUME NEW r \in Record, NEW x, NEW y, NEW z
  PROVE  [r EXCEPT !.steps = x, !.fell = y, !.pending = z] = [steps |-> x, fell |-> y, pending |-> z, final |-> r.final]
<1> DEFINE r1 == [r EXCEPT !.steps = x]
           r2 == [r1 EXCEPT !.fell = y]
           r3 == [r2 EXCEPT !.pending = z]
<1>1. [r EXCEPT !.steps = x, !.fell = y, !.pending = z] = r3
  OBVIOUS
<1>2. r = [steps |-> r.steps, fell |-> r.fell, pending |-> r.pending, final |-> r.final]
  BY DEF Record
<1>3. r1 = [steps |-> x, fell |-> r.fell, pending |-> r.pending, final |-> r.final]
  BY <1>2, FieldSet
<1> HIDE DEF r1
<1>4. r2 = [steps |-> x, fell |-> y, pending |-> r.pending, final |-> r.final]
  BY <1>3, FieldSet
<1> HIDE DEF r2
<1>5. r3 = [steps |-> x, fell |-> y, pending |-> z, final |-> r.final]
  BY <1>4, FieldSet
<1> QED BY <1>1, <1>5

LEMMA FinishedIs ==
  ASSUME NEW r \in Record
  PROVE  /\ Finished(r) \in Record
         /\ Finished(r).steps = r.steps /\ Finished(r).fell = r.fell /\ Finished(r).pending = r.pending
         /\ Finished(r).final <=> r.steps # {} /\ r.pending = {} /\ ("emit" \in r.steps \/ r.fell # {})
<1> DEFINE d == Done(r)
<1>1. d \in BOOLEAN
  BY DEF Done
<1>2. d <=> r.steps # {} /\ r.pending = {} /\ ("emit" \in r.steps \/ r.fell # {})
  BY DEF Done
<1>3. Finished(r) = [r EXCEPT !.final = d]
  BY DEF Finished
<1> HIDE DEF d
<1>4. PICK a \in SUBSET Steps, b \in SUBSET Steps, c \in SUBSET PostCommit, f \in BOOLEAN :
        r = [steps |-> a, fell |-> b, pending |-> c, final |-> f]
  BY DEF Record
<1>5. Finished(r) = [steps |-> a, fell |-> b, pending |-> c, final |-> d]
  BY <1>3, <1>4, FieldSet
<1>6. [steps |-> a, fell |-> b, pending |-> c, final |-> d] \in Record
  BY <1>1 DEF Record
<1> QED BY <1>1, <1>2, <1>4, <1>5, <1>6

\* What on_step leaves in the record.
LEMMA OnStepIs ==
  ASSUME TypeOK, NEW S \in SUBSET Steps, NEW F \in SUBSET Steps
  PROVE  /\ OnStep(S, F) \in Record
         /\ OnStep(S, F).steps = OldRecord.steps \cup S
         /\ OnStep(S, F).fell = (OldRecord.fell \ S) \cup F
         /\ OnStep(S, F).pending = OldRecord.pending \ S
         /\ OnStep(S, F).final <=> /\ OldRecord.steps \cup S # {}
                                   /\ OldRecord.pending \ S = {}
                                   /\ "emit" \in OldRecord.steps \cup S \/ (OldRecord.fell \ S) \cup F # {}
<1> DEFINE r == OldRecord
           u == [r EXCEPT !.steps = r.steps \cup S, !.fell = (r.fell \ S) \cup F, !.pending = r.pending \ S]
<1>1. r \in Record
  BY OldRecordType
<1>2. OnStep(S, F) = Finished(u)
  BY DEF OnStep
<1> HIDE DEF r
<1>4. u = [steps |-> r.steps \cup S, fell |-> (r.fell \ S) \cup F, pending |-> r.pending \ S, final |-> r.final]
  BY <1>1, FieldsSet, Zenon
<1>6. u \in Record
  BY <1>1, <1>4 DEF Record
<1> HIDE DEF u
<1>7. u.steps = r.steps \cup S /\ u.fell = (r.fell \ S) \cup F /\ u.pending = r.pending \ S
  BY <1>4
<1> QED BY <1>2, <1>6, <1>7, FinishedIs DEF r

\* ...and on_turn.
LEMMA OnTurnIs ==
  ASSUME NEW r \in Record, NEW P \in SUBSET PostCommit
  PROVE  /\ OnTurn(r, P) \in Record
         /\ OnTurn(r, P).steps = r.steps /\ OnTurn(r, P).fell = r.fell
         /\ OnTurn(r, P).pending = P \ r.steps
         /\ OnTurn(r, P).final <=> /\ r.steps # {} /\ P \ r.steps = {}
                                   /\ "emit" \in r.steps \/ r.fell # {}
<1> DEFINE u == [r EXCEPT !.pending = P \ r.steps]
<1>1. OnTurn(r, P) = Finished(u)
  BY DEF OnTurn
<1>2. PICK a \in SUBSET Steps, b \in SUBSET Steps, c \in SUBSET PostCommit, f \in BOOLEAN :
        r = [steps |-> a, fell |-> b, pending |-> c, final |-> f]
  BY DEF Record
<1> DEFINE p == P \ r.steps
<1>3. [r EXCEPT !.pending = p] = [steps |-> a, fell |-> b, pending |-> p, final |-> f]
  <2> HIDE DEF p
  <2> QED BY <1>2, FieldSet
<1>4. r.steps = a /\ r.fell = b
  BY <1>2
<1>5. u \in Record
  BY <1>3 DEF Record
<1>6. u.steps = r.steps /\ u.fell = r.fell /\ u.pending = P \ r.steps
  BY <1>3, <1>4
<1> HIDE DEF u
<1> QED BY <1>1, <1>5, <1>6, FinishedIs

-----------------------------------------------------------------------------
(* The invariant.  While the turn walks, the step at work and those after  *)
(* it (Todo) have no outcome and the record says nothing of them; once it  *)
(* is over its outcomes no longer change, and what is still pending in the *)
(* record is what the queue still has.                                     *)

Todo == left \cup ({at} \ {NoStep})
Kept == {"persist_user_turn", "persist_assistant_turn", "emit"}
Went == {"ok", "degraded", "short_circuit", "skipped"}

\* MemoryAfterDisk, told from the outcomes alone: Commits says what they are worth.
MemoryOrder ==
  /\ outcome["intent"] \in {"ok", "degraded", "short_circuit"} => outcome["persist_user_turn"] = "ok"
  /\ at = "memory.write" \/ outcome["memory.write"] \in {"ok", "degraded", "cancelled"}
       => outcome["persist_user_turn"] = "ok" /\ outcome["persist_assistant_turn"] = "ok" /\ ~partial
  /\ jobs # {} => outcome["emit"] = "ok" /\ ~partial

Walk ==
  /\ ~said /\ jobs = {}
  /\ at = NoStep => phase = "ready"
  /\ phase = "ready" => at \in {NoStep, "generate", "emit"}
  /\ phase = "handler" /\ streaming => at \in Prefix
  /\ phase # "handler" => streaming
  /\ phase # "body" => ~partial
  /\ \A s \in left : at # NoStep => Index(at) < Index(s)
  /\ "emit" \in Todo
  /\ \A s \in Steps \ Todo : outcome[s] \in Went
  /\ \A s \in {"persist_user_turn", "persist_assistant_turn"} : s \in Todo \/ outcome[s] = "ok"
  /\ \A s \in Todo, t \in Steps : Index(s) <= Index(t) => outcome[t] \in {"none", "skipped"}
  /\ at = "memory.write" \/ outcome["memory.write"] \in {"ok", "degraded"} => ~partial
  /\ record # NoRecord => record.steps \cap Todo = {} /\ record.fell = {} /\ record.pending = {} /\ ~record.final

Recorded ==
  record # NoRecord =>
    /\ record.pending = jobs
    /\ record.final <=> record.steps # {} /\ record.pending = {} /\ ("emit" \in record.steps \/ record.fell # {})
    /\ "emit" \in record.steps \/ record.fell # {} <=> outcome["emit"] # "none" \/ Fell
    /\ jobs # {} => "emit" \in record.steps
    /\ record.fell # {} => record.steps # {}

Over ==
  /\ at = NoStep /\ left = {}
  /\ MemoryOrder /\ CutSpendsNothing /\ WholeTrace
  /\ RanItsCourse => outcome["persist_assistant_turn"] = "ok"
  /\ lease => unread
  /\ Recorded

\* What the step of the commit has come to, written at once or put down.
Commits ==
  /\ ~Deferred => ~owed /\ commits = IF outcome["persist_assistant_turn"] = "ok" THEN 1 ELSE 0
  /\ Deferred => /\ commits \in {0, 1} /\ (owed => commits = 0)
                 /\ owed \/ commits = 1 => outcome["persist_assistant_turn"] = "ok"
                 /\ phase # "closed" => commits = 0
                 /\ phase = "closed" /\ (owed \/ commits = 1) => outcome["emit"] = "ok"

TurnInv ==
  /\ TypeOK /\ Commits
  /\ phase # "closed" => Walk
  /\ phase = "closed" => Over

LEMMA FirstIs ==
  ASSUME NEW L \in SUBSET Steps, L # {}
  PROVE  First(L) \in L /\ \A t \in L : Index(First(L)) <= Index(t)
<1> DEFINE places == {Index(s) : s \in L}
<1>1. places \subseteq Nat /\ places # {}
  BY Places
<1>2. PICK n \in places : \A m \in places : <<m, n>> \notin OpToRel(<, Nat)
  BY <1>1, NatLessThanWellFounded, WFMin, Zenon
<1>3. \A m \in places : ~(m < n)
  BY <1>1, <1>2, Zenon DEF OpToRel
<1>4. \E s \in L : \A t \in L : Index(s) <= Index(t)
  BY <1>1, <1>3
<1> QED BY <1>4 DEF First

LEMMA Sorts ==
  /\ PostCommit = {"describe_image", "compact"} /\ PostCommit \subseteq Steps
  /\ Kept \subseteq Steps /\ Kept \cap PostCommit = {}
  /\ \A s \in Kept, b \in BOOLEAN : ~Declined(s, b)
  /\ Declined("memory.write", TRUE)
  /\ \A s \in PostCommit : Declined(s, TRUE)
  /\ \A s \in Steps : Index(s) > 16 => s \in PostCommit
  /\ "memory.write" \in Steps /\ "intent" \in Steps /\ "generate" \in Steps /\ "emit" \in Steps
  /\ Prefix \subseteq Steps /\ \A s \in Prefix : Index(s) < 12
<1>1. PostCommit = {"describe_image", "compact"} /\ PostCommit \subseteq Steps
  BY StepsByName DEF PostCommit
<1>2. Kept \subseteq Steps /\ Kept \cap PostCommit = {}
  BY <1>1, StepsByName DEF Kept
<1>3. \A s \in Kept, b \in BOOLEAN : ~Declined(s, b)
  BY DEF Kept, Declined, SkipOnResume
<1>4. Declined("memory.write", TRUE) /\ \A s \in PostCommit : Declined(s, TRUE)
  BY <1>1 DEF Declined
<1>5. \A s \in Steps : Index(s) > 16 => s \in PostCommit
  <2> SUFFICES ASSUME NEW s \in Steps, Index(s) > 16 PROVE s \in PostCommit
    OBVIOUS
  <2>1. Index(s) = Index("describe_image") \/ Index(s) = Index("compact")
    BY Places
  <2>2. "describe_image" \in Steps /\ "compact" \in Steps
    BY StepsByName
  <2> QED BY <2>1, <2>2, <1>1, Places
<1>6. "memory.write" \in Steps /\ "intent" \in Steps /\ "generate" \in Steps /\ "emit" \in Steps
  BY StepsByName
<1>7. Prefix \subseteq Steps /\ \A s \in Prefix : Index(s) < 12
  BY Places DEF Prefix
<1> QED BY <1>1, <1>2, <1>3, <1>4, <1>5, <1>6, <1>7

-----------------------------------------------------------------------------
(* A step ends and the walk goes on (GoOn).                                *)

\* What the end of a step may be, whichever of the actions it is.
Ends(o, S, broken) ==
  /\ phase \notin {"ready", "closed"} /\ at # NoStep
  /\ o \in {"ok", "degraded", "short_circuit"}
  /\ at \in Kept => o = "ok"
  /\ S \subseteq left /\ Kept \cap S = {}
  /\ broken \in BOOLEAN
  /\ broken = partial \/ (at = "generate" /\ phase = "body")
  /\ GoOn(o, S, left \ S, broken)

\* With the last words still to come, nothing is handed to the queue; they are
\* next after the steps that are passed by.
LEMMA PassedBefore ==
  ASSUME NEW L \in SUBSET Steps, NEW broken \in BOOLEAN
  PROVE  /\ Passed(L, broken) \subseteq L /\ Handed(L, broken) \subseteq Passed(L, broken) \cap PostCommit
         /\ Kept \cap Passed(L, broken) = {}
         /\ "emit" \in L => Handed(L, broken) = {}
         /\ L \subseteq PostCommit => Passed(L, broken) = L
         /\ broken => Handed(L, broken) = {}
         /\ \A s \in L : (\A t \in L \ Passed(L, broken) : Index(s) <= Index(t)) /\ Declined(s, broken)
                      => s \in Passed(L, broken)
<1> DEFINE P == Passed(L, broken)
<1>1. P \subseteq L /\ Handed(L, broken) \subseteq P \cap PostCommit
  BY DEF Passed, Handed
<1>2. \A s \in P : Declined(s, broken) \/ s \in PostCommit
  <2> SUFFICES ASSUME NEW s \in P PROVE Declined(s, broken) \/ s \in PostCommit
    OBVIOUS
  <2>1. s \in L /\ Index(s) \in 1 .. 18
    BY <1>1, Places
  <2> QED BY <2>1 DEF Passed
<1>3. Kept \cap P = {}
  BY <1>2, Sorts
<1>4. "emit" \in L => Handed(L, broken) = {}
  <2> SUFFICES ASSUME "emit" \in L, NEW s \in Handed(L, broken) PROVE FALSE
    OBVIOUS
  <2>1. s \in L /\ s \in PostCommit
    BY <1>1
  <2>2. Index("emit") <= Index(s)
    BY <2>1, Sorts, Places
  <2>3. Declined("emit", broken) \/ "emit" \in PostCommit
    BY <1>1, <2>2 DEF Passed
  <2> QED BY <2>3, Sorts DEF Kept
<1>5. L \subseteq PostCommit => P = L
  BY DEF Passed
<1>6. broken => Handed(L, broken) = {}
  BY Sorts DEF Handed
<1>7. ASSUME NEW s \in L, \A t \in L \ P : Index(s) <= Index(t), Declined(s, broken)
      PROVE  s \in P
  <2> SUFFICES ASSUME NEW t \in L, Index(t) <= Index(s) PROVE Declined(t, broken) \/ t \in PostCommit
    BY DEF Passed
  <2>1. CASE t \in P
    BY <2>1, <1>2
  <2>2. CASE t \notin P
    <3>1. t = s
      BY <2>2, <1>7, Places
    <3> QED BY <3>1, <1>7
  <2> QED BY <2>1, <2>2
<1> QED BY <1>1, <1>3, <1>4, <1>5, <1>6, <1>7

\* Until emit has ended, the turn walks on.
LEMMA WalksOn ==
  ASSUME TypeOK, Walk, NEW o, NEW S, NEW broken, Ends(o, S, broken), at # "emit",
         lease' \in BOOLEAN, commits' \in Nat, owed' \in BOOLEAN
  PROVE  TypeOK' /\ phase' # "closed" /\ Walk' /\ (outcome'["persist_assistant_turn"] = "ok" <=> outcome["persist_assistant_turn"] = "ok" \/ at = "persist_assistant_turn")
<1> DEFINE L == left \ S
           P == Passed(L, broken)
           rest == L \ P
           f == First(rest)
<1>1. /\ L \in SUBSET Steps /\ S \subseteq Steps /\ at \in Steps /\ broken \in BOOLEAN
      /\ left \subseteq Steps /\ at \notin left /\ at # NoStep /\ NoStep \notin Steps
  BY NoStepAssumption DEF TypeOK, Ends
<1>2. "emit" \in L
  BY <1>1 DEF Walk, Todo, Ends, Kept
<1>3. P \subseteq L /\ Kept \cap P = {} /\ Handed(L, broken) = {}
  BY <1>1, <1>2, PassedBefore
<1>4. "emit" \in rest
  BY <1>2, <1>3 DEF Kept
<1>5. f \in rest /\ \A t \in rest : Index(f) <= Index(t)
  BY <1>1, <1>4, FirstIs
<1>6. ~Declined(f, broken)
  <2> SUFFICES ASSUME Declined(f, broken) PROVE FALSE
    OBVIOUS
  <2>1. f \in L
    BY <1>5
  <2> HIDE DEF f
  <2>2. \A s \in L : (\A t \in L \ P : Index(s) <= Index(t)) /\ Declined(s, broken) => s \in P
    <3>1. L \in SUBSET Steps /\ broken \in BOOLEAN
      BY <1>1
    <3> HIDE DEF L
    <3> QED BY <3>1, PassedBefore
  <2>3. f \in P
    BY <1>5, <2>1, <2>2
  <2> QED BY <1>5, <2>3
<1>7. /\ outcome' = Outcomes(o, S \cup P, {})
      /\ partial' = broken /\ jobs' = jobs /\ said' = said
      /\ Begin(f, rest)
      /\ record' = OnStep({at} \cup (S \cup P), {})
      /\ UNCHANGED <<request, unread, others>>
  BY <1>3, <1>4 DEF Ends, GoOn
<1> HIDE DEF L, P, rest, f
<1>8. /\ rest = left \ (S \cup P) /\ S \cup P \subseteq left /\ rest \subseteq Steps
      /\ P \cap Kept = {} /\ S \cap Kept = {}
  BY <1>1, <1>3 DEF L, rest, Ends
<1>9. \/ phase' = "ready" /\ at' = NoStep /\ left' = rest /\ phase = "handler"
      \/ phase' = "first" /\ at' = f /\ left' = rest \ {f} /\ phase = "handler"
      \/ phase' = phase /\ at' = f /\ left' = rest \ {f} /\ (phase = "handler" /\ streaming => f \in Prefix)
  BY <1>7 DEF Begin
<1>10. left' \cup ({at'} \ {NoStep}) = rest /\ phase' # "closed" /\ left' \subseteq rest \ {at'} /\ phase \in {"handler", "first", "body"} \cup {"ready"}
  BY <1>1, <1>5, <1>8, <1>9 DEF Ends, TypeOK
<1>11. /\ outcome' \in [Steps -> {"none", "ok", "degraded", "short_circuit", "failed", "cancelled", "skipped", "queued"}]
       /\ outcome'[at] = o
       /\ \A s \in S \cup P : outcome'[s] = "skipped"
       /\ \A s \in Steps \ ({at} \cup S \cup P) : outcome'[s] = outcome[s]
  <2>1. \A s \in S \cup P : outcome[s] = "none" /\ s # at
    BY <1>1, <1>8 DEF TypeOK
  <2>2. outcome \in [Steps -> {"none", "ok", "degraded", "short_circuit", "failed", "cancelled", "skipped", "queued"}]
    BY DEF TypeOK
  <2>3. outcome' = [s \in Steps |-> IF s = at THEN o
                   ELSE IF s \in {} THEN "queued"
                   ELSE IF s \in S \cup P /\ outcome[s] = "none" THEN "skipped" ELSE outcome[s]]
    BY <1>7 DEF Outcomes
  <2>4. o \in {"ok", "degraded", "short_circuit"}
    BY DEF Ends
  <2> QED BY <1>1, <1>8, <2>1, <2>2, <2>3, <2>4
<1>12. \A s \in rest : outcome'[s] = "none"
  BY <1>1, <1>8, <1>11 DEF TypeOK
<1>13. OnStep({at} \cup (S \cup P), {}) \in Record
  <2>1. {at} \cup (S \cup P) \in SUBSET Steps /\ {} \in SUBSET Steps
    BY <1>1, <1>8
  <2> QED BY <2>1, OnStepIs, ZenonT(40)
<1>14. TypeOK'
  <2>1. door' = door /\ streaming' = streaming /\ resume' = resume /\ unread' = unread /\ others' = others
    BY <1>7 DEF request
  <2>2. phase' \in {"handler", "first", "ready", "body", "closed"} /\ at' \in Steps \cup {NoStep} /\ left' \subseteq Steps \ {at'}
    BY <1>1, <1>5, <1>8, <1>9, <1>10 DEF TypeOK
  <2>3. \A s \in left' \cup {at'} : s \in Steps => outcome'[s] = "none"
    BY <1>1, <1>10, <1>12
  <2>4. partial' \in BOOLEAN /\ said' \in BOOLEAN /\ jobs' \subseteq PostCommit
    BY <1>1, <1>7 DEF TypeOK
  <2>5. record' \in [steps : SUBSET Steps, fell : SUBSET Steps, pending : SUBSET PostCommit, final : BOOLEAN] \cup {NoRecord}
    BY <1>7, <1>13 DEF Record
  <2>6. door' \in Doors /\ streaming' \in BOOLEAN /\ resume' \in BOOLEAN /\ unread' \in BOOLEAN /\ others' \in 0 .. MaxOthers
    BY <2>1 DEF TypeOK
  <2> QED BY <2>2, <2>3, <2>4, <2>5, <2>6, <1>11 DEF TypeOK
<1>15. Walk'
  <2>1. Todo' = rest /\ streaming' = streaming /\ f \in Steps /\ f # NoStep
    BY <1>1, <1>5, <1>7, <1>8, <1>10 DEF Todo, request
  <2>2. ~said' /\ jobs' = {}
    BY <1>7 DEF Walk
  <2>3. at' = NoStep => phase' = "ready"
    BY <1>9, <2>1
  <2>4. phase' = "ready" => at' \in {NoStep, "generate", "emit"}
    BY <1>9 DEF Ends
  <2>5. phase' = "handler" /\ streaming' => at' \in Prefix
    BY <1>9, <2>1
  <2>6. \A s \in left' : at' # NoStep => Index(at') < Index(s)
    <3> SUFFICES ASSUME NEW s \in left', at' # NoStep PROVE Index(at') < Index(s)
      OBVIOUS
    <3>1. at' = f /\ s \in rest /\ s # f /\ s \in Steps /\ f \in Steps
      BY <1>8, <1>9, <2>1
    <3>2. Index(f) <= Index(s) /\ Index(f) # Index(s) /\ Index(f) \in 1 .. 18 /\ Index(s) \in 1 .. 18
      BY <1>5, <3>1, Places
    <3> QED BY <3>1, <3>2
  <2>7. "emit" \in Todo'
    BY <1>4, <2>1
  <2>8. \A s \in Steps \ Todo' : outcome'[s] \in Went
    BY <1>1, <1>8, <1>11, <2>1 DEF Walk, Todo, Ends, Went
  <2>9. \A s \in {"persist_user_turn", "persist_assistant_turn"} : s \in Todo' \/ outcome'[s] = "ok"
    <3> SUFFICES ASSUME NEW s \in {"persist_user_turn", "persist_assistant_turn"} PROVE s \in rest \/ outcome'[s] = "ok"
      BY <2>1
    <3>1. s \in Kept /\ s \in Steps /\ s \notin S \cup P
      BY <1>8, Sorts DEF Kept
    <3>2. s \in Todo \/ outcome[s] = "ok"
      BY DEF Walk
    <3> QED BY <1>8, <1>11, <3>1, <3>2 DEF Todo, Ends
  <2>10. \A s \in Todo', t \in Steps : Index(s) <= Index(t) => outcome'[t] \in {"none", "skipped"}
    <3> SUFFICES ASSUME NEW s \in rest, NEW t \in Steps, Index(s) <= Index(t) PROVE outcome'[t] \in {"none", "skipped"}
      BY <2>1
    <3>1. s \in left /\ s \in Todo /\ Index(at) < Index(s) /\ s \in Steps
      BY <1>1, <1>8 DEF Walk, Todo
    <3>2. t # at
      BY <3>1, <1>1, Places
    <3>3. outcome[t] \in {"none", "skipped"}
      BY <3>1 DEF Walk
    <3> QED BY <3>2, <3>3, <1>11
  <2>11. at' = "memory.write" \/ outcome'["memory.write"] \in {"ok", "degraded"} => ~partial'
    <3>1. CASE at' = "memory.write"
      BY <3>1, <1>1, <1>6, <1>7, <1>9, Sorts, NoStepAssumption
    <3>2. CASE outcome'["memory.write"] \in {"ok", "degraded"}
      <4>1. "memory.write" = at \/ outcome["memory.write"] \in {"ok", "degraded"}
        BY <3>2, <1>11, Sorts
      <4>2. ~partial
        BY <4>1 DEF Walk
      <4>3. at # "generate"
        <5> SUFFICES ASSUME at = "generate" PROVE FALSE
          OBVIOUS
        <5>1. outcome["memory.write"] \in {"none", "skipped"}
          BY <1>1, Places, Sorts DEF Walk, Todo
        <5> QED BY <4>1, <5>1
      <4> QED BY <4>2, <4>3, <1>1, <1>7 DEF Ends
    <3> QED BY <3>1, <3>2
  <2>12. record' # NoRecord => record'.steps \cap Todo' = {} /\ record'.fell = {} /\ record'.pending = {} /\ ~record'.final
    <3> DEFINE T == {at} \cup (S \cup P)
    <3>1. OldRecord.steps \cap Todo = {} /\ OldRecord.fell = {} /\ OldRecord.pending = {}
      BY DEF Walk, OldRecord, NewRecord
    <3>2. T \in SUBSET Steps /\ {} \in SUBSET Steps
      BY <1>1, <1>8
    <3>3. record' = OnStep(T, {})
      BY <1>7
    <3> HIDE DEF T
    <3>4. /\ record'.steps = OldRecord.steps \cup T
          /\ record'.fell = (OldRecord.fell \ T) \cup {}
          /\ record'.pending = OldRecord.pending \ T
          /\ record'.final <=> /\ OldRecord.steps \cup T # {}
                               /\ OldRecord.pending \ T = {}
                               /\ "emit" \in OldRecord.steps \cup T \/ (OldRecord.fell \ T) \cup {} # {}
      BY <3>2, <3>3, OnStepIs, ZenonT(40)
    <3>5. T \cap rest = {} /\ rest \subseteq Todo
      BY <1>1, <1>8 DEF T, Todo
    <3>6. record'.steps \cap rest = {}
      BY <3>1, <3>4, <3>5
    <3>7. "emit" \notin OldRecord.steps \cup T
      BY <3>4, <3>6, <1>4
    <3> QED BY <3>1, <3>4, <3>6, <3>7, <2>1
  <2>13. phase' # "body" => ~partial'
    BY <1>7, <1>9 DEF Walk, Ends
  <2>14. phase' # "handler" => streaming'
    BY <1>7, <2>1 DEF Begin, Walk
  <2> QED BY <2>1, <2>2, <2>3, <2>4, <2>5, <2>6, <2>7, <2>8, <2>9, <2>10, <2>11, <2>12, <2>13, <2>14 DEF Walk
<1>16. outcome'["persist_assistant_turn"] = "ok" <=> outcome["persist_assistant_turn"] = "ok" \/ at = "persist_assistant_turn"
  <2>1. "persist_assistant_turn" \in Kept /\ "persist_assistant_turn" \in Steps
    BY Sorts DEF Kept
  <2> QED BY <2>1, <1>8, <1>11 DEF Ends
<1> QED BY <1>10, <1>14, <1>15, <1>16

\* What is still to come once only the last words are is for the queue.
LEMMA AtEmit ==
  ASSUME TypeOK, Walk, at = "emit"
  PROVE  /\ left \subseteq PostCommit /\ Todo = left \cup {"emit"}
         /\ outcome["persist_user_turn"] = "ok" /\ outcome["persist_assistant_turn"] = "ok"
<1>1. at # NoStep /\ left \subseteq Steps
  BY Sorts, NoStepAssumption DEF TypeOK
<1>2. \A s \in left : Index(s) > 16
  BY <1>1, Places DEF Walk
<1>3. left \subseteq PostCommit
  BY <1>1, <1>2, Sorts
<1>4. Todo = left \cup {"emit"}
  BY <1>1 DEF Todo
<1>5. "persist_user_turn" \notin Todo /\ "persist_assistant_turn" \notin Todo
  BY <1>2, <1>4, Places
<1> QED BY <1>3, <1>4, <1>5 DEF Walk

\* With the last words out, the turn is over.
LEMMA ClosesAtEmit ==
  ASSUME TypeOK, Walk, Commits, NEW broken, Ends("ok", {}, broken), at = "emit", lease' = FALSE, commits' = commits, owed' = owed
  PROVE  TypeOK' /\ phase' = "closed" /\ Over' /\ Commits'
<1> DEFINE H == Handed(left, broken)
           told == OnStep({at} \cup (left \ H), {})
<1>1. /\ left \subseteq Steps /\ left \subseteq PostCommit /\ at \in Steps /\ at \notin left /\ Todo = left \cup {at}
      /\ broken \in BOOLEAN /\ broken = partial /\ NoStep \notin Steps
      /\ outcome["persist_user_turn"] = "ok" /\ outcome["persist_assistant_turn"] = "ok"
  BY AtEmit, NoStepAssumption DEF TypeOK, Ends
<1>2. Passed(left, broken) = left /\ H \subseteq left /\ H \subseteq PostCommit /\ (broken => H = {})
  BY <1>1, PassedBefore
<1>3. /\ outcome' = Outcomes("ok", {} \cup (left \ H), H)
      /\ partial' = broken /\ jobs' = jobs \cup H
      /\ Close /\ record' = OnTurn(OnStep({at} \cup ({} \cup (left \ H)), {}), H)
      /\ UNCHANGED <<request, unread, others>>
  <2>1. left \ {} = left /\ left \ left = {}
    OBVIOUS
  <2> QED BY <1>2, <2>1 DEF Ends, GoOn
<1>4. record' = OnTurn(told, H) /\ jobs' = H
  <2>1. {} \cup (left \ H) = left \ H
    OBVIOUS
  <2> QED BY <1>3, <2>1 DEF Walk
<1> HIDE DEF H, told
<1>5. /\ outcome' \in [Steps -> {"none", "ok", "degraded", "short_circuit", "failed", "cancelled", "skipped", "queued"}]
      /\ outcome'["emit"] = "ok"
      /\ \A s \in left : outcome'[s] \in {"queued", "skipped"}
      /\ \A s \in Steps \ ({at} \cup left) : outcome'[s] = outcome[s] /\ outcome[s] \in Went
  <2>1. \A s \in left : outcome[s] = "none" /\ s # at
    BY <1>1 DEF TypeOK
  <2>2. outcome \in [Steps -> {"none", "ok", "degraded", "short_circuit", "failed", "cancelled", "skipped", "queued"}]
    BY DEF TypeOK
  <2>3. outcome' = [s \in Steps |-> IF s = at THEN "ok"
                   ELSE IF s \in H THEN "queued"
                   ELSE IF s \in {} \cup (left \ H) /\ outcome[s] = "none" THEN "skipped" ELSE outcome[s]]
    BY <1>3 DEF Outcomes
  <2>4. \A s \in Steps \ ({at} \cup left) : outcome[s] \in Went
    BY <1>1 DEF Walk
  <2> QED BY <1>1, <1>2, <2>1, <2>2, <2>3, <2>4
<1>6. phase' = "closed" /\ at' = NoStep /\ left' = {} /\ said' = TRUE /\ partial' = partial /\ unread' = unread
  BY <1>1, <1>3 DEF Close, Shut
<1>7. /\ told \in Record /\ told.steps = OldRecord.steps \cup ({at} \cup (left \ H)) /\ told.fell = {}
  <2>1. {at} \cup (left \ H) \in SUBSET Steps /\ {} \in SUBSET Steps
    BY <1>1
  <2>2. OldRecord.fell = {}
    BY DEF Walk, OldRecord, NewRecord
  <2>3. told \in Record /\ told.steps = OldRecord.steps \cup ({at} \cup (left \ H))
        /\ told.fell = (OldRecord.fell \ ({at} \cup (left \ H))) \cup {}
    BY <2>1, OnStepIs, ZenonT(40) DEF told
  <2> QED BY <2>2, <2>3
<1>8. /\ record' \in Record /\ record'.steps = told.steps /\ record'.fell = told.fell
      /\ record'.pending = H \ told.steps
      /\ record'.final <=> told.steps # {} /\ H \ told.steps = {} /\ ("emit" \in told.steps \/ told.fell # {})
  <2>1. told \in Record /\ H \in SUBSET PostCommit
    BY <1>2, <1>7
  <2> QED BY <1>4, <2>1, OnTurnIs, Zenon
<1>9. OldRecord.steps \cap Todo = {}
  BY DEF Walk, OldRecord, NewRecord
<1>10. TypeOK'
  <2>1. door' \in Doors /\ streaming' \in BOOLEAN /\ resume' \in BOOLEAN /\ unread' \in BOOLEAN /\ others' \in 0 .. MaxOthers
    BY <1>3 DEF TypeOK, request
  <2>2. record' \in [steps : SUBSET Steps, fell : SUBSET Steps, pending : SUBSET PostCommit, final : BOOLEAN] \cup {NoRecord}
    BY <1>8 DEF Record
  <2>3. lease' \in BOOLEAN /\ said' \in BOOLEAN /\ partial' \in BOOLEAN /\ commits' \in Nat /\ owed' \in BOOLEAN /\ jobs' \subseteq PostCommit
    BY <1>1, <1>2, <1>4, <1>6 DEF TypeOK
  <2> QED BY <1>1, <1>5, <1>6, <2>1, <2>2, <2>3 DEF TypeOK
<1>11. outcome'["persist_user_turn"] = "ok" /\ outcome'["persist_assistant_turn"] = "ok"
  <2>1. \A s \in {"persist_user_turn", "persist_assistant_turn"} : s \in Steps \ ({at} \cup left)
    BY <1>1, Sorts DEF Kept
  <2> QED BY <1>1, <1>5, <2>1
<1>12. Commits'
  <2>1. door' = door /\ streaming' = streaming /\ commits' = commits /\ owed' = owed
    BY <1>3 DEF request
  <2>2. phase # "closed" /\ phase' = "closed"
    BY <1>6 DEF Ends
  <2> QED BY <1>1, <1>5, <1>11, <2>1, <2>2 DEF Commits, Deferred
<1>13. \A s \in Steps : outcome'[s] \in {"ok", "degraded", "short_circuit", "skipped", "queued"}
  BY <1>1, <1>5 DEF Went
<1>14. MemoryOrder'
  <2>1. \A s \in {"intent", "memory.write"} : s \in Steps \ ({at} \cup left)
    <3>1. "intent" \notin left /\ "memory.write" \notin left
      BY <1>1, Sorts
    <3> QED BY <3>1, Sorts
  <2>2. outcome'["memory.write"] \in {"ok", "degraded", "cancelled"} => ~partial
    BY <1>5, <2>1 DEF Walk, Went
  <2>3. jobs' # {} => ~partial
    BY <1>1, <1>2, <1>4
  <2>4. at' # "memory.write"
    BY <1>1, <1>6, Sorts
  <2> QED BY <1>5, <1>6, <1>11, <2>2, <2>3, <2>4 DEF MemoryOrder
<1>15. CutSpendsNothing' /\ WholeTrace'
  BY <1>13 DEF CutSpendsNothing, WholeTrace
<1>16. Recorded'
  <2>1. "emit" \in told.steps /\ told.steps # {}
    BY <1>7
  <2>2. H \cap told.steps = {}
    BY <1>1, <1>2, <1>7, <1>9
  <2>3. jobs' = record'.pending
    BY <1>4, <1>8, <2>2
  <2>4. record'.steps = told.steps
    BY <1>8
  <2> QED BY <1>5, <1>8, <2>1, <2>3, <2>4 DEF Recorded
<1> QED BY <1>6, <1>10, <1>12, <1>14, <1>15, <1>16, <1>11 DEF Over

-----------------------------------------------------------------------------
(* A turn that stops before its end: a step it needs falls, its handler is *)
(* cancelled, or its body is cut.                                          *)

LEMMA WalkOutcomes ==
  ASSUME TypeOK, Walk, NEW s \in Steps
  PROVE  outcome[s] \in {"none"} \cup Went
<1>1. CASE s \in Todo
  BY <1>1 DEF Todo, TypeOK
<1>2. CASE s \notin Todo
  BY <1>2 DEF Walk
<1> QED BY <1>1, <1>2

\* Memory and disk, while the turn walks.
LEMMA WalkRemembers ==
  ASSUME TypeOK, Walk
  PROVE  /\ outcome["intent"] \in {"ok", "degraded", "short_circuit"} =>
              outcome["persist_user_turn"] = "ok" /\ "persist_user_turn" \notin Todo
         /\ at = "memory.write" \/ outcome["memory.write"] \in {"ok", "degraded"} =>
              /\ outcome["persist_user_turn"] = "ok" /\ "persist_user_turn" \notin Todo
              /\ outcome["persist_assistant_turn"] = "ok" /\ "persist_assistant_turn" \notin Todo
              /\ ~partial
<1>0. /\ {"persist_user_turn", "persist_assistant_turn", "intent", "memory.write"} \subseteq Steps
      /\ Todo \subseteq Steps
  BY StepsByName DEF Todo, TypeOK
<1>1. ASSUME NEW s \in Todo, NEW t \in Steps, Index(s) < Index(t), outcome[t] \in {"ok", "degraded", "short_circuit"}
      PROVE  FALSE
  <2>1. Index(s) <= Index(t)
    BY <1>0, <1>1, Places
  <2> QED BY <1>1, <2>1 DEF Walk
<1>2. ASSUME at = "memory.write", NEW s \in Steps, Index(s) < 15 PROVE s \notin Todo
  <2> SUFFICES ASSUME s \in Todo PROVE FALSE
    OBVIOUS
  <2>1. s # at /\ s \in left /\ at # NoStep
    BY <1>2, <1>0, Places, NoStepAssumption DEF Todo
  <2> QED BY <1>2, <2>1, Places DEF Walk
<1>3. outcome["intent"] \in {"ok", "degraded", "short_circuit"} => "persist_user_turn" \notin Todo
  BY <1>0, <1>1, Places
<1>4. outcome["memory.write"] \in {"ok", "degraded"} =>
        "persist_user_turn" \notin Todo /\ "persist_assistant_turn" \notin Todo
  BY <1>0, <1>1, Places
<1>5. at = "memory.write" => "persist_user_turn" \notin Todo /\ "persist_assistant_turn" \notin Todo
  BY <1>0, <1>2, Places
<1> QED BY <1>3, <1>4, <1>5 DEF Walk

\* Wherever the turn stops, and whatever is still committed.
LEMMA StopsInOrder ==
  ASSUME TypeOK, Walk, at # NoStep,
         outcome'[at] \in {"failed", "cancelled"},
         \A s \in left : outcome'[s] \in {"none", "skipped"} 
                         \/ (s = "persist_assistant_turn" /\ outcome'[s] \in {"ok", "failed"}),
         \A s \in Steps \ Todo : outcome'[s] = outcome[s],
         at' = NoStep, partial' = partial, jobs' = jobs
  PROVE  MemoryOrder' /\ CutSpendsNothing'
<1>1. /\ at \in Steps /\ left \subseteq Steps /\ Todo = left \cup {at} /\ at \notin left /\ NoStep \notin Steps
      /\ {"persist_user_turn", "persist_assistant_turn", "intent", "memory.write"} \subseteq Steps
  BY StepsByName, NoStepAssumption DEF Todo, TypeOK
<1>2. outcome'["intent"] \in {"ok", "degraded", "short_circuit"} => outcome'["persist_user_turn"] = "ok"
  BY <1>1, WalkRemembers
<1>3. at' = "memory.write" \/ outcome'["memory.write"] \in {"ok", "degraded", "cancelled"} =>
        outcome'["persist_user_turn"] = "ok" /\ outcome'["persist_assistant_turn"] = "ok" /\ ~partial'
  <2> SUFFICES ASSUME outcome'["memory.write"] \in {"ok", "degraded", "cancelled"}
               PROVE  outcome'["persist_user_turn"] = "ok" /\ outcome'["persist_assistant_turn"] = "ok" /\ ~partial
    BY <1>1
  <2>1. at = "memory.write" \/ outcome["memory.write"] \in {"ok", "degraded"}
    BY <1>1 DEF Walk, Went
  <2> QED BY <1>1, <2>1, WalkRemembers
<1>4. jobs' = {}
  BY DEF Walk
<1>5. CutSpendsNothing'
  <2> SUFFICES ASSUME NEW s \in Steps, NEW t \in Steps, outcome'[s] = "cancelled", Index(s) < Index(t), t \notin AfterCancel
               PROVE  outcome'[t] \in {"none", "skipped"}
    BY DEF CutSpendsNothing
  <2>1. s = at
    BY <1>1 DEF Walk, Went
  <2>2. CASE t \in left
    BY <2>2 DEF AfterCancel
  <2>3. CASE t \notin left
    <3>1. t \in Steps \ Todo
      BY <1>1, <2>1, <2>3, Places
    <3>2. outcome[t] \in {"none", "skipped"}
      BY <1>1, <2>1, Places DEF Walk
    <3> QED BY <3>1, <3>2
  <2> QED BY <2>2, <2>3
<1> QED BY <1>2, <1>3, <1>4, <1>5 DEF MemoryOrder

\* What the trace of a stopped turn says, and of which steps.
LEMMA StoppedRecord ==
  ASSUME TypeOK, Walk, NEW S \in SUBSET Steps, NEW F \in SUBSET Steps, record' = OnTurn(OnStep(S, F), {})
  PROVE  /\ record' \in Record
         /\ record'.steps = OldRecord.steps \cup S /\ record'.fell = F /\ record'.pending = {}
         /\ record'.final <=> record'.steps # {} /\ ("emit" \in record'.steps \/ F # {})
         /\ OldRecord.steps \cap Todo = {}
<1> DEFINE told == OnStep(S, F)
<1>1. OldRecord.fell = {} /\ OldRecord.steps \cap Todo = {}
  BY DEF Walk, OldRecord, NewRecord
<1>2. told \in Record /\ told.steps = OldRecord.steps \cup S /\ told.fell = (OldRecord.fell \ S) \cup F
  <2>1. OnStep(S, F) \in Record
    BY OnStepIs
  <2>2. OnStep(S, F).steps = OldRecord.steps \cup S
    BY OnStepIs
  <2>3. OnStep(S, F).fell = (OldRecord.fell \ S) \cup F
    BY OnStepIs
  <2> QED BY <2>1, <2>2, <2>3
<1>3. {} \in SUBSET PostCommit /\ record' = OnTurn(told, {})
  OBVIOUS
<1> HIDE DEF told
<1>4. /\ record' \in Record /\ record'.steps = told.steps /\ record'.fell = told.fell
      /\ record'.pending = {} \ told.steps
      /\ record'.final <=> told.steps # {} /\ {} \ told.steps = {} /\ ("emit" \in told.steps \/ told.fell # {})
  BY <1>2, <1>3, OnTurnIs
<1> QED BY <1>1, <1>2, <1>4

\* The types of a turn that has stopped.
LEMMA StoppedType ==
  ASSUME TypeOK, Walk, Shut, UNCHANGED <<request, partial, jobs, others>>,
         outcome' \in [Steps -> {"none", "ok", "degraded", "short_circuit", "failed", "cancelled", "skipped", "queued"}],
         lease' \in BOOLEAN, unread' \in BOOLEAN, commits' \in Nat, owed' \in BOOLEAN, said' \in BOOLEAN, record' \in Record
  PROVE  TypeOK'
<1>1. record' \in [steps : SUBSET Steps, fell : SUBSET Steps, pending : SUBSET PostCommit, final : BOOLEAN] \cup {NoRecord}
  BY DEF Record
<1>2. phase' = "closed" /\ at' = NoStep /\ left' = {}
  BY DEF Shut
<1>3. door' \in Doors /\ streaming' \in BOOLEAN /\ resume' \in BOOLEAN /\ others' \in 0 .. MaxOthers /\ partial' \in BOOLEAN
      /\ jobs' \subseteq PostCommit
  BY DEF TypeOK, request
<1> QED BY <1>1, <1>2, <1>3, NoStepAssumption DEF TypeOK

LEMMA FallsWell ==
  ASSUME TypeOK, Walk, Commits, StepFails
  PROVE  TypeOK' /\ phase' = "closed" /\ Over' /\ Commits'
<1>1. at \in Steps /\ left \subseteq Steps /\ at \notin left /\ at # NoStep /\ Todo = left \cup {at} /\ NoStep \notin Steps
  BY NoStepAssumption DEF TypeOK, StepFails, Working, Todo
<1>2. /\ outcome' \in [Steps -> {"none", "ok", "degraded", "short_circuit", "failed", "cancelled", "skipped", "queued"}]
      /\ outcome'[at] = "failed"
      /\ \A s \in Steps \ {at} : outcome'[s] = outcome[s]
  <2>1. outcome' = [s \in Steps |-> IF s = at THEN "failed"
                     ELSE IF s \in {} THEN "queued"
                     ELSE IF s \in {} /\ outcome[s] = "none" THEN "skipped" ELSE outcome[s]]
    BY DEF StepFails, Outcomes
  <2>2. outcome \in [Steps -> {"none", "ok", "degraded", "short_circuit", "failed", "cancelled", "skipped", "queued"}]
    BY DEF TypeOK
  <2> QED BY <1>1, <2>1, <2>2
<1>3. /\ Close /\ Shut /\ said' = TRUE /\ lease' = FALSE /\ owed' = FALSE /\ unread' = unread
      /\ UNCHANGED <<request, partial, commits, jobs, others>>
  BY DEF StepFails, Close
<1>4. {at} \in SUBSET Steps /\ record' = OnTurn(OnStep({at}, {at}), {})
  BY <1>1 DEF StepFails
<1>5. /\ record' \in Record
      /\ record'.steps = OldRecord.steps \cup {at} /\ record'.fell = {at} /\ record'.pending = {}
      /\ record'.final <=> record'.steps # {} /\ ("emit" \in record'.steps \/ {at} # {})
  BY <1>4, StoppedRecord, Zenon
<1>6. TypeOK'
  <2>1. lease' \in BOOLEAN /\ unread' \in BOOLEAN /\ commits' \in Nat /\ owed' \in BOOLEAN /\ said' \in BOOLEAN
    BY <1>3 DEF TypeOK
  <2> QED BY <1>2, <1>3, <1>5, <2>1, StoppedType
<1>7. phase' = "closed" /\ at' = NoStep /\ left' = {} /\ jobs' = {}
  BY <1>3 DEF Close, Shut, Walk
<1>8. Fell' /\ ~RanItsCourse'
  BY <1>1, <1>2 DEF Fell, RanItsCourse
<1>9. MemoryOrder' /\ CutSpendsNothing'
  <2>1. \A s \in left : outcome'[s] \in {"none", "skipped"}
    BY <1>1, <1>2 DEF TypeOK
  <2>2. \A s \in Steps \ Todo : outcome'[s] = outcome[s]
    BY <1>1, <1>2
  <2> QED BY <1>1, <1>2, <1>3, <1>7, <2>1, <2>2, StopsInOrder
<1>10. Commits'
  <2>1. "persist_assistant_turn" \in Steps
    BY StepsByName
  <2>2. outcome'["persist_assistant_turn"] = "ok" <=> outcome["persist_assistant_turn"] = "ok"
    BY <1>1, <1>2, <2>1 DEF TypeOK
  <2>3. door' = door /\ streaming' = streaming
    BY <1>3 DEF request
  <2>4. phase # "closed"
    BY DEF StepFails, Working, HandlerCancelled
  <2> QED BY <1>3, <1>7, <2>2, <2>3, <2>4 DEF Commits, Deferred
<1>11. Recorded'
  BY <1>5, <1>7, <1>8 DEF Recorded
<1> QED BY <1>3, <1>6, <1>7, <1>8, <1>9, <1>10, <1>11 DEF Over, WholeTrace

LEMMA CancelledWell ==
  ASSUME TypeOK, Walk, Commits, HandlerCancelled
  PROVE  TypeOK' /\ phase' = "closed" /\ Over' /\ Commits'
<1>1. at \in Steps /\ left \subseteq Steps /\ at \notin left /\ at # NoStep /\ Todo = left \cup {at} /\ NoStep \notin Steps
  <2>1. at # NoStep
    BY DEF HandlerCancelled, Walk
  <2> QED BY <2>1, NoStepAssumption DEF TypeOK, Todo
<1>2. /\ outcome' \in [Steps -> {"none", "ok", "degraded", "short_circuit", "failed", "cancelled", "skipped", "queued"}]
      /\ outcome'[at] = "cancelled"
      /\ \A s \in Steps \ {at} : outcome'[s] = outcome[s]
  <2>1. outcome' = [s \in Steps |-> IF s = at THEN "cancelled"
                     ELSE IF s \in {} THEN "queued"
                     ELSE IF s \in {} /\ outcome[s] = "none" THEN "skipped" ELSE outcome[s]]
    BY DEF HandlerCancelled, Outcomes
  <2>2. outcome \in [Steps -> {"none", "ok", "degraded", "short_circuit", "failed", "cancelled", "skipped", "queued"}]
    BY DEF TypeOK
  <2> QED BY <1>1, <2>1, <2>2
<1>3. /\ Close /\ Shut /\ said' = TRUE /\ lease' = FALSE /\ owed' = FALSE /\ unread' = unread
      /\ UNCHANGED <<request, partial, commits, jobs, others>>
  BY DEF HandlerCancelled, Close
<1>4. {at} \in SUBSET Steps /\ {} \in SUBSET Steps /\ record' = OnTurn(OnStep({at}, {}), {})
  BY <1>1 DEF HandlerCancelled
<1>5. /\ record' \in Record
      /\ record'.steps = OldRecord.steps \cup {at} /\ record'.fell = {} /\ record'.pending = {}
      /\ record'.final <=> record'.steps # {} /\ ("emit" \in record'.steps \/ {} # {})
      /\ OldRecord.steps \cap Todo = {}
  BY <1>4, StoppedRecord, Zenon
<1>6. TypeOK'
  <2>1. lease' \in BOOLEAN /\ unread' \in BOOLEAN /\ commits' \in Nat /\ owed' \in BOOLEAN /\ said' \in BOOLEAN
    BY <1>3 DEF TypeOK
  <2> QED BY <1>2, <1>3, <1>5, <2>1, StoppedType
<1>7. phase' = "closed" /\ at' = NoStep /\ left' = {} /\ jobs' = {}
  BY <1>3 DEF Close, Shut, Walk
<1>8. ~RanItsCourse'
  <2>1. streaming => at \in Prefix
    BY DEF Walk, HandlerCancelled
  <2>2. Stopped'
    BY <1>1, <1>2 DEF Stopped
  <2>3. streaming' = streaming
    BY <1>3 DEF request
  <2> QED BY <1>2, <2>1, <2>2, <2>3 DEF RanItsCourse
<1>9. MemoryOrder' /\ CutSpendsNothing'
  <2>1. \A s \in left : outcome'[s] \in {"none", "skipped"}
    BY <1>1, <1>2 DEF TypeOK
  <2>2. \A s \in Steps \ Todo : outcome'[s] = outcome[s]
    BY <1>1, <1>2
  <2> QED BY <1>1, <1>2, <1>3, <1>7, <2>1, <2>2, StopsInOrder
<1>10. Commits'
  <2>1. "persist_assistant_turn" \in Steps
    BY StepsByName
  <2>2. outcome'["persist_assistant_turn"] = "ok" <=> outcome["persist_assistant_turn"] = "ok"
    BY <1>1, <1>2, <2>1 DEF TypeOK
  <2>3. door' = door /\ streaming' = streaming
    BY <1>3 DEF request
  <2>4. phase # "closed"
    BY DEF StepFails, Working, HandlerCancelled
  <2> QED BY <1>3, <1>7, <2>2, <2>3, <2>4 DEF Commits, Deferred
<1>11. Recorded'
  <2>1. ~Fell'
    BY <1>1, <1>2 DEF Fell, Walk, Went, TypeOK
  <2>2. "emit" \in record'.steps <=> at = "emit"
    BY <1>1, <1>5 DEF Walk
  <2>3. outcome'["emit"] # "none" <=> at = "emit"
    BY <1>1, <1>2, Sorts DEF Walk, TypeOK
  <2> QED BY <1>5, <1>7, <2>1, <2>2, <2>3 DEF Recorded
<1> QED BY <1>3, <1>6, <1>7, <1>8, <1>9, <1>10, <1>11 DEF Over, WholeTrace

\* A body that is cut commits what was generated, once.
LEMMA CommitsWell ==
  ASSUME TypeOK, Walk, Commits, CommitAndSkip, UNCHANGED <<request, partial, owed, jobs, others>>,
         at \in Steps, at # "persist_assistant_turn", phase \notin {"handler", "closed"},
         lease' \in BOOLEAN, unread' \in BOOLEAN, lease' => unread'
  PROVE  TypeOK' /\ phase' = "closed" /\ Over' /\ Commits'
<1> DEFINE pa == "persist_assistant_turn"
<1>1. /\ left \subseteq Steps /\ at \notin left /\ at # NoStep /\ Todo = left \cup {at} /\ NoStep \notin Steps
      /\ pa \in Steps /\ Committed = left \cap {pa}
  BY NoStepAssumption, StepsByName DEF TypeOK, Todo, Committed, AfterCancel
<1>2. /\ outcome' \in [Steps -> {"none", "ok", "degraded", "short_circuit", "failed", "cancelled", "skipped", "queued"}]
      /\ outcome'[at] = "cancelled"
      /\ pa \in left => outcome'[pa] = "ok"
      /\ \A s \in left \ {pa} : outcome'[s] = "skipped"
      /\ \A s \in Steps \ (left \cup {at}) : outcome'[s] = outcome[s]
  <2> DEFINE Out == Outcomes("cancelled", left, {})
  <2>1. Out = [s \in Steps |-> IF s = at THEN "cancelled"
                     ELSE IF s \in {} THEN "queued"
                     ELSE IF s \in left /\ outcome[s] = "none" THEN "skipped" ELSE outcome[s]]
    BY DEF Outcomes
  <2>2. outcome \in [Steps -> {"none", "ok", "degraded", "short_circuit", "failed", "cancelled", "skipped", "queued"}]
        /\ \A s \in left : outcome[s] = "none"
    BY <1>1 DEF TypeOK
  <2>3. outcome' = [Out EXCEPT ![pa] = IF pa \in left THEN "ok" ELSE Out[pa]]
    BY <1>1 DEF CommitAndSkip
  <2>4. /\ Out \in [Steps -> {"none", "ok", "degraded", "short_circuit", "failed", "cancelled", "skipped", "queued"}]
        /\ Out[at] = "cancelled"
        /\ \A s \in left : Out[s] = "skipped"
        /\ \A s \in Steps \ (left \cup {at}) : Out[s] = outcome[s]
    BY <1>1, <2>1, <2>2
  <2> HIDE DEF Out
  <2> QED BY <1>1, <2>3, <2>4
<1>3. /\ Close /\ Shut /\ said' = TRUE /\ UNCHANGED <<request, partial, owed, jobs, others>>
      /\ commits' = commits + Cardinality(Committed) /\ owed' \in BOOLEAN
  BY DEF CommitAndSkip, Close, TypeOK
<1>4. {at} \cup left \in SUBSET Steps /\ {} \in SUBSET Steps /\ record' = OnTurn(OnStep({at} \cup left, {}), {})
  BY <1>1 DEF CommitAndSkip
<1>5. /\ record' \in Record
      /\ record'.steps = OldRecord.steps \cup ({at} \cup left) /\ record'.fell = {} /\ record'.pending = {}
      /\ record'.final <=> record'.steps # {} /\ ("emit" \in record'.steps \/ {} # {})
  BY <1>4, StoppedRecord, Zenon
<1>6. Commits' /\ commits' \in Nat
  <2>0. ~Deferred /\ ~Deferred' /\ ~owed'
    BY <1>3 DEF Walk, Deferred, Commits, request
  <2>1. CASE pa \in left
    <3>1. Committed = {pa} /\ outcome[pa] = "none"
      BY <1>1, <2>1 DEF TypeOK
    <3>2. Cardinality(Committed) = 1
      BY <3>1, FS_Singleton
    <3> QED BY <1>2, <1>3, <2>0, <2>1, <3>1, <3>2 DEF Commits
  <2>2. CASE pa \notin left
    <3>1. Committed = {}
      BY <1>1, <2>2
    <3>2. Cardinality(Committed) = 0
      BY <3>1, FS_EmptySet
    <3>3. outcome'[pa] = outcome[pa]
      BY <1>1, <1>2, <2>2
    <3> QED BY <1>3, <2>0, <3>2, <3>3 DEF Commits
  <2> QED BY <2>1, <2>2
<1>7. TypeOK'
  BY <1>2, <1>3, <1>5, <1>6, StoppedType
<1>8. phase' = "closed" /\ at' = NoStep /\ left' = {} /\ jobs' = {}
  BY <1>3 DEF Close, Shut, Walk
<1>9. MemoryOrder' /\ CutSpendsNothing'
  <2>1. \A s \in left : outcome'[s] \in {"none", "skipped"} \/ (s = "persist_assistant_turn" /\ outcome'[s] = "ok")
    BY <1>1, <1>2
  <2>2. \A s \in Steps \ Todo : outcome'[s] = outcome[s]
    BY <1>1, <1>2
  <2> QED BY <1>1, <1>2, <1>3, <1>8, <2>1, <2>2, StopsInOrder
<1>10. outcome'["persist_assistant_turn"] = "ok"
  <2>1. pa \in Todo \/ outcome[pa] = "ok"
    BY DEF Walk
  <2> QED BY <1>1, <1>2, <2>1
<1>11. WholeTrace'
  <2>1. \A s \in Steps : outcome'[s] # "none"
    BY <1>1, <1>2 DEF Walk, Went
  <2> QED BY <2>1 DEF WholeTrace
<1>12. Recorded'
  <2>1. "emit" \in record'.steps /\ outcome'["emit"] # "none"
    BY <1>1, <1>2, <1>5, Sorts DEF Walk
  <2> QED BY <1>5, <1>8, <2>1 DEF Recorded
<1> QED BY <1>6, <1>7, <1>8, <1>9, <1>10, <1>11, <1>12 DEF Over

\* ...or tries to, and falls.
LEMMA CommitFailsWell ==
  ASSUME TypeOK, Walk, Commits, CommitFails, UNCHANGED <<request, partial, owed, jobs, others>>,
         at \in Steps, at # "persist_assistant_turn", phase \notin {"handler", "closed"},
         lease' \in BOOLEAN, unread' \in BOOLEAN, lease' => unread'
  PROVE  TypeOK' /\ phase' = "closed" /\ Over' /\ Commits'
<1> DEFINE pa == "persist_assistant_turn"
           S == {at, pa}
<1>1. /\ left \subseteq Steps /\ at \notin left /\ at # NoStep /\ Todo = left \cup {at} /\ NoStep \notin Steps
      /\ pa \in Steps /\ pa \in left
  BY NoStepAssumption, StepsByName DEF TypeOK, Todo, CommitFails, Committed, AfterCancel
<1>2. /\ outcome' \in [Steps -> {"none", "ok", "degraded", "short_circuit", "failed", "cancelled", "skipped", "queued"}]
      /\ outcome'[at] = "cancelled" /\ outcome'[pa] = "failed"
      /\ \A s \in Steps \ S : outcome'[s] = outcome[s]
  <2> DEFINE Out == Outcomes("cancelled", {}, {})
  <2>1. Out = [s \in Steps |-> IF s = at THEN "cancelled"
                     ELSE IF s \in {} THEN "queued"
                     ELSE IF s \in {} /\ outcome[s] = "none" THEN "skipped" ELSE outcome[s]]
    BY DEF Outcomes
  <2>2. outcome \in [Steps -> {"none", "ok", "degraded", "short_circuit", "failed", "cancelled", "skipped", "queued"}]
    BY DEF TypeOK
  <2>3. outcome' = [Out EXCEPT ![pa] = "failed"]
    BY DEF CommitFails
  <2>4. /\ Out \in [Steps -> {"none", "ok", "degraded", "short_circuit", "failed", "cancelled", "skipped", "queued"}]
        /\ Out[at] = "cancelled"
        /\ \A s \in Steps \ {at} : Out[s] = outcome[s]
    BY <1>1, <2>1, <2>2
  <2> HIDE DEF Out
  <2> QED BY <1>1, <2>3, <2>4
<1>3. Shut /\ UNCHANGED <<request, partial, owed, jobs, others, commits, said>>
  BY DEF CommitFails
<1>4. S \in SUBSET Steps /\ {pa} \in SUBSET Steps /\ record' = OnStep(S, {pa})
  BY <1>1 DEF CommitFails
<1>5. OldRecord.fell = {} /\ OldRecord.pending = {}
  BY DEF Walk, OldRecord, NewRecord
<1>6. /\ record' \in Record
      /\ record'.steps = OldRecord.steps \cup S /\ record'.fell = {pa} /\ record'.pending = {}
      /\ record'.final <=> record'.steps # {} /\ ("emit" \in record'.steps \/ record'.fell # {})
  <2> HIDE DEF S
  <2>1. /\ OnStep(S, {pa}) \in Record
        /\ OnStep(S, {pa}).steps = OldRecord.steps \cup S
        /\ OnStep(S, {pa}).fell = (OldRecord.fell \ S) \cup {pa}
        /\ OnStep(S, {pa}).pending = OldRecord.pending \ S
        /\ OnStep(S, {pa}).final <=> /\ OldRecord.steps \cup S # {}
                                     /\ OldRecord.pending \ S = {}
                                     /\ "emit" \in OldRecord.steps \cup S \/ (OldRecord.fell \ S) \cup {pa} # {}
    BY <1>4, OnStepIs
  <2> QED BY <1>4, <1>5, <2>1
<1>7. TypeOK'
  <2>1. commits' \in Nat /\ owed' \in BOOLEAN /\ said' \in BOOLEAN
    BY <1>3 DEF TypeOK
  <2> QED BY <1>2, <1>3, <1>6, <2>1, StoppedType
<1>8. phase' = "closed" /\ at' = NoStep /\ left' = {} /\ jobs' = {}
  BY <1>3 DEF Shut, Walk
<1>9. Fell' /\ ~RanItsCourse'
  BY <1>1, <1>2 DEF Fell, RanItsCourse
<1>10. Commits'
  <2>1. ~Deferred /\ ~Deferred'
    BY <1>3 DEF Walk, Deferred, request
  <2>2. outcome[pa] = "none"
    BY <1>1 DEF TypeOK
  <2> QED BY <1>2, <1>3, <2>1, <2>2 DEF Commits
<1>11. MemoryOrder' /\ CutSpendsNothing'
  <2>1. \A s \in left : outcome'[s] \in {"none", "skipped"} \/ (s = pa /\ outcome'[s] \in {"ok", "failed"})
    BY <1>1, <1>2 DEF TypeOK
  <2>2. \A s \in Steps \ Todo : outcome'[s] = outcome[s]
    BY <1>1, <1>2
  <2> QED BY <1>1, <1>2, <1>3, <1>8, <2>1, <2>2, StopsInOrder
<1>12. Recorded'
  <2>1. record'.steps # {}
    BY <1>6
  <2> QED BY <1>6, <1>8, <1>9, <2>1 DEF Recorded
<1> QED BY <1>7, <1>8, <1>9, <1>10, <1>11, <1>12 DEF Over, WholeTrace

LEMMA CutsWell ==
  ASSUME TypeOK, Walk, Commits, CutBody, at \in Steps, at # "persist_assistant_turn", phase \notin {"handler", "closed"},
         lease' \in BOOLEAN, unread' \in BOOLEAN, lease' => unread'
  PROVE  TypeOK' /\ phase' = "closed" /\ Over' /\ Commits'
<1>1. (CommitAndSkip \/ CommitFails) /\ UNCHANGED <<request, partial, owed, jobs, others>>
  BY DEF CutBody
<1> QED BY <1>1, CommitsWell, CommitFailsWell

\* A body that was never started.
LEMMA UnreadWell ==
  ASSUME TypeOK, Walk, Commits, Unread
  PROVE  TypeOK' /\ phase' = "closed" /\ Over' /\ Commits'
<1>1. CASE at = NoStep
  <2>1. /\ phase' = "closed" /\ left' = {} /\ unread' = TRUE
        /\ UNCHANGED <<request, at, outcome, partial, lease, commits, owed, jobs, said, record, others>>
    BY <1>1 DEF Unread
  <2>2. TypeOK'
    BY <2>1, <1>1, NoStepAssumption DEF TypeOK, request
  <2>3. MemoryOrder'
    <3>1. outcome["memory.write"] # "cancelled"
      BY Sorts, WalkOutcomes DEF Went
    <3>2. at # "memory.write"
      BY <1>1, Sorts, NoStepAssumption
    <3> QED BY <2>1, <3>1, <3>2, WalkRemembers DEF MemoryOrder, Walk
  <2>4. \A s \in Steps : outcome'[s] \in {"none"} \cup Went
    BY <2>1, WalkOutcomes
  <2>5. CutSpendsNothing'
    BY <2>4 DEF CutSpendsNothing, Went
  <2>6. ~RanItsCourse'
    BY <2>1 DEF RanItsCourse, Walk
  <2>7. Recorded'
    <3>1. ~Fell'
      BY <2>4 DEF Fell, Went
    <3>2. outcome'["emit"] = "none"
      BY <2>1, Sorts DEF Walk, TypeOK, Todo
    <3> QED BY <2>1, <3>1, <3>2 DEF Recorded, Walk
  <2>8. Commits'
    <3>1. ~Deferred /\ ~Deferred'
      BY <2>1 DEF Deferred, request, Walk, Unread
    <3> QED BY <2>1, <3>1 DEF Commits
  <2> QED BY <1>1, <2>1, <2>2, <2>3, <2>5, <2>6, <2>7, <2>8 DEF Over, WholeTrace
<1>2. CASE at # NoStep
  <2>1. CutBody /\ lease' = (lease /\ ~(at = "generate" /\ said')) /\ unread' = TRUE /\ phase = "ready"
    BY <1>2 DEF Unread
  <2>2. at \in {"generate", "emit"} /\ at \in Steps
    BY <1>2, <2>1 DEF Walk, TypeOK
  <2> QED BY <2>1, <2>2, CutsWell
<1> QED BY <1>1, <1>2

-----------------------------------------------------------------------------
(* The invariance.                                                         *)

LEMMA TurnInitial == Init => TurnInv
<1> SUFFICES ASSUME Init PROVE TurnInv
  OBVIOUS
<1>1. "validate" \in Steps /\ at = "validate" /\ left = Steps \ {"validate"} /\ phase = "handler"
  BY StepsByName DEF Init
<1>2. at # NoStep /\ Todo = Steps
  BY <1>1, NoStepAssumption DEF Todo
<1>3. \A s \in Steps : outcome[s] = "none"
  BY DEF Init
<1>4. TypeOK
  <2>1. outcome \in [Steps -> {"none", "ok", "degraded", "short_circuit", "failed", "cancelled", "skipped", "queued"}]
    BY DEF Init
  <2>2. others \in 0 .. MaxOthers /\ commits \in Nat /\ jobs \subseteq PostCommit /\ record = NoRecord
    BY MaxOthersAssumption DEF Init
  <2>3. partial \in BOOLEAN /\ lease \in BOOLEAN /\ owed \in BOOLEAN /\ said \in BOOLEAN /\ unread \in BOOLEAN
    BY DEF Init
  <2>4. door \in Doors /\ streaming \in BOOLEAN /\ resume \in BOOLEAN
    BY DEF Init
  <2> QED BY <1>1, <1>3, <2>1, <2>2, <2>3, <2>4 DEF TypeOK
<1>5. TurnSteps[1] = "validate"
  BY DEF TurnSteps
<1>6. Index("validate") = 1
  BY <1>5, IndexOf
<1>7. Walk
  <2>1. at \in Prefix
    BY <1>1, <1>6, Places DEF Prefix
  <2>2. \A s \in left : Index(at) < Index(s)
    <3> SUFFICES ASSUME NEW s \in left PROVE 1 < Index(s)
      BY <1>1, <1>6
    <3>1. s \in Steps /\ s # "validate"
      BY <1>1
    <3> QED BY <1>1, <1>6, <3>1, Places
  <2>3. "persist_user_turn" \in Steps /\ "persist_assistant_turn" \in Steps /\ "emit" \in Steps /\ "memory.write" \in Steps
    BY StepsByName
  <2>4. \A s \in Steps \ Todo : outcome[s] \in Went
    BY <1>2
  <2>5. at # "memory.write"
    BY <1>1
  <2> QED BY <1>1, <1>2, <1>3, <2>1, <2>2, <2>3, <2>4, <2>5 DEF Init, Walk
<1>8. Commits
  BY <1>3, StepsByName DEF Init, Commits
<1> QED BY <1>1, <1>4, <1>7, <1>8 DEF TurnInv

\* A step that ends, whichever way, leaves the turn walking or over.
LEMMA EndsWell ==
  ASSUME TurnInv, NEW o, NEW S, NEW broken, Ends(o, S, broken),
         lease' = LeaseAfter(at) \/ (lease' = lease /\ at # "emit"),
         IF at = "persist_assistant_turn" THEN PersistAnswer ELSE UNCHANGED <<commits, owed>>,
         at = "emit" => S = {}
  PROVE  TurnInv'
<1>1. TypeOK /\ Walk /\ Commits /\ commits \in Nat /\ owed \in BOOLEAN /\ lease \in BOOLEAN
  BY DEF TurnInv, Ends, TypeOK
<1>2. lease' \in BOOLEAN /\ commits' \in Nat /\ owed' \in BOOLEAN /\ (at = "emit" => lease' = FALSE)
  <2>1. commits' \in Nat /\ owed' \in BOOLEAN
    BY <1>1 DEF PersistAnswer
  <2>2. LeaseAfter(at) \in BOOLEAN /\ (at = "emit" => LeaseAfter(at) = FALSE)
    BY <1>1 DEF LeaseAfter
  <2> QED BY <1>1, <2>1, <2>2
<1>3. CASE at = "emit"
  <2>1. Ends("ok", {}, broken) /\ lease' = FALSE /\ commits' = commits /\ owed' = owed
    BY <1>2, <1>3 DEF Ends, Kept
  <2> QED BY <1>1, <1>3, <2>1, ClosesAtEmit DEF TurnInv
<1>4. CASE at # "emit"
  <2>1. TypeOK' /\ phase' # "closed" /\ Walk'
        /\ (outcome'["persist_assistant_turn"] = "ok" <=> outcome["persist_assistant_turn"] = "ok" \/ at = "persist_assistant_turn")
    BY <1>1, <1>2, <1>4, WalksOn
  <2>2. at = "persist_assistant_turn" => outcome["persist_assistant_turn"] = "none"
    BY <1>1, StepsByName DEF TypeOK
  <2>3. door' = door /\ streaming' = streaming /\ phase # "closed"
    BY DEF Ends, GoOn, request
  <2>4. Commits'
    <3>1. CASE Deferred
      BY <1>1, <2>1, <2>3, <3>1 DEF Commits, Deferred, PersistAnswer
    <3>2. CASE ~Deferred
      BY <1>1, <2>1, <2>2, <2>3, <3>2 DEF Commits, Deferred, PersistAnswer
    <3> QED BY <3>1, <3>2
  <2> QED BY <2>1, <2>4 DEF TurnInv
<1> QED BY <1>3, <1>4

LEMMA StepEnds ==
  ASSUME TurnInv, StepOk \/ StepDegraded \/ GenerateBreaks \/ ShortCircuits
  PROVE  TurnInv'
<1>1. left \ {} = left /\ partial \in BOOLEAN
  BY DEF TurnInv, TypeOK
<1>2. CASE StepOk
  <2>1. Ends("ok", {}, partial)
    BY <1>1, <1>2 DEF StepOk, MayEnd, Working, Ends
  <2> QED BY <1>2, <2>1, EndsWell DEF StepOk
<1>3. CASE StepDegraded
  <2>1. at \notin Kept
    BY <1>3, StepsByName DEF StepDegraded, MustHave, Kept
  <2>2. Ends("degraded", {}, partial)
    BY <1>1, <1>3, <2>1 DEF StepDegraded, MayEnd, Working, Ends
  <2>3. at # "emit" /\ at # "persist_assistant_turn" /\ lease' = lease /\ UNCHANGED <<commits, owed>>
    BY <1>3, <2>1 DEF StepDegraded, Kept
  <2> QED BY <2>2, <2>3, EndsWell
<1>4. CASE GenerateBreaks
  <2>1. Ends("degraded", {}, TRUE)
    BY <1>1, <1>4, Sorts, NoStepAssumption DEF GenerateBreaks, Ends, Kept
  <2>2. at # "emit" /\ at # "persist_assistant_turn" /\ lease' = lease /\ UNCHANGED <<commits, owed>>
    BY <1>4 DEF GenerateBreaks
  <2> QED BY <2>1, <2>2, EndsWell
<1>5. CASE ShortCircuits
  <2>1. at \in {"intent", "engine", "budget", "generate"} /\ at # NoStep /\ phase \in {"handler", "first", "body"}
    BY <1>5 DEF ShortCircuits, MayEnd, Working
  <2>2. "persist_user_turn" \notin left
    <3>1. Walk
      BY <2>1 DEF TurnInv
    <3> QED BY <2>1, <3>1, Places DEF Walk
  <2>3. left \ LeftOut(left) = left \cap AfterShortCircuit /\ LeftOut(left) \subseteq left /\ Kept \cap LeftOut(left) = {}
    BY <2>2 DEF LeftOut, AfterShortCircuit, Kept
  <2>4. Ends("short_circuit", LeftOut(left), partial)
    <3>1. GoOn("short_circuit", LeftOut(left), left \ LeftOut(left), partial)
      BY <1>5, <2>3 DEF ShortCircuits
    <3>2. at \notin Kept
      BY <2>1 DEF Kept
    <3> QED BY <1>1, <2>1, <2>3, <3>1, <3>2 DEF Ends
  <2>5. at # "emit" /\ at # "persist_assistant_turn" /\ lease' = lease /\ UNCHANGED <<commits, owed>>
    BY <1>5, <2>1 DEF ShortCircuits
  <2> QED BY <2>4, <2>5, EndsWell
<1> QED BY <1>2, <1>3, <1>4, <1>5

\* The body is returned, and read.
LEMMA BodyStarts ==
  ASSUME TurnInv, FirstChunk \/ Pull
  PROVE  TurnInv'
<1>1. TypeOK /\ Walk /\ Commits
  BY DEF TurnInv, FirstChunk, Pull
<1>2. CASE FirstChunk
  <2>1. phase = "first" /\ phase' = "ready" /\ at \in {"generate", "emit"}
        /\ UNCHANGED <<request, at, left, outcome, partial, lease, commits, owed, jobs, said, record, unread, others>>
    BY <1>2 DEF FirstChunk, Speaking
  <2>2. TypeOK'
    BY <1>1, <2>1 DEF TypeOK, request
  <2>3. Walk'
    BY <1>1, <2>1 DEF Walk, Todo, request
  <2> QED BY <1>1, <2>1, <2>2, <2>3 DEF TurnInv, Commits, Deferred, request
<1>3. CASE Pull
  <2> DEFINE s == IF at = NoStep THEN First(left) ELSE at
  <2>1. phase = "ready" /\ phase' = "body" /\ at' = s /\ left' = left \ {s}
        /\ UNCHANGED <<request, outcome, partial, lease, commits, owed, jobs, said, record, unread, others>>
    BY <1>3 DEF Pull
  <2>2. left \subseteq Steps /\ NoStep \notin Steps /\ at \in Steps \cup {NoStep} /\ at \notin left
    BY <1>1, NoStepAssumption DEF TypeOK
  <2>3. at = NoStep => s \in left /\ \A t \in left : Index(s) <= Index(t)
    <3> SUFFICES ASSUME at = NoStep PROVE First(left) \in left /\ \A t \in left : Index(First(left)) <= Index(t)
      OBVIOUS
    <3>1. left # {}
      BY <1>1, Sorts DEF Walk, Todo
    <3> QED BY <2>2, <3>1, FirstIs
  <2>4. at # NoStep => s = at
    OBVIOUS
  <2> HIDE DEF s
  <2>5. s \in Steps /\ Todo' = Todo /\ s # NoStep
    BY <2>1, <2>2, <2>3, <2>4 DEF Todo
  <2>6. TypeOK'
    BY <1>1, <2>1, <2>2, <2>3, <2>4, <2>5 DEF TypeOK, request
  <2>7. \A t \in left' : at' # NoStep => Index(at') < Index(t)
    <3> SUFFICES ASSUME NEW t \in left \ {s} PROVE Index(s) < Index(t)
      BY <2>1
    <3>1. CASE at = NoStep
      BY <3>1, <2>2, <2>3, <2>5, Places
    <3>2. CASE at # NoStep
      BY <3>2, <2>4, <1>1 DEF Walk
    <3> QED BY <3>1, <3>2
  <2>8. at' = "memory.write" \/ outcome'["memory.write"] \in {"ok", "degraded"} => ~partial'
    <3>1. ~partial
      BY <1>1, <2>1 DEF Walk
    <3> QED BY <2>1, <3>1
  <2>9. Walk'
    <3>1. streaming' = streaming /\ streaming
      BY <1>1, <2>1 DEF Walk, request
    <3> QED BY <1>1, <2>1, <2>5, <2>7, <2>8, <3>1 DEF Walk
  <2> QED BY <1>1, <2>1, <2>6, <2>9 DEF TurnInv, Commits, Deferred, request
<1> QED BY <1>2, <1>3

\* A job's late word.
LEMMA JobEndsWell ==
  ASSUME TurnInv, NEW j \in PostCommit, JobEnds(j)
  PROVE  TurnInv'
<1>1. j \in jobs /\ jobs' = jobs \ {j} /\ j \in Steps
      /\ UNCHANGED <<request, phase, at, left, outcome, partial, lease, commits, owed, said, unread, others>>
  BY Sorts DEF JobEnds
<1>2. phase = "closed"
  BY <1>1 DEF TurnInv, Walk
<1>3. TypeOK /\ Commits /\ Over /\ OldRecord \in Record
  BY <1>2, OldRecordType DEF TurnInv
<1>4. PICK F \in {{}, {j}} : record' = IF record = NoRecord THEN NoRecord ELSE OnStep({j}, F)
  BY DEF JobEnds
<1>5. /\ OnStep({j}, F) \in Record
      /\ OnStep({j}, F).steps = OldRecord.steps \cup {j}
      /\ OnStep({j}, F).fell = (OldRecord.fell \ {j}) \cup F
      /\ OnStep({j}, F).pending = OldRecord.pending \ {j}
      /\ OnStep({j}, F).final <=> /\ OldRecord.steps \cup {j} # {}
                                  /\ OldRecord.pending \ {j} = {}
                                  /\ "emit" \in OldRecord.steps \cup {j} \/ (OldRecord.fell \ {j}) \cup F # {}
  <2>1. {j} \in SUBSET Steps /\ F \in SUBSET Steps
    BY <1>1
  <2> QED BY <1>3, <2>1, OnStepIs, ZenonT(40)
<1>6. TypeOK'
  <2>1. record' \in [steps : SUBSET Steps, fell : SUBSET Steps, pending : SUBSET PostCommit, final : BOOLEAN] \cup {NoRecord}
    BY <1>4, <1>5 DEF Record
  <2>2. jobs' \subseteq PostCommit
    BY <1>1, <1>3 DEF TypeOK
  <2> QED BY <1>1, <1>3, <2>1, <2>2 DEF TypeOK, request
<1>7. Recorded'
  <2>1. CASE record = NoRecord
    BY <1>4, <2>1 DEF Recorded
  <2>2. CASE record # NoRecord
    <3>1. OldRecord = record /\ record' = OnStep({j}, F)
      BY <1>4, <2>2 DEF OldRecord
    <3>2. "emit" \in record.steps /\ record.pending = jobs /\ outcome["emit"] # "none"
      BY <1>1, <1>3, <2>2 DEF Over, Recorded, MemoryOrder
    <3>3. outcome'["emit"] # "none"
      BY <1>1, <3>2
    <3> QED BY <1>1, <1>5, <3>1, <3>2, <3>3 DEF Recorded
  <2> QED BY <2>1, <2>2
<1>8. Over'
  <2>1. at' = at /\ left' = left /\ outcome' = outcome /\ partial' = partial /\ phase' = phase /\ said' = said
        /\ lease' = lease /\ unread' = unread /\ streaming' = streaming
    BY <1>1 DEF request
  <2>2. MemoryOrder'
    BY <1>1, <1>3, <2>1 DEF Over, MemoryOrder
  <2>3. CutSpendsNothing' /\ WholeTrace' /\ (RanItsCourse' => outcome'["persist_assistant_turn"] = "ok")
    BY <1>3, <2>1 DEF Over, CutSpendsNothing, WholeTrace, RanItsCourse, Fell, Stopped
  <2> QED BY <1>3, <1>7, <2>1, <2>2, <2>3 DEF Over
<1> QED BY <1>1, <1>2, <1>3, <1>6, <1>8 DEF TurnInv, Commits, Deferred, request

\* The task that was put down has run, or never will.
LEMMA BackgroundWell ==
  ASSUME TurnInv, BackgroundRuns
  PROVE  TurnInv'
<1>1. /\ phase = "closed" /\ owed /\ owed' = FALSE /\ commits' \in {commits, commits + 1}
      /\ UNCHANGED <<door, streaming, resume, phase, at, left, outcome, partial, lease, jobs, said, record, unread, others>>
  BY DEF BackgroundRuns, request
<1>2. TypeOK /\ Over /\ Commits
  BY <1>1 DEF TurnInv
<1>3. TypeOK'
  <2>0. commits \in Nat
    BY <1>2 DEF TypeOK
  <2>1. commits' \in Nat /\ owed' \in BOOLEAN
    <3>1. owed' = FALSE
      BY <1>1, Zenon
    <3>2. commits' = commits \/ commits' = commits + 1
      BY <1>1, Zenon
    <3>3. owed' \in BOOLEAN
      BY <3>1, Zenon
    <3>4. commits' \in Nat
      BY <2>0, <3>2, SMT
    <3> QED BY <3>3, <3>4, Zenon
  <2>2. others' \in 0 .. MaxOthers /\ UNCHANGED <<door, streaming, resume, phase, at, left, outcome, partial, lease, jobs, said, record, unread>>
    BY <1>1, <1>2 DEF TypeOK
  <2> QED BY <1>2, <2>1, <2>2 DEF TypeOK
<1>4. Deferred /\ commits = 0 /\ outcome["persist_assistant_turn"] = "ok" /\ outcome["emit"] = "ok"
  BY <1>1, <1>2 DEF Commits
<1>5. Commits'
  BY <1>1, <1>4 DEF Commits, Deferred
<1>6. Over'
  BY <1>1, <1>2 DEF Over, MemoryOrder, CutSpendsNothing, WholeTrace, RanItsCourse, Fell, Stopped, Recorded
<1> QED BY <1>1, <1>3, <1>5, <1>6 DEF TurnInv

\* The record has left the ring; or nothing happens.
LEMMA ForgottenWell ==
  ASSUME TurnInv, Forgotten \/ UNCHANGED vars
  PROVE  TurnInv'
<1>1. /\ UNCHANGED <<door, streaming, resume, phase, at, left, outcome, partial, lease, commits, owed, jobs, said, unread>>
      /\ others' \in 0 .. MaxOthers
      /\ record' = NoRecord \/ record' = record
  BY MaxOthersAssumption DEF TurnInv, TypeOK, Forgotten, vars, request
<1>2. TypeOK'
  BY <1>1 DEF TurnInv, TypeOK
<1>3. phase # "closed" => Walk'
  BY <1>1 DEF TurnInv, Walk, Todo
<1>4. phase = "closed" => Over'
  <2> SUFFICES ASSUME phase = "closed", Over PROVE Over'
    BY DEF TurnInv
  <2>1. MemoryOrder' /\ CutSpendsNothing' /\ WholeTrace' /\ (RanItsCourse' => outcome'["persist_assistant_turn"] = "ok")
    BY <1>1 DEF Over, MemoryOrder, CutSpendsNothing, WholeTrace, RanItsCourse, Fell, Stopped
  <2>2. Recorded'
    BY <1>1 DEF Over, Recorded, Fell
  <2> QED BY <1>1, <2>1, <2>2 DEF Over
<1> QED BY <1>1, <1>2, <1>3, <1>4 DEF TurnInv, Commits, Deferred, request

LEMMA TurnKept == TurnInv /\ [Next]_vars => TurnInv'
<1> SUFFICES ASSUME TurnInv, [Next]_vars PROVE TurnInv'
  OBVIOUS
<1>1. CASE StepOk \/ StepDegraded \/ GenerateBreaks \/ ShortCircuits
  BY <1>1, StepEnds
<1>2. CASE StepFails
  <2>1. phase # "closed"
    BY <1>2 DEF StepFails, Working
  <2> QED BY <1>2, <2>1, FallsWell DEF TurnInv
<1>3. CASE HandlerCancelled
  <2>1. phase # "closed"
    BY <1>3 DEF HandlerCancelled
  <2> QED BY <1>3, <2>1, CancelledWell DEF TurnInv
<1>4. CASE FirstChunk \/ Pull
  BY <1>4, BodyStarts
<1>5. CASE Unread
  <2>1. phase # "closed"
    BY <1>5 DEF Unread
  <2> QED BY <1>5, <2>1, UnreadWell DEF TurnInv
<1>6. CASE Cut
  <2>1. phase \in {"first", "body"} /\ at \in Suspending /\ CutBody /\ lease' = FALSE /\ unread' = unread
    BY <1>6 DEF Cut
  <2>2. at # "persist_assistant_turn" /\ at \in Steps /\ phase # "closed" /\ phase \notin {"handler", "closed"}
    BY <2>1, StepsByName DEF Suspending
  <2>3. lease' \in BOOLEAN /\ unread' \in BOOLEAN
    BY <2>1 DEF TurnInv, TypeOK
  <2> QED BY <2>1, <2>2, <2>3, CutsWell DEF TurnInv
<1>7. CASE \E j \in PostCommit : JobEnds(j)
  BY <1>7, JobEndsWell
<1>8. CASE Forgotten \/ UNCHANGED vars
  BY <1>8, ForgottenWell
<1>9. CASE BackgroundRuns
  BY <1>9, BackgroundWell
<1> QED BY <1>1, <1>2, <1>3, <1>4, <1>5, <1>6, <1>7, <1>8, <1>9 DEF Next

THEOREM TurnInvariant == Spec => []TurnInv
  BY TurnInitial, TurnKept, PTL DEF Spec

\* Every part of the turn's state keeps its type, and a step that is still to
\* come has no outcome.
THEOREM TypeCorrect == Spec => []TypeOK
<1>1. TurnInv => TypeOK
  BY DEF TurnInv
<1> QED BY <1>1, TurnInvariant, PTL

\* Nothing goes to memory before the session was given what it is about, but for
\* the JSON answer of the API door, which is put down and given later; and
\* nothing a broken answer said.
THEOREM MemoryAlwaysAfterDisk == Spec => []MemoryAfterDisk
<1>1. TurnInv => MemoryAfterDisk
  <2> SUFFICES ASSUME TypeOK, Walk \/ Over, Commits PROVE MemoryAfterDisk
    BY DEF TurnInv
  <2>1. MemoryOrder
    <3> SUFFICES ASSUME Walk PROVE MemoryOrder
      BY DEF Over
    <3>1. outcome["memory.write"] # "cancelled"
      BY Sorts, WalkOutcomes DEF Went
    <3> QED BY <3>1, WalkRemembers DEF MemoryOrder, Walk
  <2>2. outcome["persist_assistant_turn"] = "ok" => commits = 1 \/ Deferred
    BY DEF Commits
  <2> QED BY <2>1, <2>2 DEF MemoryAfterDisk, MemoryOrder
<1> QED BY <1>1, TurnInvariant, PTL

\* An answer is given to the session once, however its client leaves, and always
\* by a turn that ran its course; the JSON answer of the API door at most once,
\* after a response that was sent whole.
THEOREM AnswerCommittedOnce == Spec => []CommittedOnce
<1>1. TurnInv => CommittedOnce
  <2> SUFFICES ASSUME TypeOK, Commits, RanItsCourse => outcome["persist_assistant_turn"] = "ok" PROVE CommittedOnce
    BY DEF TurnInv, Over, RanItsCourse
  <2> QED BY DEF Commits, CommittedOnce
<1> QED BY <1>1, TurnInvariant, PTL

\* A turn cut by its client runs nothing more but the commit.
THEOREM CutNeverSpends == Spec => []CutSpendsNothing
<1>1. TurnInv => CutSpendsNothing
  <2> SUFFICES ASSUME TypeOK, Walk PROVE CutSpendsNothing
    BY DEF TurnInv, Over
  <2>1. \A s \in Steps : outcome[s] # "cancelled"
    BY WalkOutcomes DEF Went
  <2> QED BY <2>1 DEF CutSpendsNothing
<1> QED BY <1>1, TurnInvariant, PTL

\* The trace of a turn that ran its course leaves no step out.
THEOREM TraceAlwaysWhole == Spec => []WholeTrace
<1>1. TurnInv => WholeTrace
  BY DEF TurnInv, Over, WholeTrace, RanItsCourse
<1> QED BY <1>1, TurnInvariant, PTL

\* A record is final when its turn is over and no job of it is owed a word, not
\* before and not later.
THEOREM FinalExactlyWhenOver == Spec => []FinalIffOver
<1>1. TurnInv => FinalIffOver
  BY DEF TurnInv, Over, Walk, Recorded, FinalIffOver
<1> QED BY <1>1, TurnInvariant, PTL

\* The lease of the session is given back with the turn, but for a body that
\* was never read.
THEOREM LeaseNeverOutlives == Spec => []LeaseEndsWithTurn
<1>1. TurnInv => LeaseEndsWithTurn
  BY DEF TurnInv, Over, LeaseEndsWithTurn
<1> QED BY <1>1, TurnInvariant, PTL

\* No late word brings a record back into the ring.
THEOREM LateNeverBringsBack == Spec => LateBringsNothingBack
<1>1. TurnInv /\ [Next]_vars => [phase = "closed" /\ record = NoRecord => record' = NoRecord]_vars
  <2> SUFFICES ASSUME TurnInv, Next, phase = "closed", record = NoRecord PROVE record' = NoRecord
    OBVIOUS
  <2>1. at = NoStep
    BY DEF TurnInv, Over
  <2>2. (\E j \in PostCommit : JobEnds(j)) \/ Forgotten \/ record' = record
    BY <2>1 DEF Next, StepOk, StepDegraded, GenerateBreaks, ShortCircuits, MayEnd, Working, StepFails,
                HandlerCancelled, FirstChunk, Pull, Unread, Cut, BackgroundRuns
  <2> QED BY <2>2 DEF JobEnds, Forgotten
<1> QED BY <1>1, TurnInvariant, PTL DEF Spec, LateBringsNothingBack
=============================================================================
