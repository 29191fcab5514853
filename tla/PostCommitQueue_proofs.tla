----------------------- MODULE PostCommitQueue_proofs -----------------------
(***************************************************************************)
(* Proofs about PostCommitQueue for every set of sessions, every number of *)
(* attempts and every bound on turns.                                      *)
(***************************************************************************)
EXTENDS PostCommitQueue, TLAPS

Job == [session : Sessions, step : Steps, queue : Queues]

(***************************************************************************)
(* What the properties say is not inductive as it stands: a job must also  *)
(* be in one queue at most and in one worker's hands at most, jobs not yet *)
(* enqueued must be blank, and what a turn has told must stay told until   *)
(* the run is over.                                                        *)
(***************************************************************************)
Bounded == Len(jobs) <= 2 * MaxTurns /\ \A s \in Sessions : open[s] <= turns
OneQueue == queued["local"] \cap queued["cloud"] = {}
OneWorker == \A p, q \in Queues : p # q /\ phase[p] # "idle" => worker[p] # worker[q]
Unsaid == \A j \in JobIds \ Enqueued : words[j] = <<>>
ToldIsCancelled ==
  /\ told \subseteq cancelled
  /\ told \cap InQueue = {}
  /\ \A q \in Queues : phase[q] = "gate" => worker[q] \notin told

QueueInv ==
  /\ TypeOK /\ Bounded
  /\ OneQueue /\ OneWorker
  /\ PendingIsQueued
  /\ FinalWordIsFinal /\ Unsaid
  /\ ToldIsCancelled

LEMMA TwoMore ==
  ASSUME NEW S, NEW s \in Seq(S), NEW a \in S, NEW b \in S
  PROVE  /\ s \o <<a, b>> \in Seq(S)
         /\ Len(s \o <<a, b>>) = Len(s) + 2
         /\ \A i \in 1 .. Len(s) : (s \o <<a, b>>)[i] = s[i]
         /\ (s \o <<a, b>>)[Len(s) + 1] = a /\ (s \o <<a, b>>)[Len(s) + 2] = b
  OBVIOUS

LEMMA Numbers == ASSUME TypeOK, Bounded PROVE /\ Len(jobs) \in Nat /\ Enqueued \subseteq JobIds /\ Enqueued \subseteq Nat /\ NoJob \notin Enqueued
  BY MaxTurnsAssumption DEF TypeOK, Bounded, Enqueued, JobIds

LEMMA InHand ==
  ASSUME TypeOK, Bounded, NEW q \in Queues, phase[q] # "idle"
  PROVE  worker[q] \in Enqueued /\ worker[q] \in JobIds /\ worker[q] \in Working /\ worker[q] # NoJob
<1>1. worker[q] \in Enqueued
  BY DEF TypeOK
<1> QED BY <1>1, Numbers DEF Working

LEMMA QueueInitial == Init => QueueInv
<1> SUFFICES ASSUME Init PROVE QueueInv
  OBVIOUS
<1>1. jobs = <<>> /\ Len(jobs) = 0 /\ Enqueued = {} /\ jobs \in Seq(Job)
  BY DEF Init, Enqueued
<1>2. attempts \in [JobIds -> 0 .. MaxAttempts - 1]
  BY MaxAttemptsAssumption DEF Init
<1>3. words \in [JobIds -> Seq(FinalWords)]
  <2>1. <<>> \in Seq(FinalWords)
    OBVIOUS
  <2> QED BY <2>1 DEF Init
<1>4. turns \in 0 .. MaxTurns /\ open \in [Sessions -> 0 .. MaxTurns]
  BY MaxTurnsAssumption DEF Init
<1>5. TypeOK
  BY <1>1, <1>2, <1>3, <1>4 DEF Init, TypeOK, Queues, Job
<1>6. Working = {} /\ InQueue = {}
  BY DEF Init, Working, InQueue, Queues
<1>7. Bounded /\ OneQueue /\ OneWorker /\ Unsaid
  BY <1>1, MaxTurnsAssumption DEF Init, Bounded, OneQueue, OneWorker, Unsaid, Queues
<1>8. PendingIsQueued /\ FinalWordIsFinal /\ ToldIsCancelled
  BY <1>1, <1>6 DEF Init, PendingIsQueued, FinalWordIsFinal, ToldIsCancelled, Queues
<1> QED BY <1>5, <1>7, <1>8 DEF QueueInv

\* Nobody was enqueued: the jobs and what tells them apart stay.
LEMMA SameJobs ==
  ASSUME UNCHANGED jobs
  PROVE  Enqueued' = Enqueued /\ (\A j : Key(j)' = Key(j)) /\ \A j : SameKey(j)' = SameKey(j)
  BY DEF Enqueued, Key, SameKey

\* A worker is done with its job.
LEMMA Freed ==
  ASSUME TypeOK, Bounded, OneWorker, NEW q \in Queues, WorkerFree(q), UNCHANGED jobs
  PROVE  /\ worker' \in [Queues -> Enqueued' \cup {NoJob}] /\ phase' \in [Queues -> {"idle", "gate", "run"}]
         /\ \A p \in Queues : phase'[p] = "idle" <=> worker'[p] = NoJob
         /\ OneWorker' /\ Working' \subseteq Working
         /\ phase[q] # "idle" => worker[q] \notin Working'
         /\ \A p \in Queues : phase'[p] # "idle" => p # q /\ phase'[p] = phase[p] /\ worker'[p] = worker[p]
<1>1. /\ worker' = [worker EXCEPT ![q] = NoJob] /\ phase' = [phase EXCEPT ![q] = "idle"]
      /\ worker \in [Queues -> Enqueued \cup {NoJob}] /\ phase \in [Queues -> {"idle", "gate", "run"}]
      /\ \A p \in Queues : phase[p] = "idle" <=> worker[p] = NoJob
      /\ Enqueued' = Enqueued
  BY SameJobs DEF WorkerFree, TypeOK
<1>2. \A p \in Queues : phase'[p] # "idle" => p # q /\ phase'[p] = phase[p] /\ worker'[p] = worker[p]
  BY <1>1
<1>3. OneWorker'
  <2>1. ASSUME NEW p \in Queues, NEW r \in Queues, p # r, phase'[p] # "idle" PROVE worker'[p] # worker'[r]
    <3>1. p # q /\ worker'[p] = worker[p] /\ phase[p] # "idle"
      BY <1>2, <2>1
    <3>2. CASE r = q
      BY <1>1, <3>1, <3>2
    <3>3. CASE r # q
      BY <1>1, <2>1, <3>1, <3>3 DEF OneWorker
    <3> QED BY <3>2, <3>3
  <2> QED BY <2>1 DEF OneWorker
<1>4. Working' \subseteq Working
  BY <1>2 DEF Working
<1>5. ASSUME phase[q] # "idle" PROVE worker[q] \notin Working'
  BY <1>2, <1>5 DEF Working, OneWorker
<1> QED BY <1>1, <1>2, <1>3, <1>4, <1>5

\* The job in hand goes back to its queue.
LEMMA BackInQueue ==
  ASSUME TypeOK, Bounded, NEW q \in Queues, phase[q] # "idle", UNCHANGED jobs,
         queued' = [queued EXCEPT ![q] = @ \cup {worker[q]}]
  PROVE  queued' \in [Queues -> SUBSET Enqueued'] /\ InQueue' = InQueue \cup {worker[q]}
  BY InHand, SameJobs DEF TypeOK, InQueue, Queues

LEMMA OutOfQueue ==
  ASSUME TypeOK, OneQueue, NEW q \in Queues, NEW j \in queued[q], UNCHANGED jobs,
         queued' = [queued EXCEPT ![q] = @ \ {j}]
  PROVE  queued' \in [Queues -> SUBSET Enqueued'] /\ InQueue' = InQueue \ {j} /\ OneQueue' /\ j \in InQueue /\ j \in Enqueued
  BY SameJobs DEF TypeOK, InQueue, OneQueue, Queues

LEMMA SaidOnce ==
  ASSUME TypeOK, Bounded, Unsaid, FinalWordIsFinal, NEW j \in Enqueued, ~Gone(j), NEW w \in FinalWords, Say(j, w), UNCHANGED jobs
  PROVE  /\ words' \in [JobIds -> Seq(FinalWords)] /\ words'[j] = <<w>> /\ Len(words'[j]) = 1
         /\ \A k \in JobIds \ {j} : words'[k] = words[k]
         /\ Unsaid'
<1>1. words[j] = <<>> /\ j \in JobIds /\ words \in [JobIds -> Seq(FinalWords)]
  BY Numbers DEF FinalWordIsFinal, TypeOK
<1>2. words' = [words EXCEPT ![j] = <<w>>] /\ <<w>> \in Seq(FinalWords)
  BY <1>1 DEF Say
<1>3. Len(<<w>>) = 1
  OBVIOUS
<1> QED BY <1>1, <1>2, <1>3, SameJobs DEF Unsaid

(***************************************************************************)
(* One lemma per kind of step.                                             *)
(***************************************************************************)
\* What the invariant says of a worker that frees itself without queuing.
LEMMA FreedKeeps ==
  ASSUME QueueInv, NEW q \in Queues, phase[q] # "idle", WorkerFree(q), UNCHANGED <<jobs, queued, pending>>
  PROVE  OneQueue' /\ OneWorker' /\ PendingIsQueued'
<1>1. InQueue' = InQueue
  BY DEF InQueue
<1>2. OneWorker' /\ Working' \subseteq Working
  BY Freed DEF QueueInv
<1> QED BY <1>1, <1>2, SameJobs DEF QueueInv, OneQueue, PendingIsQueued

LEMMA RecordKeeps == ASSUME QueueInv, NEW q \in Queues, Record(q) PROVE QueueInv'
<1> USE DEF QueueInv
<1>0. phase[q] = "run" /\ worker[q] \in Enqueued /\ worker[q] \in JobIds /\ worker[q] \in Working /\ WorkerFree(q)
      /\ UNCHANGED <<jobs, queued, pending, attempts, cancelled, turnVars, alive>>
  BY InHand DEF Record
<1>1. PICK w \in FinalWords : Say(worker[q], w)
  BY DEF Record, Outcomes, FinalWords
<1>2. ~Gone(worker[q])
  BY <1>0 DEF Gone
<1>3. /\ words' \in [JobIds -> Seq(FinalWords)] /\ Len(words'[worker[q]]) = 1
      /\ \A k \in JobIds \ {worker[q]} : words'[k] = words[k]
      /\ Unsaid'
  BY <1>0, <1>1, <1>2, SaidOnce
<1>4. OneQueue' /\ OneWorker' /\ PendingIsQueued' /\ Bounded'
  BY <1>0, FreedKeeps DEF Bounded, turnVars
<1>5. Working' \subseteq Working /\ worker[q] \notin Working' /\ InQueue' = InQueue /\ Enqueued' = Enqueued
  BY <1>0, Freed, SameJobs DEF InQueue
<1>6. worker[q] \notin InQueue
  BY <1>0 DEF PendingIsQueued
<1>7. FinalWordIsFinal'
  <2> SUFFICES ASSUME NEW j \in Enqueued PROVE Len(words'[j]) <= 1 /\ (words'[j] # <<>> => Gone(j)')
    BY <1>5 DEF FinalWordIsFinal
  <2>1. CASE j = worker[q]
    <3>1. Gone(j)'
      BY <1>5, <1>6, <2>1 DEF Gone
    <3>2. Len(words'[j]) = 1
      BY <1>3, <2>1
    <3> QED BY <3>1, <3>2
  <2>2. CASE j # worker[q]
    BY <1>3, <1>5, <2>2, Numbers DEF FinalWordIsFinal, Gone
  <2> QED BY <2>1, <2>2
<1>8. TypeOK'
  <2>1. results' \subseteq Enqueued /\ told' \subseteq Enqueued
    BY <1>0 DEF Record, TypeOK
  <2> QED BY <1>0, <1>3, <1>5, <2>1, Freed DEF TypeOK, turnVars
<1>9. ToldIsCancelled'
  <2>1. told' \subseteq told /\ cancelled' = cancelled
    BY <1>0 DEF Record
  <2>2. \A p \in Queues : phase'[p] = "gate" => phase[p] = "gate" /\ worker'[p] = worker[p]
    BY <1>0, Freed
  <2> QED BY <1>5, <2>1, <2>2 DEF ToldIsCancelled
<1> QED BY <1>3, <1>4, <1>7, <1>8, <1>9

LEMMA RequeueKeeps == ASSUME QueueInv, NEW q \in Queues, Requeue(q) PROVE QueueInv'
<1> USE DEF QueueInv
<1>0. phase[q] = "run" /\ worker[q] \in Enqueued /\ worker[q] \in JobIds /\ worker[q] \in Working /\ WorkerFree(q)
      /\ pending' = (pending \ SameKey(worker[q])) \cup {worker[q]}
      /\ told' = told \ {worker[q]}
      /\ UNCHANGED <<jobs, cancelled, results, words, turnVars, alive>>
  BY InHand DEF Requeue
<1>1. queued' \in [Queues -> SUBSET Enqueued'] /\ InQueue' = InQueue \cup {worker[q]} /\ Enqueued' = Enqueued
  BY <1>0, BackInQueue, SameJobs DEF Requeue
<1>2. worker[q] \notin InQueue
  BY <1>0 DEF PendingIsQueued
<1>3. Working' \subseteq Working /\ worker[q] \notin Working' /\ OneWorker'
  BY <1>0, Freed
<1>4. OneQueue'
  BY <1>2 DEF Requeue, OneQueue, InQueue, Queues, TypeOK
<1>5. PendingIsQueued'
  <2>1. \A j, k \in pending' : Key(j) = Key(k) => j = k
    BY <1>0 DEF PendingIsQueued, SameKey, TypeOK
  <2>2. pending' \subseteq InQueue' /\ InQueue' \cap Working' = {}
    BY <1>0, <1>1, <1>3 DEF PendingIsQueued
  <2> QED BY <1>0, <2>1, <2>2, SameJobs DEF PendingIsQueued
<1>6. FinalWordIsFinal' /\ Unsaid'
  <2>1. words[worker[q]] = <<>>
    BY <1>0 DEF FinalWordIsFinal, Gone
  <2> QED BY <1>0, <1>1, <1>3, <2>1 DEF FinalWordIsFinal, Unsaid, Gone
<1>7. attempts' \in [JobIds -> 0 .. MaxAttempts - 1]
  BY <1>0, MaxAttemptsAssumption DEF Requeue, TypeOK
<1>8. TypeOK'
  BY <1>0, <1>1, <1>7, Freed DEF TypeOK, turnVars
<1>9. ToldIsCancelled'
  <2>1. \A p \in Queues : phase'[p] = "gate" => phase[p] = "gate" /\ worker'[p] = worker[p]
    BY <1>0, Freed
  <2> QED BY <1>0, <1>1, <2>1 DEF ToldIsCancelled
<1>10. Bounded'
  BY <1>0 DEF Bounded, turnVars
<1> QED BY <1>3, <1>4, <1>5, <1>6, <1>8, <1>9, <1>10

LEMMA StopKeeps == ASSUME QueueInv, NEW q \in Queues, StopWorker(q) PROVE QueueInv'
<1> USE DEF QueueInv
<1>0. WorkerFree(q) /\ alive' \subseteq alive /\ UNCHANGED <<jobs, queued, pending, attempts, cancelled, words, told, results, turnVars>>
  BY DEF StopWorker, jobVars
<1>1. Working' \subseteq Working /\ InQueue' = InQueue /\ Enqueued' = Enqueued /\ OneWorker'
  BY <1>0, Freed, SameJobs DEF InQueue
<1>2. OneQueue' /\ PendingIsQueued'
  BY <1>0, <1>1, SameJobs DEF OneQueue, PendingIsQueued
<1>3. FinalWordIsFinal' /\ Unsaid' /\ Bounded'
  BY <1>0, <1>1 DEF FinalWordIsFinal, Unsaid, Gone, Bounded, turnVars
<1>4. TypeOK'
  BY <1>0, <1>1, Freed DEF TypeOK, turnVars
<1>5. ToldIsCancelled'
  <2>1. \A p \in Queues : phase'[p] = "gate" => phase[p] = "gate" /\ worker'[p] = worker[p]
    BY <1>0, Freed
  <2> QED BY <1>0, <1>1, <2>1 DEF ToldIsCancelled
<1> QED BY <1>1, <1>2, <1>3, <1>4, <1>5

LEMMA DropKeeps == ASSUME QueueInv, NEW q \in Queues, Drop(q) PROVE QueueInv'
<1> USE DEF QueueInv
<1>0. UNCHANGED <<jobs, pending, worker, phase, attempts, cancelled, results, told, turnVars, alive>>
  BY DEF Drop
<1>1. PICK j \in queued[q] : /\ j \notin pending
                             /\ queued' = [queued EXCEPT ![q] = @ \ {j}]
                             /\ Say(j, "superseded") \/ words' = words
  BY DEF Drop
<1>2. queued' \in [Queues -> SUBSET Enqueued'] /\ InQueue' = InQueue \ {j} /\ OneQueue' /\ j \in InQueue /\ j \in Enqueued
  BY <1>0, <1>1, OutOfQueue
<1>3. Working' = Working /\ Enqueued' = Enqueued /\ j \notin Working
  BY <1>0, <1>2, SameJobs DEF Working, PendingIsQueued
<1>4. PendingIsQueued' /\ OneWorker' /\ Bounded'
  BY <1>0, <1>1, <1>2, <1>3, SameJobs DEF PendingIsQueued, OneWorker, Bounded, turnVars
<1>5. words' \in [JobIds -> Seq(FinalWords)] /\ FinalWordIsFinal' /\ Unsaid'
  <2>1. CASE Say(j, "superseded")
    <3>1. ~Gone(j) /\ "superseded" \in FinalWords
      BY <1>2 DEF Gone, FinalWords
    <3>2. /\ words' \in [JobIds -> Seq(FinalWords)] /\ Len(words'[j]) = 1
          /\ \A k \in JobIds \ {j} : words'[k] = words[k]
          /\ Unsaid'
      BY <1>0, <1>2, <2>1, <3>1, SaidOnce
    <3>3. ASSUME NEW k \in Enqueued PROVE Len(words'[k]) <= 1 /\ (words'[k] # <<>> => Gone(k)')
      <4>1. CASE k = j
        <5>1. Gone(k)'
          BY <1>2, <1>3, <4>1 DEF Gone
        <5>2. Len(words'[k]) = 1
          BY <3>2, <4>1
        <5> QED BY <5>1, <5>2
      <4>2. CASE k # j
        BY <1>2, <1>3, <3>2, <4>2, Numbers DEF FinalWordIsFinal, Gone
      <4> QED BY <4>1, <4>2
    <3> QED BY <1>3, <3>2, <3>3 DEF FinalWordIsFinal
  <2>2. CASE words' = words
    BY <1>2, <1>3, <2>2 DEF FinalWordIsFinal, Unsaid, Gone, TypeOK
  <2> QED BY <1>1, <2>1, <2>2
<1>6. TypeOK'
  BY <1>0, <1>2, <1>3, <1>5 DEF TypeOK, turnVars
<1>7. ToldIsCancelled'
  BY <1>0, <1>2 DEF ToldIsCancelled
<1> QED BY <1>2, <1>4, <1>5, <1>6, <1>7

LEMMA TakeKeeps == ASSUME QueueInv, NEW q \in Queues, Take(q) PROVE QueueInv'
<1> USE DEF QueueInv
<1>0. phase[q] = "idle" /\ UNCHANGED <<jobs, attempts, cancelled, words, told, results, turnVars, alive>>
  BY DEF Take, jobVars
<1>1. PICK j \in queued[q] : /\ j \in pending /\ pending' = pending \ {j}
                             /\ queued' = [queued EXCEPT ![q] = @ \ {j}]
                             /\ worker' = [worker EXCEPT ![q] = j]
                             /\ phase' = [phase EXCEPT ![q] = "gate"]
  BY DEF Take
<1>2. queued' \in [Queues -> SUBSET Enqueued'] /\ InQueue' = InQueue \ {j} /\ OneQueue' /\ j \in InQueue /\ j \in Enqueued
  BY <1>0, <1>1, OutOfQueue
<1>3. Enqueued' = Enqueued /\ j \notin Working /\ j # NoJob
  BY <1>0, <1>2, SameJobs, Numbers DEF PendingIsQueued
<1>4. \A p \in Queues \ {q} : phase'[p] = phase[p] /\ worker'[p] = worker[p]
  BY <1>1 DEF TypeOK
<1>5. phase'[q] = "gate" /\ worker'[q] = j
  BY <1>1 DEF TypeOK
<1>6. Working' \subseteq Working \cup {j}
  BY <1>4, <1>5 DEF Working
<1>7. OneWorker'
  <2>1. \A p \in Queues : phase[p] # "idle" => worker[p] # j
    BY <1>3 DEF Working
  <2>2. \A p \in Queues : worker[p] # j
    BY <1>3, <2>1 DEF TypeOK
  <2> QED BY <1>4, <1>5, <2>2 DEF OneWorker
<1>8. PendingIsQueued' /\ Bounded'
  BY <1>0, <1>1, <1>2, <1>6, SameJobs DEF PendingIsQueued, Bounded, turnVars
<1>9. FinalWordIsFinal' /\ Unsaid'
  BY <1>0, <1>2, <1>3, <1>6 DEF FinalWordIsFinal, Unsaid, Gone
<1>10. TypeOK'
  <2>1. worker' \in [Queues -> Enqueued' \cup {NoJob}] /\ phase' \in [Queues -> {"idle", "gate", "run"}]
    BY <1>1, <1>2, <1>3 DEF TypeOK
  <2>2. \A p \in Queues : phase'[p] = "idle" <=> worker'[p] = NoJob
    BY <1>3, <1>4, <1>5 DEF TypeOK
  <2>3. pending' \subseteq Enqueued'
    BY <1>1, <1>3 DEF TypeOK
  <2> QED BY <1>0, <1>2, <1>3, <2>1, <2>2, <2>3 DEF TypeOK, turnVars
<1>11. ToldIsCancelled'
  BY <1>0, <1>2, <1>4, <1>5 DEF ToldIsCancelled
<1> QED BY <1>2, <1>7, <1>8, <1>9, <1>10, <1>11

LEMMA StartKeeps == ASSUME QueueInv, NEW q \in Queues, Start(q) \/ GateSignal(q) PROVE QueueInv'
<1> USE DEF QueueInv
<1>0. phase[q] # "idle" /\ worker[q] \in Enqueued
      /\ UNCHANGED <<jobs, queued, pending, worker, attempts, results, words, told, turnVars, alive>>
  BY InHand DEF Start, GateSignal
<1>1. /\ phase' \in [Queues -> {"idle", "gate", "run"}]
      /\ \A p \in Queues : (phase'[p] = "idle" <=> phase[p] = "idle") /\ (phase'[p] = "gate" => phase[p] = "gate")
  BY DEF Start, GateSignal, TypeOK
<1>2. Working' = Working /\ InQueue' = InQueue /\ Enqueued' = Enqueued
  BY <1>0, <1>1, SameJobs DEF Working, InQueue
<1>3. told \subseteq cancelled' /\ cancelled' \subseteq Enqueued
  BY <1>0 DEF Start, GateSignal, ToldIsCancelled, TypeOK
<1>4. OneQueue' /\ OneWorker' /\ PendingIsQueued' /\ Bounded'
  BY <1>0, <1>1, <1>2, SameJobs DEF OneQueue, OneWorker, PendingIsQueued, Bounded, turnVars
<1>5. FinalWordIsFinal' /\ Unsaid' /\ ToldIsCancelled'
  BY <1>0, <1>1, <1>2, <1>3 DEF FinalWordIsFinal, Unsaid, Gone, ToldIsCancelled
<1>6. TypeOK'
  BY <1>0, <1>1, <1>2, <1>3 DEF TypeOK, turnVars
<1> QED BY <1>4, <1>5, <1>6

LEMMA BeginKeeps == ASSUME QueueInv, NEW s \in Sessions, TurnBegins(s) PROVE QueueInv'
<1> USE DEF QueueInv
<1>0. UNCHANGED <<jobs, queued, pending, worker, phase, attempts, words, alive>>
  BY DEF TurnBegins
<1>1. Working' = Working /\ InQueue' = InQueue /\ Enqueued' = Enqueued
  BY <1>0, SameJobs DEF Working, InQueue
<1>2. RunningOf(s) \subseteq Enqueued /\ pending \subseteq Enqueued
  BY InHand DEF RunningOf, TypeOK
<1>3. Signalled(s) \subseteq Enqueued /\ RunningOf(s) \subseteq Signalled(s)
  BY <1>2 DEF Signalled
<1>4. cancelled' = cancelled \cup Signalled(s) /\ told' = told \cup (RunningOf(s) \cap Served)
      /\ turns < MaxTurns /\ turns' = turns + 1 /\ open' = [open EXCEPT ![s] = @ + 1]
      /\ results' \subseteq results
  BY DEF TurnBegins
<1>5. turns' \in 0 .. MaxTurns /\ open' \in [Sessions -> 0 .. MaxTurns] /\ Bounded'
  BY <1>0, <1>4, MaxTurnsAssumption DEF TypeOK, Bounded
<1>6. OneQueue' /\ OneWorker' /\ PendingIsQueued'
  BY <1>0, <1>1, SameJobs DEF OneQueue, OneWorker, PendingIsQueued
<1>7. FinalWordIsFinal' /\ Unsaid'
  BY <1>0, <1>1 DEF FinalWordIsFinal, Unsaid, Gone
<1>8. TypeOK'
  BY <1>0, <1>1, <1>3, <1>4, <1>5 DEF TypeOK
<1>9. ToldIsCancelled'
  <2>1. told' \subseteq cancelled'
    BY <1>3, <1>4 DEF ToldIsCancelled
  <2>2. Served \subseteq Working
    BY DEF Served, Working
  <2>3. told' \cap InQueue' = {}
    BY <1>1, <1>4, <2>2 DEF ToldIsCancelled, PendingIsQueued
  <2>4. ASSUME NEW p \in Queues, phase[p] = "gate" PROVE worker[p] \notin Served
    BY <2>4 DEF Served, OneWorker
  <2> QED BY <1>0, <1>4, <2>1, <2>3, <2>4 DEF ToldIsCancelled
<1> QED BY <1>5, <1>6, <1>7, <1>8, <1>9

\* Two jobs are added behind those there are, which stay as they are.
LEMMA TwoNumbersMore == ASSUME NEW n \in Nat PROVE 1 .. n + 2 = (1 .. n) \cup {n + 1, n + 2}
  OBVIOUS

LEMMA Enqueues ==
  ASSUME TypeOK, Bounded, NEW s \in Sessions, NEW q \in Queues,
         NEW i, NEW c, i = Len(jobs) + 1, c = Len(jobs) + 2,
         jobs' = jobs \o <<[session |-> s, step |-> "describe_image", queue |-> q],
                           [session |-> s, step |-> "compact", queue |-> q]>>
  PROVE  /\ jobs' \in Seq([session : Sessions, step : Steps, queue : Queues])
         /\ Enqueued' = Enqueued \cup {i, c} /\ Len(jobs') = Len(jobs) + 2
         /\ i \notin Enqueued /\ c \notin Enqueued
         /\ \A j \in Enqueued : Key(j)' = Key(j)
         /\ Key(i)' = <<s, "describe_image">> /\ Key(c)' = <<s, "compact">>
<1> DEFINE image == [session |-> s, step |-> "describe_image", queue |-> q]
           compact == [session |-> s, step |-> "compact", queue |-> q]
<1>1. image \in Job /\ compact \in Job /\ jobs \in Seq(Job)
  BY DEF Job, Steps, TypeOK
<1>2. /\ jobs' \in Seq(Job) /\ Len(jobs') = Len(jobs) + 2
      /\ \A k \in 1 .. Len(jobs) : jobs'[k] = jobs[k]
      /\ jobs'[i] = image /\ jobs'[c] = compact
  <2> HIDE DEF image, compact
  <2>1. jobs' = jobs \o <<image, compact>>
    BY DEF image, compact
  <2> QED BY <1>1, <2>1, TwoMore
<1>3. Len(jobs) \in Nat
  BY <1>1
<1>4. Enqueued' = Enqueued \cup {i, c}
  BY <1>2, <1>3, TwoNumbersMore DEF Enqueued
<1>5. i \notin Enqueued /\ c \notin Enqueued
  BY <1>3 DEF Enqueued
<1>6. \A j \in Enqueued : Key(j)' = Key(j)
  BY <1>2 DEF Enqueued, Key
<1>7. Key(i)' = <<s, "describe_image">> /\ Key(c)' = <<s, "compact">>
  BY <1>2 DEF Key
<1> QED BY <1>2, <1>4, <1>5, <1>6, <1>7 DEF Job

LEMMA EndKeeps == ASSUME QueueInv, NEW s \in Sessions, NEW q \in Queues, TurnEnds(s, q) PROVE QueueInv'
<1> USE DEF QueueInv
<1>0. UNCHANGED <<worker, phase, attempts, cancelled, results, words, told, turns, alive>>
  BY DEF TurnEnds
<1>1. Working' = Working
  BY <1>0 DEF Working
<1>2. open' \in [Sessions -> 0 .. MaxTurns] /\ \A r \in Sessions : open'[r] <= turns'
  <2>1. open[s] > 0 /\ open' = [open EXCEPT ![s] = @ - 1] /\ open \in [Sessions -> 0 .. MaxTurns] /\ turns \in 0 .. MaxTurns
    BY DEF TurnEnds, TypeOK
  <2>2. open' \in [Sessions -> 0 .. MaxTurns]
    BY <2>1, MaxTurnsAssumption
  <2>3. ASSUME NEW r \in Sessions PROVE open'[r] <= turns'
    BY <1>0, <2>1, MaxTurnsAssumption DEF Bounded
  <2> QED BY <2>2, <2>3
<1>3. CASE UNCHANGED <<jobs, pending, queued>>
  <2>1. InQueue' = InQueue /\ Enqueued' = Enqueued
    BY <1>3, SameJobs DEF InQueue
  <2>2. OneQueue' /\ OneWorker' /\ PendingIsQueued' /\ Bounded'
    BY <1>0, <1>1, <1>2, <1>3, <2>1, SameJobs DEF OneQueue, OneWorker, PendingIsQueued, Bounded
  <2>3. FinalWordIsFinal' /\ Unsaid' /\ ToldIsCancelled'
    BY <1>0, <1>1, <2>1 DEF FinalWordIsFinal, Unsaid, Gone, ToldIsCancelled
  <2>4. TypeOK'
    BY <1>0, <1>2, <1>3, <2>1 DEF TypeOK
  <2> QED BY <2>2, <2>3, <2>4
<1>4. CASE ~UNCHANGED <<jobs, pending, queued>>
  <2>0. PICK i, c : i = Len(jobs) + 1 /\ c = Len(jobs) + 2
    OBVIOUS
  <2>1. /\ i + 1 \in JobIds
        /\ jobs' = jobs \o <<[session |-> s, step |-> "describe_image", queue |-> q],
                             [session |-> s, step |-> "compact", queue |-> q]>>
        /\ pending' = {k \in pending : jobs[k].session # s} \cup {i, i + 1}
        /\ queued' = [queued EXCEPT ![q] = @ \cup {i, i + 1}]
    BY <1>4, <2>0 DEF TurnEnds
  <2>2. Len(jobs) \in Nat /\ i + 1 = c /\ i # c
    BY <2>0, Numbers
  <2>3. /\ jobs' \in Seq([session : Sessions, step : Steps, queue : Queues])
        /\ Enqueued' = Enqueued \cup {i, c} /\ Len(jobs') = Len(jobs) + 2
        /\ i \notin Enqueued /\ c \notin Enqueued
        /\ \A j \in Enqueued : Key(j)' = Key(j)
        /\ Key(i)' = <<s, "describe_image">> /\ Key(c)' = <<s, "compact">>
    BY <2>0, <2>1, Enqueues
  <2>4. Bounded'
    <3>1. c <= 2 * MaxTurns
      BY <2>1, <2>2, MaxTurnsAssumption DEF JobIds
    <3> QED BY <1>0, <1>2, <2>0, <2>2, <2>3, <3>1 DEF Bounded
  <2>5. i \in JobIds /\ c \in JobIds
    BY <2>0, <2>1, <2>2, MaxTurnsAssumption DEF JobIds
  <2>6. /\ queued' \in [Queues -> SUBSET Enqueued'] /\ InQueue' = InQueue \cup {i, c} /\ OneQueue'
    BY <2>1, <2>2, <2>3 DEF TypeOK, InQueue, OneQueue, Queues
  <2>7. Working \subseteq Enqueued
    BY InHand DEF Working
  <2>8. PendingIsQueued'
    <3>1. pending \subseteq Enqueued
      BY DEF TypeOK
    <3>2. ASSUME NEW j \in pending', NEW k \in pending', Key(j)' = Key(k)' PROVE j = k
      <4>1. \A m \in pending : m \in pending' => Key(m)' = Key(m) /\ jobs[m].session # s
        BY <2>1, <2>2, <2>3, <3>1
      <4>2. \A m \in pending : m \in pending' => Key(m)'[1] # s
        BY <4>1 DEF Key
      <4>3. Key(i)'[1] = s /\ Key(c)'[1] = s /\ Key(i)'[2] # Key(c)'[2]
        BY <2>3
      <4>4. j \in pending \/ j = i \/ j = c
        BY <2>1, <2>2
      <4>5. k \in pending \/ k = i \/ k = c
        BY <2>1, <2>2
      <4>6. CASE j \in pending /\ k \in pending
        BY <3>2, <4>1, <4>6 DEF PendingIsQueued
      <4>7. CASE ~(j \in pending /\ k \in pending)
        BY <3>2, <4>2, <4>3, <4>4, <4>5, <4>7
      <4> QED BY <4>6, <4>7
    <3>3. pending' \subseteq InQueue' /\ InQueue' \cap Working' = {}
      BY <1>1, <2>1, <2>2, <2>3, <2>6, <2>7 DEF PendingIsQueued
    <3> QED BY <3>2, <3>3 DEF PendingIsQueued
  <2>9. FinalWordIsFinal' /\ Unsaid'
    <3>1. words[i] = <<>> /\ words[c] = <<>>
      BY <2>3, <2>5 DEF Unsaid
    <3>2. Len(<<>>) = 0
      OBVIOUS
    <3>3. ASSUME NEW j \in Enqueued PROVE Len(words'[j]) <= 1 /\ (words'[j] # <<>> => Gone(j)')
      BY <1>0, <1>1, <2>3, <2>6 DEF FinalWordIsFinal, Gone
    <3>4. \A j \in {i, c} : Len(words'[j]) <= 1 /\ words'[j] = <<>>
      BY <1>0, <3>1, <3>2
    <3>5. Unsaid'
      BY <1>0, <2>3 DEF Unsaid
    <3> QED BY <2>3, <3>3, <3>4, <3>5 DEF FinalWordIsFinal
  <2>10. OneWorker' /\ ToldIsCancelled'
    <3>1. told \subseteq Enqueued
      BY DEF TypeOK
    <3> QED BY <1>0, <2>3, <2>6, <3>1 DEF OneWorker, ToldIsCancelled
  <2>11. TypeOK'
    <3>1. pending' \subseteq Enqueued'
      BY <2>1, <2>2, <2>3 DEF TypeOK
    <3> QED BY <1>0, <1>2, <2>3, <2>6, <3>1 DEF TypeOK
  <2> QED BY <2>4, <2>6, <2>8, <2>9, <2>10, <2>11
<1> QED BY <1>3, <1>4

(***************************************************************************)
(* The theorems.                                                           *)
(***************************************************************************)
LEMMA QueueKept == QueueInv /\ [Next]_vars => QueueInv'
<1> SUFFICES ASSUME QueueInv, [Next]_vars PROVE QueueInv'
  OBVIOUS
<1>1. CASE UNCHANGED vars
  <2>1. UNCHANGED <<jobs, attempts, cancelled, words, told, queued, pending, worker, phase, results, turns, open, alive>>
    BY <1>1 DEF vars, jobVars, turnVars
  <2>2. Working' = Working /\ InQueue' = InQueue /\ Enqueued' = Enqueued
    BY <2>1, SameJobs DEF Working, InQueue
  <2> QED BY <2>1, <2>2, SameJobs
          DEF QueueInv, TypeOK, Bounded, OneQueue, OneWorker, PendingIsQueued, FinalWordIsFinal, Unsaid, Gone, ToldIsCancelled
<1>2. CASE Next
  BY <1>2, BeginKeeps, EndKeeps, DropKeeps, TakeKeeps, StartKeeps, RequeueKeeps, RecordKeeps, StopKeeps DEF Next
<1> QED BY <1>1, <1>2

THEOREM QueueInvariant == Spec => []QueueInv
  BY QueueInitial, QueueKept, PTL DEF Spec

\* Every variable keeps its type: a job has fewer attempts behind it than it is
\* given, and a worker is idle exactly while it has no job.
THEOREM TypeCorrect == Spec => []TypeOK
<1>1. QueueInv => TypeOK
  BY DEF QueueInv
<1> QED BY <1>1, QueueInvariant, PTL

\* A pending job is queued and in no worker's hands, and alone of its kind,
\* through every order of supersession, preemption and requeuing.
THEOREM PendingAlwaysQueued == Spec => []PendingIsQueued
<1>1. QueueInv => PendingIsQueued
  BY DEF QueueInv
<1> QED BY <1>1, QueueInvariant, PTL

\* A job says at most one final word, and is never queued or run after it.
THEOREM FinalWordAlwaysFinal == Spec => []FinalWordIsFinal
<1>1. QueueInv => FinalWordIsFinal
  BY DEF QueueInv
<1> QED BY <1>1, QueueInvariant, PTL

\* A run that was under way when a turn of its session began never reports its
\* job done: the signal is there until the run is over.
THEOREM NeverDoneBehindATurn == Spec => NoDoneBehindATurn
<1> DEFINE Quiet == \A j \in Enqueued : j \in told => words'[j] # Append(words[j], "ok")
<1>1. QueueInv /\ [Next]_vars => [Quiet]_vars
  <2> SUFFICES ASSUME QueueInv, Next, NEW j \in Enqueued, j \in told PROVE words'[j] # Append(words[j], "ok")
    OBVIOUS
  <2>1. j \in cancelled /\ j \in JobIds /\ words \in [JobIds -> Seq(FinalWords)] /\ words[j] \in Seq(FinalWords)
    BY Numbers DEF QueueInv, ToldIsCancelled, TypeOK
  <2>2. words[j] # Append(words[j], "ok")
    BY <2>1 DEF FinalWords
  <2>3. ASSUME NEW w \in FinalWords \ {"ok"} PROVE Append(words[j], w) # Append(words[j], "ok")
    BY <2>1 DEF FinalWords
  <2>4. words' = words \/ \E k \in JobIds, w \in FinalWords : Say(k, w) /\ (k = j => w # "ok")
    <3>1. ASSUME NEW q \in Queues, Record(q) PROVE \E k \in JobIds, w \in FinalWords : Say(k, w) /\ (k = j => w # "ok")
      <4>1. worker[q] \in JobIds
        BY <3>1, InHand DEF QueueInv, Record
      <4> QED BY <2>1, <3>1, <4>1 DEF Record, Outcomes, FinalWords
    <3>2. ASSUME NEW q \in Queues, Drop(q)
          PROVE  words' = words \/ \E k \in JobIds, w \in FinalWords : Say(k, w) /\ (k = j => w # "ok")
      <4>1. \A k \in queued[q] : k \in JobIds
        BY Numbers DEF QueueInv, TypeOK
      <4> QED BY <3>2, <4>1 DEF Drop, FinalWords
    <3> QED BY <3>1, <3>2 DEF Next, TurnBegins, TurnEnds, Take, Start, GateSignal, Requeue, StopWorker, jobVars
  <2>5. CASE words' = words
    BY <2>2, <2>5
  <2>6. ASSUME NEW k \in JobIds, NEW w \in FinalWords, Say(k, w), k = j => w # "ok" PROVE words'[j] # Append(words[j], "ok")
    <3>1. CASE k = j
      BY <2>1, <2>3, <2>6, <3>1 DEF Say
    <3>2. CASE k # j
      BY <2>1, <2>2, <2>6, <3>2 DEF Say
    <3> QED BY <3>1, <3>2
  <2> QED BY <2>4, <2>5, <2>6
<1> QED BY <1>1, QueueInvariant, PTL DEF Spec, NoDoneBehindATurn

-----------------------------------------------------------------------------
(* The queue implements the board.                                         *)

(***************************************************************************)
(* What the board needs beyond the invariant above: jobs stay on their     *)
(* side, a stale job is pending only if it was requeued, and what is       *)
(* queued without being pending has another of its session and step to     *)
(* stand for it.                                                           *)
(***************************************************************************)
InSide ==
  /\ \A q \in Queues : \A j \in queued[q] : jobs[j].queue = q
  /\ \A q \in Queues : phase[q] # "idle" => jobs[worker[q]].queue = q
FreshOrRequeued == \A j \in pending : \A k \in Enqueued : Key(k) = Key(j) /\ k > j => attempts[j] > 0
StandsFor(k, j) == k # j /\ Key(k) = Key(j) /\ (k > j \/ attempts[k] > 0)
StoodFor == \A j \in InQueue \ pending : \E k \in Enqueued : StandsFor(k, j)

BoardInv == InSide /\ FreshOrRequeued /\ StoodFor

\* Nothing is queued or requeued: what is true of the jobs stays true.
LEMMA BoardLeft ==
  ASSUME QueueInv, BoardInv, UNCHANGED <<jobs, attempts>>,
         \A q \in Queues : queued'[q] \subseteq queued[q],
         \A q \in Queues : phase'[q] # "idle" => \/ phase[q] # "idle" /\ worker'[q] = worker[q]
                                                 \/ worker'[q] \in queued[q],
         pending' \subseteq pending, InQueue' \ pending' \subseteq InQueue \ pending
  PROVE  BoardInv'
<1>1. InSide'
  BY DEF BoardInv, InSide
<1>2. FreshOrRequeued'
  BY SameJobs DEF BoardInv, FreshOrRequeued
<1>3. StoodFor'
  BY SameJobs DEF BoardInv, StoodFor, StandsFor
<1> QED BY <1>1, <1>2, <1>3 DEF BoardInv

\* A job requeued stands for the one it replaces.
LEMMA BoardRequeue == ASSUME QueueInv, BoardInv, NEW q \in Queues, Requeue(q) PROVE BoardInv'
<1> USE DEF QueueInv
<1>w. PICK w : w = worker[q]
  OBVIOUS
<1>0. /\ phase[q] = "run" /\ w \in Enqueued /\ w \in JobIds /\ w \in Working /\ WorkerFree(q)
      /\ pending' = (pending \ SameKey(w)) \cup {w}
      /\ queued' = [queued EXCEPT ![q] = @ \cup {w}]
      /\ attempts' = [attempts EXCEPT ![w] = @ + 1]
      /\ UNCHANGED jobs
  BY <1>w, InHand DEF Requeue
<1>1. InQueue' = InQueue \cup {w} /\ Enqueued' = Enqueued
  BY <1>w, <1>0, BackInQueue, SameJobs
<1>2. InSide'
  <2>1. \A p \in Queues : phase'[p] # "idle" => phase[p] # "idle" /\ worker'[p] = worker[p]
    BY <1>0, Freed
  <2>2. jobs[w].queue = q
    BY <1>w, <1>0 DEF BoardInv, InSide
  <2>3. \A p \in Queues : \A j \in queued'[p] : j \in queued[p] \/ (p = q /\ j = w)
    BY <1>0 DEF TypeOK
  <2> QED BY <1>0, <2>1, <2>2, <2>3 DEF BoardInv, InSide
<1>3. attempts'[w] > 0 /\ \A j \in Enqueued : j # w => attempts'[j] = attempts[j]
  BY <1>0, Numbers, MaxAttemptsAssumption DEF TypeOK
<1>4. \A j : Key(j)' = Key(j)
  BY <1>0, SameJobs
<1>5. pending \subseteq Enqueued /\ InQueue \subseteq Enqueued
  BY DEF TypeOK, InQueue, Queues
<1>6. FreshOrRequeued'
  BY <1>0, <1>1, <1>3, <1>4, <1>5 DEF BoardInv, FreshOrRequeued
<1>7. StoodFor'
  <2> SUFFICES ASSUME NEW j \in InQueue' \ pending' PROVE \E k \in Enqueued : StandsFor(k, j)'
    BY <1>1 DEF StoodFor
  <2>1. j # w /\ j \in InQueue /\ (j \notin pending \/ j \in SameKey(w))
    BY <1>0, <1>1
  <2>2. CASE j \in SameKey(w)
    <3>1. Key(w)' = Key(j)' /\ w # j /\ attempts'[w] > 0
      BY <1>3, <1>4, <2>1, <2>2 DEF SameKey
    <3>2. w \in Enqueued /\ (w # j /\ Key(w)' = Key(j)' /\ (w > j \/ attempts'[w] > 0))
      BY <1>0, <3>1
    <3> QED BY <3>2 DEF StandsFor
  <2>3. CASE j \notin pending
    <3>1. PICK k \in Enqueued : StandsFor(k, j)
      BY <2>1, <2>3 DEF BoardInv, StoodFor
    <3>2. StandsFor(k, j)'
      BY <1>3, <1>4, <3>1 DEF StandsFor
    <3> QED BY <3>2
  <2> QED BY <2>1, <2>2, <2>3
<1> QED BY <1>2, <1>6, <1>7 DEF BoardInv

\* A job enqueued is fresher than the one it replaces.
LEMMA BoardEnd == ASSUME QueueInv, BoardInv, NEW s \in Sessions, NEW q \in Queues, TurnEnds(s, q) PROVE BoardInv'
<1> USE DEF QueueInv
<1>0. UNCHANGED <<worker, phase, attempts>>
  BY DEF TurnEnds
<1>1. CASE UNCHANGED <<jobs, pending, queued>>
  <2>1. InQueue' = InQueue
    BY <1>1 DEF InQueue
  <2> QED BY <1>0, <1>1, <2>1, BoardLeft
<1>2. CASE ~UNCHANGED <<jobs, pending, queued>>
  <2>0. PICK i, c : i = Len(jobs) + 1 /\ c = Len(jobs) + 2
    OBVIOUS
  <2>1. /\ i + 1 \in JobIds
        /\ jobs' = jobs \o <<[session |-> s, step |-> "describe_image", queue |-> q],
                             [session |-> s, step |-> "compact", queue |-> q]>>
        /\ pending' = {k \in pending : jobs[k].session # s} \cup {i, i + 1}
        /\ queued' = [queued EXCEPT ![q] = @ \cup {i, i + 1}]
    BY <1>2, <2>0 DEF TurnEnds
  <2>2. Len(jobs) \in Nat /\ i + 1 = c /\ i # c /\ Enqueued \subseteq Nat /\ \A k \in Enqueued : k < i /\ k < c
    BY <2>0, Numbers DEF Enqueued
  <2>3. /\ Enqueued' = Enqueued \cup {i, c}
        /\ \A j \in Enqueued : Key(j)' = Key(j)
        /\ Key(i)' = <<s, "describe_image">> /\ Key(c)' = <<s, "compact">>
    BY <2>0, <2>1, Enqueues
  <2>4. /\ \A k \in Enqueued : jobs'[k] = jobs[k]
        /\ jobs'[i].queue = q /\ jobs'[c].queue = q
    <3> DEFINE image == [session |-> s, step |-> "describe_image", queue |-> q]
               compact == [session |-> s, step |-> "compact", queue |-> q]
    <3>1. image \in Job /\ compact \in Job /\ jobs \in Seq(Job) /\ image.queue = q /\ compact.queue = q
      BY DEF Job, Steps, TypeOK
    <3>2. jobs' = jobs \o <<image, compact>>
      BY <2>1
    <3> HIDE DEF image, compact
    <3> QED BY <2>0, <3>1, <3>2, TwoMore DEF Enqueued
  <2>5. pending \subseteq Enqueued /\ InQueue \subseteq Enqueued /\ \A p \in Queues : queued[p] \subseteq Enqueued
    BY DEF TypeOK, InQueue, Queues
  <2>6. InQueue' = InQueue \cup {i, c} /\ \A p \in Queues : queued'[p] \subseteq queued[p] \cup (IF p = q THEN {i, c} ELSE {})
    BY <2>1, <2>2 DEF TypeOK, InQueue, Queues
  <2>7. InSide'
    <3>1. \A p \in Queues : phase[p] # "idle" => worker[p] \in Enqueued
      BY InHand
    <3> QED BY <1>0, <2>4, <2>5, <2>6, <3>1 DEF BoardInv, InSide
  <2>8. FreshOrRequeued'
    <3> SUFFICES ASSUME NEW j \in pending', NEW k \in Enqueued', Key(k)' = Key(j)', k > j PROVE attempts'[j] > 0
      BY DEF FreshOrRequeued
    <3>1. CASE j \in {i, c}
      <4>1. Key(k)' = Key(j)' /\ k \in {i, c} /\ k # j
        <5>1. Enqueued' = Enqueued \cup {i, c} /\ k \in Enqueued' /\ k > j
          BY <2>3
        <5>2. k \in {i, c} /\ k # j
          BY <2>0, <2>2, <3>1, <5>1
        <5> QED BY <5>2
      <4> QED BY <2>3, <3>1, <4>1
    <3>2. CASE j \notin {i, c}
      <4>1. j \in pending /\ jobs[j].session # s /\ j \in Enqueued
        BY <2>1, <2>2, <2>5, <3>2
      <4>2. Key(j)'[1] # s
        BY <2>3, <4>1 DEF Key
      <4>3. k \in Enqueued
        BY <2>3, <4>2
      <4>4. Key(k) = Key(j) /\ k > j
        BY <2>3, <4>1, <4>3
      <4>5. attempts[j] > 0
        BY <4>1, <4>3, <4>4 DEF BoardInv, FreshOrRequeued
      <4> QED BY <1>0, <4>5
    <3> QED BY <3>1, <3>2
  <2>9. StoodFor'
    <3> SUFFICES ASSUME NEW j \in InQueue' \ pending' PROVE \E k \in Enqueued' : StandsFor(k, j)'
      BY DEF StoodFor
    <3>1. j \in InQueue /\ j \in Enqueued /\ (j \in pending => jobs[j].session = s)
      BY <2>1, <2>2, <2>5, <2>6
    <3>2. CASE j \in pending
      <4>0. jobs[j] \in Job
        <5>1. jobs \in Seq(Job)
          BY DEF TypeOK, Job
        <5> QED BY <3>1, <5>1 DEF Enqueued
      <4>1. jobs[j].session = s /\ jobs[j].step \in Steps
        BY <3>1, <3>2, <4>0 DEF Job
      <4>2. Key(j)' = Key(i)' \/ Key(j)' = Key(c)'
        BY <2>3, <3>1, <4>1 DEF Key, Steps
      <4>3. i # j /\ c # j /\ i > j /\ c > j
        BY <2>2, <3>1
      <4> QED BY <2>3, <4>2, <4>3 DEF StandsFor
    <3>3. CASE j \notin pending
      <4>1. PICK k \in Enqueued : StandsFor(k, j)
        BY <3>1, <3>3 DEF BoardInv, StoodFor
      <4>2. StandsFor(k, j)'
        BY <1>0, <2>3, <3>1, <4>1 DEF StandsFor
      <4> QED BY <2>3, <4>2
    <3> QED BY <3>2, <3>3
  <2> QED BY <2>7, <2>8, <2>9 DEF BoardInv
<1> QED BY <1>1, <1>2

LEMMA BoardKept == QueueInv /\ BoardInv /\ [Next]_vars => BoardInv'
<1> SUFFICES ASSUME QueueInv, BoardInv, [Next]_vars PROVE BoardInv'
  OBVIOUS
<1> USE DEF QueueInv
<1>1. ASSUME UNCHANGED <<jobs, queued, pending, worker, attempts>>,
             \A q \in Queues : phase'[q] # "idle" => phase[q] # "idle"
      PROVE  BoardInv'
  <2>1. InQueue' = InQueue
    BY <1>1 DEF InQueue
  <2> QED BY <1>1, <2>1, BoardLeft
<1>2. ASSUME NEW q \in Queues, Start(q) \/ GateSignal(q) PROVE BoardInv'
  BY <1>1, <1>2 DEF Start, GateSignal, TypeOK
<1>3. ASSUME NEW q \in Queues, Record(q) \/ StopWorker(q) PROVE BoardInv'
  <2>1. WorkerFree(q) /\ UNCHANGED <<jobs, queued, pending, attempts>>
    BY <1>3 DEF Record, StopWorker, jobVars
  <2>2. InQueue' = InQueue /\ \A p \in Queues : phase'[p] # "idle" => phase[p] # "idle" /\ worker'[p] = worker[p]
    BY <2>1, Freed DEF InQueue
  <2> QED BY <2>1, <2>2, BoardLeft
<1>4. ASSUME NEW q \in Queues, Drop(q) PROVE BoardInv'
  <2>1. PICK j \in queued[q] : j \notin pending /\ queued' = [queued EXCEPT ![q] = @ \ {j}]
    BY <1>4 DEF Drop
  <2>2. UNCHANGED <<jobs, pending, worker, phase, attempts>>
    BY <1>4 DEF Drop
  <2>3. InQueue' = InQueue \ {j}
    BY <2>1, <2>2, OutOfQueue
  <2>4. \A p \in Queues : queued'[p] \subseteq queued[p]
    BY <2>1 DEF TypeOK
  <2> QED BY <2>2, <2>3, <2>4, BoardLeft
<1>5. ASSUME NEW q \in Queues, Take(q) PROVE BoardInv'
  <2>1. PICK j \in queued[q] : /\ j \in pending /\ pending' = pending \ {j}
                               /\ queued' = [queued EXCEPT ![q] = @ \ {j}]
                               /\ worker' = [worker EXCEPT ![q] = j]
                               /\ phase' = [phase EXCEPT ![q] = "gate"]
    BY <1>5 DEF Take
  <2>2. UNCHANGED <<jobs, attempts>>
    BY <1>5 DEF Take, jobVars
  <2>3. InQueue' = InQueue \ {j}
    BY <2>1, <2>2, OutOfQueue
  <2>4. \A p \in Queues : queued'[p] \subseteq queued[p]
    BY <2>1 DEF TypeOK
  <2>5. \A p \in Queues : phase'[p] # "idle" => \/ phase[p] # "idle" /\ worker'[p] = worker[p]
                                                \/ worker'[p] \in queued[p]
    BY <2>1 DEF TypeOK
  <2> QED BY <2>1, <2>2, <2>3, <2>4, <2>5, BoardLeft
<1>6. ASSUME NEW s \in Sessions, TurnBegins(s) PROVE BoardInv'
  BY <1>1, <1>6 DEF TurnBegins
<1>7. CASE UNCHANGED vars
  BY <1>1, <1>7 DEF vars, jobVars
<1> QED BY <1>2, <1>3, <1>4, <1>5, <1>6, <1>7, BoardRequeue, BoardEnd DEF Next

LEMMA BoardHolds == Spec => [](QueueInv /\ BoardInv)
<1>1. Init => BoardInv
  BY DEF Init, BoardInv, InSide, FreshOrRequeued, StoodFor, InQueue, Queues
<1> QED BY <1>1, QueueInitial, QueueKept, BoardKept, PTL DEF Spec

(***************************************************************************)
(* Where the board says a job is, before a step and after it.              *)
(***************************************************************************)
LEMMA WorkingEnqueued == ASSUME QueueInv PROVE Working \subseteq Enqueued /\ InQueue \subseteq Enqueued /\ Enqueued \subseteq JobIds
<1> USE DEF QueueInv
<1>1. Working \subseteq Enqueued
  BY InHand DEF Working
<1>2. InQueue \subseteq Enqueued
  BY DEF InQueue, TypeOK, Queues
<1> QED BY <1>1, <1>2, Numbers

LEMMA PlaceIs ==
  ASSUME QueueInv, NEW j \in JobIds
  PROVE  /\ j \notin Enqueued => Places[j] = "nowhere"
         /\ j \in InQueue => Places[j] = "waiting"
         /\ j \in Working => Places[j] = "in hand"
         /\ j \in Enqueued /\ j \notin InQueue \cup Working => Places[j] = "gone"
<1>1. Places[j] = Place(j)
  BY DEF Places
<1>2. InQueue \cap Working = {}
  BY DEF QueueInv, PendingIsQueued
<1> QED BY <1>1, <1>2, WorkingEnqueued DEF Place, Gone

LEMMA PlaceIsNext ==
  ASSUME QueueInv', NEW j \in JobIds
  PROVE  /\ j \notin Enqueued' => Places'[j] = "nowhere"
         /\ j \in InQueue' => Places'[j] = "waiting"
         /\ j \in Working' => Places'[j] = "in hand"
         /\ j \in Enqueued' /\ j \notin InQueue' \cup Working' => Places'[j] = "gone"
<1> USE DEF QueueInv
<1>1. Places'[j] = Place(j)'
  BY DEF Places
<1>2. InQueue' \cap Working' = {}
  BY DEF PendingIsQueued
<1>3. InQueue' \subseteq Enqueued'
  BY DEF InQueue, TypeOK, Queues
<1>4. Working' \subseteq Enqueued'
  BY DEF Working, TypeOK
<1> QED BY <1>1, <1>2, <1>3, <1>4 DEF Place, Gone

\* A place where nothing changes is the same place.
LEMMA Stays ==
  ASSUME QueueInv, QueueInv', NEW j \in JobIds,
         (j \in Enqueued) <=> (j \in Enqueued'), (j \in InQueue) <=> (j \in InQueue'), (j \in Working) <=> (j \in Working')
  PROVE  Places'[j] = Places[j]
<1>1. CASE j \notin Enqueued
  <2>1. Places[j] = "nowhere"
    BY <1>1, PlaceIs
  <2>2. j \notin Enqueued'
    BY <1>1
  <2>3. Places'[j] = "nowhere"
    BY <2>2, PlaceIsNext
  <2> QED BY <2>1, <2>3
<1>2. CASE j \in InQueue
  <2>1. Places[j] = "waiting"
    BY <1>2, PlaceIs
  <2>2. j \in InQueue'
    BY <1>2
  <2>3. Places'[j] = "waiting"
    BY <2>2, PlaceIsNext
  <2> QED BY <2>1, <2>3
<1>3. CASE j \in Working
  <2>1. Places[j] = "in hand"
    BY <1>3, PlaceIs
  <2>2. j \in Working'
    BY <1>3
  <2>3. Places'[j] = "in hand"
    BY <2>2, PlaceIsNext
  <2> QED BY <2>1, <2>3
<1>4. CASE j \in Enqueued /\ j \notin InQueue \cup Working
  <2>1. Places[j] = "gone"
    BY <1>4, PlaceIs
  <2>2. j \in Enqueued' /\ j \notin InQueue' \cup Working'
    BY <1>4
  <2>3. Places'[j] = "gone"
    BY <2>2, PlaceIsNext
  <2> QED BY <2>1, <2>3
<1> QED BY <1>1, <1>2, <1>3, <1>4

LEMMA Moves ==
  ASSUME NEW j \in JobIds, NEW x, Places'[j] = x, \A k \in JobIds \ {j} : Places'[k] = Places[k]
  PROVE  Places' = [Places EXCEPT ![j] = x]
<1>1. Places' = [k \in JobIds |-> Places'[k]]
  BY DEF Places
<1>2. Places = [k \in JobIds |-> Places[k]]
  BY DEF Places
<1> HIDE DEF Places
<1> QED BY <1>1, <1>2

LEMMA AllStay ==
  ASSUME QueueInv, QueueInv', Enqueued' = Enqueued, InQueue' = InQueue, Working' = Working
  PROVE  Places' = Places
<1>1. \A k \in JobIds : Places'[k] = Places[k]
  BY Stays
<1> QED BY <1>1 DEF Places

\* What the board calls left, in hand and another is what the queue calls so.
LEMMA BoardSees ==
  ASSUME QueueInv
  PROVE  /\ Board!Left = Enqueued /\ Board!InHand = Working
         /\ \A j \in Enqueued : Board!Others(j) = {k \in Enqueued \ {j} : Key(k) = Key(j)}
<1>1. Board!Left = Enqueued
  BY DEF Board!Left, Enqueued
<1>2. Board!InHand = Working
  BY <1>1, PlaceIs, WorkingEnqueued DEF Board!InHand
<1>3. \A j \in Enqueued : Board!Others(j) = {k \in Enqueued \ {j} : Key(k) = Key(j)}
  BY <1>1 DEF Board!Others, Key
<1> QED BY <1>1, <1>2, <1>3

\* Whoever works, works on its side.
LEMMA WorksAside ==
  ASSUME QueueInv, BoardInv, NEW k \in Working
  PROVE  \E p \in Queues : phase[p] # "idle" /\ worker[p] = k /\ jobs[k].queue = p
  BY DEF Working, BoardInv, InSide

\* A worker that is done leaves the other as it is.
LEMMA FreedWorking ==
  ASSUME QueueInv, NEW q \in Queues, WorkerFree(q), UNCHANGED jobs
  PROVE  Working' = IF phase[q] = "idle" THEN Working ELSE Working \ {worker[q]}
<1> USE DEF QueueInv
<1>1. /\ Working' \subseteq Working
      /\ phase[q] # "idle" => worker[q] \notin Working'
  BY Freed
<1>2. ASSUME NEW p \in Queues, phase[p] # "idle", p # q PROVE worker[p] \in Working'
  <2>1. phase'[p] = phase[p] /\ worker'[p] = worker[p]
    BY <1>2 DEF WorkerFree, TypeOK
  <2> QED BY <1>2, <2>1 DEF Working
<1>3. ASSUME NEW k \in Working, phase[q] = "idle" \/ k # worker[q] PROVE k \in Working'
  BY <1>2, <1>3 DEF Working
<1> QED BY <1>1, <1>3

(***************************************************************************)
(* One lemma per kind of step: it is a step of the board.                  *)
(***************************************************************************)
LEMMA TakesUp == ASSUME QueueInv, BoardInv, QueueInv', NEW q \in Queues, Take(q) PROVE Board!BoardNext
<1> USE DEF QueueInv
<1>1. PICK j \in queued[q] : /\ j \in pending
                             /\ queued' = [queued EXCEPT ![q] = @ \ {j}]
                             /\ worker' = [worker EXCEPT ![q] = j]
                             /\ phase' = [phase EXCEPT ![q] = "gate"]
  BY DEF Take
<1>2. q \in alive /\ phase[q] = "idle" /\ UNCHANGED <<jobs, attempts, words, told, alive>>
  BY DEF Take, jobVars
<1>3. InQueue' = InQueue \ {j} /\ j \in InQueue /\ j \in Enqueued
  BY <1>1, <1>2, OutOfQueue
<1>4. Enqueued' = Enqueued /\ j \in JobIds /\ j \notin Working
  BY <1>2, <1>3, SameJobs, Numbers DEF PendingIsQueued
<1>5. Working' = Working \cup {j}
  <2>1. phase'[q] = "gate" /\ worker'[q] = j /\ \A p \in Queues \ {q} : phase'[p] = phase[p] /\ worker'[p] = worker[p]
    BY <1>1 DEF TypeOK
  <2> QED BY <1>2, <2>1 DEF Working
<1>6. Places[j] = "waiting" /\ Places' = [Places EXCEPT ![j] = "in hand"]
  <2>1. Places'[j] = "in hand" /\ \A k \in JobIds \ {j} : Places'[k] = Places[k]
    BY <1>3, <1>4, <1>5, PlaceIsNext, Stays
  <2> QED BY <1>3, <1>4, <2>1, PlaceIs, Moves
<1>7. Told' = Told
  BY <1>2, <1>3, <1>5 DEF Told, ToldIsCancelled
<1>8. jobs[j].queue = q /\ \A k \in Working : jobs[k].queue # q
  BY <1>1, <1>2, WorksAside DEF BoardInv, InSide
<1>9. Board!Stale(j) => Board!PutBackBefore(j)
  BY <1>1, <1>3, BoardSees DEF Board!Stale, Board!PutBackBefore, BoardInv, FreshOrRequeued
<1>10. Board!TakeUp(j)
  BY <1>2, <1>6, <1>7, <1>8, <1>9, BoardSees DEF Board!TakeUp
<1> QED BY <1>3, <1>10, BoardSees DEF Board!BoardNext

LEMMA GoesBack == ASSUME QueueInv, BoardInv, QueueInv', NEW q \in Queues, Requeue(q) PROVE Board!BoardNext
<1> USE DEF QueueInv
<1>0. PICK w : w = worker[q]
  OBVIOUS
<1>1. /\ phase[q] = "run" /\ w \in Enqueued /\ w \in JobIds /\ w \in Working /\ WorkerFree(q)
      /\ attempts[w] + 1 < MaxAttempts
      /\ attempts' = [attempts EXCEPT ![w] = @ + 1]
      /\ queued' = [queued EXCEPT ![q] = @ \cup {w}]
      /\ told' = told \ {w}
      /\ UNCHANGED <<jobs, words, alive>>
  BY <1>0, InHand DEF Requeue
<1>2. InQueue' = InQueue \cup {w} /\ Enqueued' = Enqueued /\ Working' = Working \ {w}
  BY <1>0, <1>1, BackInQueue, SameJobs, FreedWorking
<1>3. Places[w] = "in hand" /\ Places' = [Places EXCEPT ![w] = "waiting"]
  <2>1. Places'[w] = "waiting" /\ \A k \in JobIds \ {w} : Places'[k] = Places[k]
    BY <1>1, <1>2, PlaceIsNext, Stays
  <2> QED BY <1>1, <2>1, PlaceIs, Moves
<1>4. Told' = Told \ {w}
  BY <1>1, <1>2 DEF Told
<1>5. Board!PutBack(w)
  BY <1>1, <1>3, <1>4 DEF Board!PutBack
<1> QED BY <1>1, <1>5, BoardSees DEF Board!BoardNext

LEMMA Finishes == ASSUME QueueInv, BoardInv, QueueInv', NEW q \in Queues, Record(q) PROVE Board!BoardNext
<1> USE DEF QueueInv
<1>0. PICK w : w = worker[q]
  OBVIOUS
<1>1. /\ phase[q] = "run" /\ w \in Enqueued /\ w \in JobIds /\ w \in Working /\ WorkerFree(q)
      /\ told' = told \ {w}
      /\ UNCHANGED <<jobs, queued, attempts, alive>>
  BY <1>0, InHand DEF Record
<1>2. PICK word \in Outcomes(w) : (word = "preempted" => attempts[w] + 1 >= MaxAttempts) /\ Say(w, word)
  BY <1>0 DEF Record
<1>3. word \in {"ok", "failed", "preempted"} /\ (word = "ok" => w \notin cancelled)
  BY DEF Outcomes
<1>4. InQueue' = InQueue /\ Enqueued' = Enqueued /\ Working' = Working \ {w} /\ w \notin InQueue
  BY <1>0, <1>1, SameJobs, FreedWorking DEF InQueue, PendingIsQueued
<1>5. Places[w] = "in hand" /\ Places' = [Places EXCEPT ![w] = "gone"]
  <2>1. Places'[w] = "gone" /\ \A k \in JobIds \ {w} : Places'[k] = Places[k]
    BY <1>1, <1>4, PlaceIsNext, Stays
  <2> QED BY <1>1, <2>1, PlaceIs, Moves
<1>6. words' = [words EXCEPT ![w] = <<word>>]
  <2>1. words[w] = <<>>
    BY <1>1 DEF FinalWordIsFinal, Gone
  <2> QED BY <1>1, <1>2, <2>1 DEF Say, TypeOK
<1>7. Told' = Told \ {w} /\ (word = "ok" => w \notin Told)
  BY <1>1, <1>3, <1>4 DEF Told, ToldIsCancelled
<1>8. word = "preempted" => attempts[w] + 1 = MaxAttempts
  <2>1. attempts[w] \in Nat /\ attempts[w] < MaxAttempts /\ MaxAttempts \in Nat
    BY <1>1, MaxAttemptsAssumption DEF TypeOK
  <2> QED BY <1>2, <2>1
<1>9. Board!Finish(w, word)
  BY <1>1, <1>5, <1>6, <1>7, <1>8 DEF Board!Finish
<1> QED BY <1>1, <1>3, <1>9, BoardSees DEF Board!BoardNext

LEMMA Discards == ASSUME QueueInv, BoardInv, QueueInv', NEW q \in Queues, Drop(q) PROVE Board!BoardNext
<1> USE DEF QueueInv
<1>1. PICK j \in queued[q] : /\ j \notin pending
                             /\ queued' = [queued EXCEPT ![q] = @ \ {j}]
                             /\ Say(j, "superseded") \/ words' = words
  BY DEF Drop
<1>2. UNCHANGED <<jobs, worker, phase, attempts, told, alive>>
  BY DEF Drop
<1>3. InQueue' = InQueue \ {j} /\ j \in InQueue /\ j \in Enqueued
  BY <1>1, <1>2, OutOfQueue
<1>4. Enqueued' = Enqueued /\ j \in JobIds /\ j \notin Working /\ Working' = Working
  BY <1>2, <1>3, SameJobs, Numbers DEF PendingIsQueued, Working
<1>5. Places[j] = "waiting" /\ Places' = [Places EXCEPT ![j] = "gone"]
  <2>1. Places'[j] = "gone" /\ \A k \in JobIds \ {j} : Places'[k] = Places[k]
    BY <1>3, <1>4, PlaceIsNext, Stays
  <2> QED BY <1>3, <1>4, <2>1, PlaceIs, Moves
<1>6. Told' = Told
  BY <1>2, <1>4 DEF Told
<1>7. words' \in {words, [words EXCEPT ![j] = <<"superseded">>]}
  <2>1. words[j] = <<>>
    BY <1>3 DEF FinalWordIsFinal, Gone
  <2>2. CASE Say(j, "superseded")
    BY <1>4, <2>1, <2>2 DEF Say, TypeOK
  <2> QED BY <1>1, <2>2
<1>8. Board!Stale(j) \/ \E k \in Board!Others(j) : Board!PutBackBefore(k)
  <2>1. PICK k \in Enqueued : StandsFor(k, j)
    BY <1>1, <1>3 DEF BoardInv, StoodFor
  <2>2. k \in Board!Others(j)
    BY <1>3, <2>1, BoardSees DEF StandsFor
  <2> QED BY <2>1, <2>2 DEF StandsFor, Board!Stale, Board!PutBackBefore
<1>9. Board!Discard(j)
  BY <1>2, <1>5, <1>6, <1>7, <1>8 DEF Board!Discard
<1> QED BY <1>3, <1>9, BoardSees DEF Board!BoardNext

LEMMA Closes == ASSUME QueueInv, BoardInv, QueueInv', NEW q \in Queues, StopWorker(q) PROVE Board!BoardNext
<1> USE DEF QueueInv
<1> DEFINE lost == {j \in Working : jobs[j].queue = q}
<1>1. q \in alive /\ alive' = alive \ {q} /\ WorkerFree(q) /\ UNCHANGED <<jobs, queued, attempts, words, told>>
  BY DEF StopWorker, jobVars
<1>2. Working' = Working \ lost
  <2>1. ASSUME NEW k \in Working PROVE jobs[k].queue = q <=> phase[q] # "idle" /\ k = worker[q]
    <3>1. PICK p \in Queues : phase[p] # "idle" /\ worker[p] = k /\ jobs[k].queue = p
      BY <2>1, WorksAside
    <3>2. phase[q] # "idle" => jobs[worker[q]].queue = q
      BY DEF BoardInv, InSide
    <3> QED BY <3>1, <3>2
  <2>2. phase[q] # "idle" => worker[q] \in Working
    BY DEF Working
  <2> QED BY <1>1, <2>1, <2>2, FreedWorking
<1>3. Enqueued' = Enqueued /\ InQueue' = InQueue /\ InQueue \cap Working = {}
  BY <1>1, SameJobs DEF InQueue, PendingIsQueued
<1>4. lost \subseteq Working /\ Working \subseteq Enqueued
  BY WorkingEnqueued
<1> HIDE DEF lost
<1>5. Places' = [j \in JobIds |-> IF j \in lost THEN "gone" ELSE Places[j]]
  <2>1. ASSUME NEW j \in JobIds PROVE Places'[j] = IF j \in lost THEN "gone" ELSE Places[j]
    <3>1. CASE j \in lost
      BY <1>2, <1>3, <1>4, <3>1, PlaceIsNext
    <3>2. CASE j \notin lost
      BY <1>2, <1>3, <3>2, Stays
    <3> QED BY <3>1, <3>2
  <2>2. Places' = [j \in JobIds |-> Places'[j]]
    BY DEF Places
  <2> QED BY <2>1, <2>2
<1>6. Told' = Told \ lost
  BY <1>1, <1>2 DEF Told
<1>7. lost = {j \in Board!InHand : jobs[j].queue = q}
  BY BoardSees DEF lost
<1>8. Board!Close(q)
  BY <1>1, <1>5, <1>6, <1>7 DEF Board!Close
<1> QED BY <1>8 DEF Board!BoardNext

LEMMA Tells == ASSUME QueueInv, QueueInv', NEW s \in Sessions, TurnBegins(s) PROVE Board!BoardNext
<1> USE DEF QueueInv
<1> DEFINE some == RunningOf(s) \cap Served
<1>1. told' = told \cup some /\ UNCHANGED <<jobs, queued, worker, phase, attempts, words, alive>>
  BY DEF TurnBegins
<1>2. Working' = Working /\ Enqueued' = Enqueued /\ InQueue' = InQueue
  BY <1>1, SameJobs DEF Working, InQueue
<1>3. Places' = Places
  BY <1>2, AllStay
<1>4. some \subseteq {j \in Working : jobs[j].session = s}
  BY DEF RunningOf, Working
<1> HIDE DEF some
<1>5. Told' = Told \cup some
  BY <1>1, <1>2, <1>4 DEF Told
<1>6. Board!Tell(s)
  BY <1>1, <1>3, <1>4, <1>5, BoardSees DEF Board!Tell
<1> QED BY <1>6 DEF Board!BoardNext

LEMMA Leaves ==
  ASSUME QueueInv, QueueInv', NEW s \in Sessions, NEW q \in Queues, TurnEnds(s, q)
  PROVE  [Board!BoardNext]_(Board!boardVars)
<1> USE DEF QueueInv
<1>0. UNCHANGED <<worker, phase, attempts, words, told, alive>>
  BY DEF TurnEnds
<1>1. Working' = Working /\ Told' = Told
  BY <1>0 DEF Working, Told
<1>2. CASE UNCHANGED <<jobs, pending, queued>>
  <2>1. Enqueued' = Enqueued /\ InQueue' = InQueue
    BY <1>2, SameJobs DEF InQueue
  <2>2. Places' = Places
    BY <1>1, <2>1, AllStay
  <2> QED BY <1>0, <1>1, <1>2, <2>2 DEF Board!boardVars
<1>3. CASE ~UNCHANGED <<jobs, pending, queued>>
  <2>0. PICK i, c : i = Len(jobs) + 1 /\ c = Len(jobs) + 2
    OBVIOUS
  <2>1. /\ i + 1 \in JobIds
        /\ jobs' = jobs \o <<[session |-> s, step |-> "describe_image", queue |-> q],
                             [session |-> s, step |-> "compact", queue |-> q]>>
        /\ queued' = [queued EXCEPT ![q] = @ \cup {i, i + 1}]
    BY <1>3, <2>0 DEF TurnEnds
  <2>2. Len(jobs) \in Nat /\ i + 1 = c /\ i # c /\ i \in JobIds /\ c \in JobIds
    BY <2>0, <2>1, Numbers, MaxTurnsAssumption DEF JobIds
  <2>3. Enqueued' = Enqueued \cup {i, c}
    BY <2>0, <2>1, Enqueues
  <2>4. InQueue' = InQueue \cup {i, c}
    BY <2>1, <2>2 DEF TypeOK, InQueue, Queues
  <2>5. Places' = [Places EXCEPT ![i] = "waiting", ![c] = "waiting"]
    <3>1. Places'[i] = "waiting" /\ Places'[c] = "waiting"
      BY <2>2, <2>4, PlaceIsNext
    <3>2. \A k \in JobIds \ {i, c} : Places'[k] = Places[k]
      BY <1>1, <2>3, <2>4, Stays
    <3>3. Places' = [k \in JobIds |-> Places'[k]] /\ Places = [k \in JobIds |-> Places[k]]
      BY DEF Places
    <3> HIDE DEF Places
    <3> QED BY <2>2, <3>1, <3>2, <3>3
  <2>6. Board!Leave(s, q)
    BY <1>0, <1>1, <2>0, <2>1, <2>2, <2>5 DEF Board!Leave
  <2> QED BY <2>6 DEF Board!BoardNext
<1> QED BY <1>2, <1>3

\* The rest the board does not see.
LEMMA BoardStep ==
  ASSUME QueueInv, BoardInv, QueueInv', [Next]_vars
  PROVE  [Board!BoardNext]_(Board!boardVars)
<1>1. ASSUME UNCHANGED <<jobs, queued, worker, attempts, words, told, alive>>,
             \A q \in Queues : phase'[q] = "idle" <=> phase[q] = "idle"
      PROVE  UNCHANGED Board!boardVars
  <2>1. Working' = Working /\ Enqueued' = Enqueued /\ InQueue' = InQueue
    BY <1>1, SameJobs DEF Working, InQueue
  <2>2. Places' = Places /\ Told' = Told
    BY <1>1, <2>1, AllStay DEF Told
  <2> QED BY <1>1, <2>2 DEF Board!boardVars
<1>2. ASSUME NEW q \in Queues, Start(q) \/ GateSignal(q) PROVE UNCHANGED Board!boardVars
  BY <1>1, <1>2 DEF Start, GateSignal, QueueInv, TypeOK
<1>3. CASE UNCHANGED vars
  BY <1>1, <1>3 DEF vars, jobVars
<1> QED BY <1>2, <1>3, TakesUp, GoesBack, Finishes, Discards, Closes, Tells, Leaves DEF Next

(***************************************************************************)
(* The queue keeps the board's promise: no job is lost but with its side,  *)
(* a stale one is taken up only if it was put back, and nobody says two    *)
(* last words (post_commit.py:35-105, 195-246).                            *)
(***************************************************************************)
THEOREM QueueImplementsBoard == Spec => ImplementsBoard
<1>1. Init => Board!BoardInit
  <2> SUFFICES ASSUME Init PROVE Board!BoardInit
    OBVIOUS
  <2>1. Enqueued = {} /\ Working = {}
    BY DEF Init, Enqueued, Working
  <2>2. Places = [j \in JobIds |-> "nowhere"] /\ Told = {}
    BY <2>1 DEF Places, Place, Told, InQueue, Init, Queues, Gone
  <2> QED BY <2>2 DEF Init, Board!BoardInit
<1>2. QueueInv /\ BoardInv /\ QueueInv' /\ [Next]_vars => [Board!BoardNext]_(Board!boardVars)
  BY BoardStep
<1> QED BY <1>1, <1>2, BoardHolds, PTL DEF Spec, ImplementsBoard, Board!BoardSpec
=============================================================================
