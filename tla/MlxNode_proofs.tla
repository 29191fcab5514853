--------------------------- MODULE MlxNode_proofs ---------------------------
(***************************************************************************)
(* Proofs about MlxNode for every set of turns, paths and prompts, and     *)
(* every number of caches.                                                 *)
(***************************************************************************)
EXTENDS MlxNode, SequenceTheorems, FiniteSetTheorems, WellFoundedInduction, TLAPS

-----------------------------------------------------------------------------
(* Sequences and bounded sets of naturals.                                 *)

(***************************************************************************)
(* A set of naturals that is not empty has a least element, and one that   *)
(* is bounded a greatest.                                                  *)
(***************************************************************************)
LEMMA LeastNatural ==
  ASSUME NEW I, I \subseteq Nat, I # {}
  PROVE  \E x \in I : \A y \in I : x <= y
<1>1. PICK x \in I : \A y \in I : ~ (<<y, x>> \in OpToRel(<, Nat))
  BY NatLessThanWellFounded, WFMin
<1>2. \A y \in I : ~ (y < x)
  BY <1>1 DEF OpToRel
<1> QED BY <1>2

\* The greatest element of a bounded set of naturals is one of its elements.
LEMMA MaxProperties ==
  ASSUME NEW n \in Nat, NEW I, I \subseteq 0 .. n, I # {}
  PROVE  Max(I) \in I /\ \A y \in I : y <= Max(I)
<1> DEFINE J == {n - i : i \in I}
<1>1. J \subseteq Nat /\ J # {}
  <2>1. \A i \in I : i \in 0 .. n
    OBVIOUS
  <2>2. \A i \in I : n - i \in Nat
    BY <2>1
  <2> QED BY <2>2
<1>2. PICK j \in J : \A y \in J : j <= y
  BY <1>1, LeastNatural
<1>3. PICK m \in I : j = n - m
  OBVIOUS
<1>4. \A y \in I : n - y \in J
  OBVIOUS
<1> HIDE DEF J
<1>5. \A y \in I : y <= m
  BY <1>2, <1>3, <1>4
<1>6. \E x \in I : \A y \in I : x >= y
  BY <1>3, <1>5
<1>7. Max(I) \in I /\ \A y \in I : Max(I) >= y
  BY <1>6 DEF Max
<1> QED BY <1>7

(***************************************************************************)
(* The places of a sequence less one place.                                *)
(***************************************************************************)
LEMMA RemoveAtPlaces ==
  ASSUME NEW S, NEW s \in Seq(S), NEW k \in DOMAIN s
  PROVE  /\ RemoveAt(s, k) \in Seq(S)
         /\ Len(RemoveAt(s, k)) = Len(s) - 1
         /\ \A i \in 1 .. Len(s) - 1 : RemoveAt(s, k)[i] = IF i < k THEN s[i] ELSE s[i + 1]
<1> DEFINE a == SubSeq(s, 1, k - 1)
           b == SubSeq(s, k + 1, Len(s))
<1>1. a \in Seq(S) /\ Len(a) = k - 1 /\ \A i \in 1 .. k - 1 : a[i] = s[i]
  OBVIOUS
<1>2. b \in Seq(S) /\ Len(b) = Len(s) - k /\ \A i \in 1 .. Len(s) - k : b[i] = s[k + i]
  OBVIOUS
<1>3. RemoveAt(s, k) = a \o b
  BY DEF RemoveAt
<1>4. a \o b \in Seq(S) /\ Len(a \o b) = Len(s) - 1
  <2> HIDE DEF a, b
  <2> QED BY <1>1, <1>2, ConcatProperties
<1>5. \A i \in 1 .. Len(s) - 1 : (a \o b)[i] = IF i < k THEN s[i] ELSE s[i + 1]
  <2> TAKE i \in 1 .. Len(s) - 1
  <2> HIDE DEF a, b
  <2>1. (a \o b)[i] = IF i <= Len(a) THEN a[i] ELSE b[i - Len(a)]
    BY <1>1, <1>2, SMTT(20)
  <2>2. CASE i < k
    BY <1>1, <2>1, <2>2
  <2>3. CASE ~(i < k)
    BY <1>1, <1>2, <2>1, <2>3
  <2> QED BY <2>2, <2>3
<1> QED BY <1>3, <1>4, <1>5

(***************************************************************************)
(* A turn's job taken out of the queue: the queue, or the queue less one   *)
(* place where the turn's job stood.                                       *)
(***************************************************************************)
TakenOut(t) == RemoveFirstMatch(queue, LAMBDA j : j.turn = t)

LEMMA TakenOutIs ==
  ASSUME NEW t, queue \in Seq(JobType \cup {Clear})
  PROVE  \/ TakenOut(t) = queue /\ \A i \in DOMAIN queue : queue[i].turn # t
         \/ \E k \in DOMAIN queue : queue[k].turn = t /\ TakenOut(t) = RemoveAt(queue, k)
<1> DEFINE I == {i \in 1 .. Len(queue) : queue[i].turn = t}
           k == CHOOSE x \in I : \A y \in I : x <= y
<1>1. TakenOut(t) = IF I = {} THEN queue ELSE RemoveAt(queue, k)
  BY DEF TakenOut, RemoveFirstMatch, SelectInSeq, Min
<1>2. ASSUME I # {} PROVE k \in I
  <2>1. I \subseteq Nat
    OBVIOUS
  <2>2. \E x \in I : \A y \in I : x <= y
    BY <1>2, <2>1, LeastNatural
  <2> HIDE DEF I
  <2> QED BY <2>2
<1>3. I \subseteq DOMAIN queue /\ \A i \in I : queue[i].turn = t
  OBVIOUS
<1>4. I = {} => \A i \in DOMAIN queue : queue[i].turn # t
  OBVIOUS
<1> HIDE DEF I, k
<1> QED BY <1>1, <1>2, <1>3, <1>4

\* A KV that is mixed is of the model that computed it all the same.
LEMMA MixedIs ==
  ASSUME NEW v \in KvType
  PROVE  Mixed(v) \in KvType /\ Mixed(v).by = v.by /\ Mixed(v).mixed = TRUE
  BY DEF Mixed, KvType

-----------------------------------------------------------------------------
(* The caches: the KV found under a path is of a model whose KV was kept   *)
(* there, or of the model that generates.                                  *)

LEMMA PrefilledIs ==
  ASSUME NEW c, Held(c) \subseteq Paths \X Seq(STRING), \A e \in Held(c) : c.kv[e] \in KvType,
         NEW k \in Paths, NEW tokens \in Seq(STRING), tokens # <<>>, NEW m \in Paths,
         NEW x \in Prefilled(c, k, tokens, m)
  PROVE  /\ x \in KvType
         /\ x.by = m \/ \E e \in Held(c) : e[1] = k /\ x.by = c.kv[e].by
<1> DEFINE d == Depth(c, k, tokens)
           last == LastHeld(c, k, tokens)
           common == Common(c, k, tokens)
           from(n) == SubSeq(tokens, 1, n)
           rest(n) == SubSeq(tokens, n + 1, Len(tokens))
<1>1. Len(tokens) \in Nat \ {0} /\ from(Len(tokens)) = tokens
  OBVIOUS
<1>2. d \in 0 .. Len(tokens)
  <2> DEFINE I == {0} \cup {i \in 1 .. Len(tokens) : <<k, from(i)>> \in c.nodes}
  <2>1. I \subseteq 0 .. Len(tokens) /\ I # {}
    OBVIOUS
  <2> QED BY <1>1, <2>1, MaxProperties DEF Depth
<1>3. last \in 0 .. Len(tokens) /\ (last # 0 => <<k, from(last)>> \in Held(c))
  <2> DEFINE I == {0} \cup {i \in 1 .. d : <<k, from(i)>> \in Held(c)}
  <2>1. I \subseteq 0 .. Len(tokens) /\ I # {}
    BY <1>1, <1>2
  <2>2. last \in I
    BY <1>1, <2>1, MaxProperties DEF LastHeld
  <2> QED BY <1>2, <2>2
<1>4. common \in 0 .. Len(tokens) /\ common <= d
  BY <1>1, <1>2 DEF Common
<1>5. \A n \in 0 .. Len(tokens) : from(n) \in Seq(STRING) /\ rest(n) \in Seq(STRING) /\ Len(from(n)) = n
  BY <1>1
<1>6. ASSUME NEW v \in KvType, NEW s \in Seq(STRING) PROVE Fed(v, s) \in KvType /\ Fed(v, s).by = v.by
  <2>1. v.of \o s \in Seq(STRING)
    BY ConcatProperties DEF KvType
  <2> QED BY <2>1 DEF Fed, KvType
<1>7. Fresh(m) \in KvType /\ Fresh(m).by = m
  BY DEF Fresh, KvType
<1> HIDE DEF d, last, common, from, rest
<1>8. CASE last = Len(tokens)
  <2> DEFINE e == <<k, tokens>>
  <2>1. e \in Held(c) /\ e[1] = k
    BY <1>1, <1>3, <1>8
  <2>2. x = Mixed(c.kv[e])
    BY <1>1, <1>8 DEF Prefilled, last
  <2> HIDE DEF e
  <2>3. c.kv[e] \in KvType
    BY <2>1
  <2> QED BY <2>1, <2>2, <2>3, MixedIs
<1>9. CASE last \in 1 .. Len(tokens) - 1
  <2> DEFINE e == <<k, from(last)>>
  <2>1. e \in Held(c) /\ e[1] = k
    BY <1>3, <1>9
  <2>2. x = Fed(c.kv[e], rest(last))
    BY <1>1, <1>9 DEF Prefilled, last, from, rest
  <2> QED BY <1>3, <1>5, <1>6, <2>1, <2>2
<1>10. CASE last = 0
  <2> DEFINE longer == IF d > 0 THEN Longer(c, k, tokens) ELSE {}
  <2>1. \/ x = Fed(Fresh(m), tokens)
        \/ \E e \in longer : x = IF c.kv[e].by \in Trimmable THEN Fed(Trimmed(c, e, common), rest(common))
                                                            ELSE Fed(Fresh(m), tokens)
    BY <1>1, <1>10 DEF Prefilled, last, common, rest, d
  <2>2. ASSUME NEW e \in longer
        PROVE  e \in Held(c) /\ e[1] = k /\ Trimmed(c, e, common) \in KvType
               /\ Trimmed(c, e, common).by = c.kv[e].by
    <3>1. e \in Held(c) /\ e[1] = k /\ IsPrefix(from(d), e[2])
      BY DEF Longer, from, d
    <3>2. e[2] \in Seq(STRING) /\ c.kv[e] \in KvType
      BY <3>1
    <3>3. common <= Len(e[2]) /\ Len(e[2]) \in Nat
      BY <1>2, <1>4, <1>5, <3>1, <3>2 DEF IsPrefix
    <3> DEFINE o == c.kv[e].of
    <3>4. o \in Seq(STRING) /\ Len(o) \in Nat
      BY <3>2 DEF KvType
    <3>5. SubSeq(o, 1, Len(o) - (Len(e[2]) - common)) \in Seq(STRING)
      BY <1>4, <3>3, <3>4, SMTT(20)
    <3> QED BY <3>1, <3>2, <3>5 DEF Trimmed, KvType
  <2>3. CASE x = Fed(Fresh(m), tokens)
    BY <1>6, <1>7, <2>3
  <2>4. ASSUME NEW e \in longer, x = Fed(Trimmed(c, e, common), rest(common))
        PROVE  x \in KvType /\ x.by = c.kv[e].by
    BY <1>4, <1>5, <1>6, <2>2, <2>4
  <2> HIDE DEF longer
  <2> QED BY <2>1, <2>2, <2>3, <2>4
<1> QED BY <1>3, <1>8, <1>9, <1>10

(***************************************************************************)
(* What is in the caches after an insertion was there, or was inserted.    *)
(***************************************************************************)
LEMMA InsertIs ==
  ASSUME NEW c, NEW k, NEW tokens, NEW v, NEW d, d = Insert(c, k, tokens, v)
  PROVE  /\ Held(d) \subseteq Held(c) \cup {<<k, tokens>>}
         /\ \A e \in Held(d) : IF e \in Held(c) THEN d.kv[e] = c.kv[e] ELSE d.kv[e] = v
  BY DEF Insert, Stored, Without, Held

-----------------------------------------------------------------------------
(* The invariant.                                                          *)

(***************************************************************************)
(* What the worker's thread works on, and how far it is.                   *)
(***************************************************************************)
Steps ==
  /\ job = NoJob <=> step = "idle"
  /\ job = Clear <=> step = "clear"
  /\ step = "probe" => job.does = "probe"
  /\ step = "vision" => job.does = "vision"
  /\ step \in {"text", "prefill", "decode"} => job.does = "text"
  /\ step \in {"vision", "text", "prefill", "decode"} => hand \in Paths
  /\ step = "load" => loading \in Paths
  /\ step \in {"prefill", "decode"} => key \in Paths

(***************************************************************************)
(* A turn that waits for the worker waits for one job, queued or begun.    *)
(***************************************************************************)
Jobs ==
  /\ \A i \in DOMAIN queue : queue[i] # Clear =>
       /\ at[queue[i].turn] \in Waits
       /\ queue[i].does = "probe" <=> at[queue[i].turn] = "probing"
       /\ queue[i].turn # job.turn
  /\ \A i, j \in DOMAIN queue : queue[i] # Clear /\ queue[i].turn = queue[j].turn => i = j
  /\ job \in JobType =>
       /\ at[job.turn] \in Waits \cup {"over"}
       /\ at[job.turn] # "over" => (job.does = "probe" <=> at[job.turn] = "probing")

(***************************************************************************)
(* While a switch is half done every turn under way has been overtaken.    *)
(***************************************************************************)
Switching ==
  /\ loop.does = "drop" =>
       /\ at[loop.turn] = "new"
       /\ \A t \in Turns : UnderWay(t) \/ t = job.turn => t \in overtaken
  /\ loop.does = "load" => at[loop.turn] = "answered"

(***************************************************************************)
(* The model, and what is known of it, are those of the configuration.     *)
(***************************************************************************)
Configured ==
  /\ model # None => tokenizer = model
  /\ ~raced /\ loop.does # "drop" =>
       /\ model \in {None, config}
       /\ think \in {None, config, Guess}
       /\ step = "load" => loading = config
       /\ step = "read" /\ job.does = "probe" => tokenizer = config
       /\ step = "probe" => hand = config

(***************************************************************************)
(* A turn that no switch overtook generates, and is judged, with a model   *)
(* there.                                                                  *)
(***************************************************************************)
Present ==
  \A t \in Turns \ overtaken :
    /\ at[t] = "answered" => model # None
    /\ job.turn = t /\ step \in {"vision", "text", "prefill", "decode"} => model # None
    /\ loop.does = "load" => loop.turn # t

(***************************************************************************)
(* The caches are about to be cleared.  What comes before that is of turns *)
(* that were overtaken.                                                    *)
(***************************************************************************)
Pending == loop.does = "drop" \/ job = Clear \/ \E i \in DOMAIN queue : queue[i] = Clear

InPlace ==
  \A j \in DOMAIN queue : queue[j] = Clear =>
    /\ \A i \in 1 .. j : queue[i] # Clear => queue[i].turn \in overtaken
    /\ job \in JobType => job.turn \in overtaken

(***************************************************************************)
(* With one slot, while a turn thinks about its answer nobody generates.   *)
(***************************************************************************)
OneSlot ==
  /\ \A t, u \in Turns : at[t] \in HasSlot /\ at[u] \in HasSlot => t = u
  /\ \A t \in Turns : at[t] \in {"probed", "answered"} =>
       job \notin JobType /\ \A i \in DOMAIN queue : queue[i] = Clear
  /\ loop.does = "load" => model = None

(***************************************************************************)
(* The KV kept under the path of the configuration is of the model there   *)
(* is, and so is what the worker has in hand, until a switch.              *)
(***************************************************************************)
Current ==
  ~Pending =>
    /\ \A e \in Held(cache) : e[1] = config => model # None /\ cache.kv[e].by = model
    /\ step = "load" => model = None
    /\ step \in {"text", "prefill", "decode"} => hand = model
    /\ step \in {"prefill", "decode"} => key = config /\ kv.by = hand

(***************************************************************************)
(* The same of the configuration itself, which holds however many slots    *)
(* there are unless the last switch met a load or a probe.                 *)
(***************************************************************************)
Agree ==
  ~Pending /\ ~raced =>
    /\ \A e \in Held(cache) : e[1] = config => cache.kv[e].by = config
    /\ step \in Generation => hand = config
    /\ step \in {"prefill", "decode"} => key = config /\ kv.by = config

(***************************************************************************)
(* A turn that no switch overtook asked for the model of the               *)
(* configuration.                                                          *)
(***************************************************************************)
Asked ==
  /\ loop.does = "drop" => config = asks[loop.turn].path
  /\ \A t \in Turns \ overtaken : UnderWay(t) \/ t = job.turn => asks[t].path \in {None, config}

-----------------------------------------------------------------------------
(* Types.                                                                  *)

\* A worker that is past looking at its job works for a turn.
LEMMA AtWork ==
  ASSUME TypeOK, Steps, step \notin {"idle", "clear"}
  PROVE  job \in JobType /\ job.turn \in Turns /\ job.turn # None
  BY NodeAssumption DEF TypeOK, Steps, JobType

\* What is tokenized is a sequence of tokens that is not empty.
LEMMA PromptType ==
  ASSUME TypeOK, job \in JobType
  PROVE  Prompt \in Seq(STRING) /\ Prompt # <<>>
<1>1. asks[job.turn].prompt \in Seq(STRING) /\ asks[job.turn].prompt # <<>>
  BY DEF TypeOK, JobType
<1>2. Quiet \in STRING
  BY NodeAssumption
<1> DEFINE p == asks[job.turn].prompt
<1>3. Append(p, Quiet) \in Seq(STRING) /\ Append(p, Quiet) # <<>>
  <2> HIDE DEF p
  <2>1. p \in Seq(STRING)
    BY <1>1 DEF p
  <2> QED BY <1>2, <2>1, AppendProperties
<1> QED BY <1>1, <1>3 DEF Prompt

\* The conversation with the answer in it is a sequence of tokens.
LEMMA RenderedType ==
  ASSUME TypeOK, job \in JobType
  PROVE  Rendered \in Seq(STRING)
<1> DEFINE p == asks[job.turn].prompt
<1>1. p \in Seq(STRING)
  BY DEF TypeOK, JobType
<1>2. Reply \in STRING
  BY NodeAssumption
<1> HIDE DEF p
<1>3. Append(p, Reply) \in Seq(STRING)
  BY <1>1, <1>2, AppendProperties
<1> QED BY <1>3 DEF Rendered, p

\* Where the end of a job leaves the turn that waited for it.
LEMMA AfterwardsIs ==
  ASSUME NEW failed \in BOOLEAN
  PROVE  /\ at[job.turn] = "probing" => Afterwards(failed) = "probed"
         /\ at[job.turn] = "generating" => Afterwards(failed) = IF failed THEN "over" ELSE "answered"
         /\ at[job.turn] \notin {"probing", "generating"} => Afterwards(failed) = "over"
  BY DEF Afterwards

(***************************************************************************)
(* The end of a job, whatever it comes to.                                 *)
(***************************************************************************)
Over == \E failed \in BOOLEAN : Done /\ Moves(job.turn, Afterwards(failed)) /\ UNCHANGED <<asks, sees>>

\* Both ends of a job are ends.
LEMMA EndsIsOver == Ends \/ Fails => Over
  BY DEF Ends, Fails, Over

\* The end of a job leaves nothing in hand and everybody else where they were.
LEMMA OverType ==
  ASSUME TypeOK, job.turn \in Turns, Over
  PROVE  /\ at' \in [Turns -> HasSlot \cup {"new", "waiting", "over"}]
         /\ at' = [at EXCEPT ![job.turn] = at'[job.turn]]
         /\ at'[job.turn] \in {"probed", "answered", "over"}
         /\ at[job.turn] # "probing" => at'[job.turn] # "probed"
         /\ at[job.turn] # "generating" => at'[job.turn] # "answered"
         /\ job' = NoJob /\ step' = "idle" /\ loading' = None /\ hand' = None /\ key' = None
         /\ kv' = NoKv /\ asks' = asks /\ sees' = sees
<1>1. PICK failed \in BOOLEAN : Moves(job.turn, Afterwards(failed))
  BY DEF Over
<1>2. /\ Afterwards(failed) \in {"probed", "answered", "over"}
      /\ at[job.turn] # "probing" => Afterwards(failed) # "probed"
      /\ at[job.turn] # "generating" => Afterwards(failed) # "answered"
  BY AfterwardsIs
<1>3. at' = [at EXCEPT ![job.turn] = Afterwards(failed)]
  BY <1>1 DEF Moves
<1> HIDE DEF Afterwards
<1>4. at \in [Turns -> HasSlot \cup {"new", "waiting", "over"}]
  BY DEF TypeOK
<1>5. at'[job.turn] = Afterwards(failed)
  BY <1>3, <1>4
<1> QED BY <1>2, <1>3, <1>4, <1>5 DEF HasSlot, Over, Done

\* No KV is a KV.
LEMMA NoKvType == NoKv \in KvType
  BY DEF NoKv, Fresh, KvType

\* The node starts well typed.
LEMMA TypeInit == Init => TypeOK
<1> SUFFICES ASSUME Init PROVE TypeOK
  OBVIOUS
<1> USE NodeAssumption DEF Init
<1>1. asks \in [Turns -> [path : Paths \cup {None}, prompt : Seq(STRING) \ {<<>>}, thinks : BOOLEAN]]
  OBVIOUS
<1>2. at \in [Turns -> HasSlot \cup {"new", "waiting", "over"}]
  OBVIOUS
<1>3. Held(cache) = {}
  BY DEF NoCache, Held
<1>4. kv \in KvType /\ queue \in Seq(JobType \cup {Clear})
  BY NoKvType
<1> QED BY <1>1, <1>2, <1>3, <1>4 DEF TypeOK

(***************************************************************************)
(* A handler that submits a job has its turn wait for it.                  *)
(***************************************************************************)
Submits(t) ==
  \E j \in JobType :
    /\ j.turn = t
    /\ queue' = Append(queue, j)
    /\ \E where \in Waits :
         /\ at' = [at EXCEPT ![t] = where]
         /\ j.does = "probe" <=> where = "probing"

GivesUp(t) == queue' = queue /\ at' = [at EXCEPT ![t] = "over"]

\* A generation is a submission.
LEMMA GenerateIs ==
  ASSUME NEW t \in Turns, NEW v, NEW quiet \in BOOLEAN, Generate(t, v, quiet),
         NEW where \in {"generating", "retrying"}, Moves(t, where)
  PROVE  Submits(t)
<1>1. PICK does \in {"text", "vision"} : queue' = Append(queue, [does |-> does, turn |-> t, quiet |-> quiet])
  BY DEF Generate, Submit
<1> DEFINE j == [does |-> does, turn |-> t, quiet |-> quiet]
<1>2. j \in JobType /\ j.turn = t /\ j.does # "probe"
  BY DEF JobType
<1>3. where \in Waits /\ where # "probing" /\ at' = [at EXCEPT ![t] = where]
  BY DEF Waits, Moves
<1> QED BY <1>1, <1>2, <1>3 DEF Submits

\* So is what a turn asks for when it has its slot,
LEMMA ExecuteIs ==
  ASSUME NEW t \in Turns, Execute(t)
  PROVE  Submits(t)
<1>1. CASE Submit("probe", t, FALSE) /\ Moves(t, "probing")
  <2> DEFINE j == [does |-> "probe", turn |-> t, quiet |-> FALSE]
  <2>1. j \in JobType /\ j.turn = t /\ j.does = "probe" /\ queue' = Append(queue, j)
    BY <1>1 DEF JobType, Submit
  <2>2. "probing" \in Waits /\ at' = [at EXCEPT ![t] = "probing"]
    BY <1>1 DEF Waits, Moves
  <2> QED BY <2>1, <2>2 DEF Submits
<1>2. CASE Generate(t, config \in Vision, FALSE) /\ Moves(t, "generating")
  BY <1>2, GenerateIs, Zenon
<1> QED BY <1>1, <1>2 DEF Execute

\* the generation after the probe,
LEMMA ProbedIs ==
  ASSUME NEW t \in Turns, Probed(t)
  PROVE  Submits(t)
<1>1. Generate(t, t \in sees, FALSE) /\ Moves(t, "generating")
  BY DEF Probed
<1> QED BY <1>1, GenerateIs, Zenon

\* and the second generation, unless the answer is given.
LEMMA JudgeIs ==
  ASSUME NEW t \in Turns, Judge(t)
  PROVE  Submits(t) \/ GivesUp(t)
<1>1. CASE Generate(t, t \in sees, TRUE) /\ Moves(t, "retrying")
  BY <1>1, GenerateIs, Zenon
<1>2. CASE Moves(t, "over") /\ UNCHANGED queue
  BY <1>2 DEF Moves, GivesUp
<1> QED BY <1>1, <1>2 DEF Judge

\* A submission, or a turn given up, keeps the types of turns and queue.
LEMMA SubmitsType ==
  ASSUME TypeOK, NEW t \in Turns, Submits(t) \/ GivesUp(t)
  PROVE  /\ queue' \in Seq(JobType \cup {Clear})
         /\ at' \in [Turns -> HasSlot \cup {"new", "waiting", "over"}]
<1>1. queue \in Seq(JobType \cup {Clear}) /\ at \in [Turns -> HasSlot \cup {"new", "waiting", "over"}]
  BY DEF TypeOK
<1>2. CASE GivesUp(t)
  BY <1>1, <1>2 DEF GivesUp
<1>3. CASE Submits(t)
  <2>1. PICK j \in JobType, where \in Waits : queue' = Append(queue, j) /\ at' = [at EXCEPT ![t] = where]
    BY <1>3 DEF Submits
  <2>2. where \in HasSlot
    BY DEF HasSlot
  <2> QED BY <1>1, <2>1, <2>2
<1> QED BY <1>2, <1>3

\* The event loop keeps the types.
LEMMA TypeLoop ==
  ASSUME TypeOK, (\E t \in Turns : Ask(t) \/ Leave(t)) \/ EventLoop
  PROVE  TypeOK'
<1> USE NodeAssumption DEF TypeOK, turnVars, nodeVars, workVars, Moves, HasSlot, Waits, Loop, LoopFree
<1>1. ASSUME NEW t \in Turns, Ask(t) PROVE TypeOK'
  BY <1>1 DEF Ask, Switch
<1>2. ASSUME NEW t \in Turns, Leave(t) PROVE TypeOK'
  <2>1. queue' = TakenOut(t)
    BY <1>2 DEF Leave, TakenOut
  <2>2. queue' \in Seq(JobType \cup {Clear})
    <3>1. queue \in Seq(JobType \cup {Clear})
      OBVIOUS
    <3> HIDE DEF TypeOK
    <3> QED BY <2>1, <3>1, TakenOutIs, RemoveAtPlaces
  <2> QED BY <1>2, <2>2 DEF Leave
<1>3. ASSUME Drop PROVE TypeOK'
  BY <1>3 DEF Drop, Dropped, Forget, LoopIdle
<1>6. ASSUME NEW t \in Turns, Execute(t) PROVE TypeOK'
  <2>1. /\ queue' \in Seq(JobType \cup {Clear})
        /\ at' \in [Turns -> HasSlot \cup {"new", "waiting", "over"}]
    BY <1>6, ExecuteIs, SubmitsType
  <2> QED BY <1>6, <2>1 DEF Execute
<1>7. ASSUME NEW t \in Turns, Probed(t) PROVE TypeOK'
  <2>1. /\ queue' \in Seq(JobType \cup {Clear})
        /\ at' \in [Turns -> HasSlot \cup {"new", "waiting", "over"}]
    BY <1>7, ProbedIs, SubmitsType
  <2> QED BY <1>7, <2>1 DEF Probed
<1>8. ASSUME NEW t \in Turns, Judge(t)
      PROVE  /\ queue' \in Seq(JobType \cup {Clear})
             /\ at' \in [Turns -> HasSlot \cup {"new", "waiting", "over"}]
  BY <1>8, JudgeIs, SubmitsType
<1>9. ASSUME NEW t \in Turns, Check(t) PROVE TypeOK'
  <2>1. /\ queue' \in Seq(JobType \cup {Clear})
        /\ at' \in [Turns -> HasSlot \cup {"new", "waiting", "over"}]
    BY <1>8, <1>9 DEF Check
  <2>2. /\ think' \in Paths \cup {None, Guess}
        /\ loop' \in [does : {"drop", "load"}, turn : Turns] \cup {[does |-> "nothing", turn |-> None]}
    BY <1>9 DEF Check
  <2> QED BY <1>9, <2>1, <2>2 DEF Check
<1>10. ASSUME LoopLoads PROVE TypeOK'
  <2>1. loop.turn \in Turns
    BY <1>10 DEF LoopLoads
  <2>2. /\ queue' \in Seq(JobType \cup {Clear})
        /\ at' \in [Turns -> HasSlot \cup {"new", "waiting", "over"}]
    BY <1>8, <1>10, <2>1 DEF LoopLoads
  <2> QED BY <1>10, <2>2 DEF LoopLoads
<1> QED BY <1>1, <1>2, <1>3, <1>6, <1>7, <1>9, <1>10 DEF EventLoop, Handles

\* The worker keeps the types.
LEMMA TypeWorker ==
  ASSUME TypeOK, Steps, Worker
  PROVE  TypeOK'
<1> USE NodeAssumption DEF TypeOK, turnVars, nodeVars, workVars
<1>1. ASSUME Begin PROVE TypeOK'
  <2>1. Head(queue) \in JobType \cup {Clear} /\ Tail(queue) \in Seq(JobType \cup {Clear})
    BY <1>1, HeadTailProperties DEF Begin
  <2> QED BY <1>1, <2>1 DEF Begin
<1>2. ASSUME ClearCaches PROVE TypeOK'
  BY <1>2, NoKvType DEF ClearCaches, Done, NoCache, Held
<1>3. ASSUME step \notin {"idle", "clear"}, Ends \/ Fails, think' \in Paths \cup {None, Guess},
             UNCHANGED <<config, model, tokenizer, loop, queue, cache, overtaken, raced>>
      PROVE  TypeOK'
  BY <1>3, AtWork, EndsIsOver, OverType, NoKvType
<1>4. ASSUME Look PROVE TypeOK'
  BY <1>3, <1>4 DEF Look
<1>5. ASSUME Load PROVE TypeOK'
  <2>1. CASE Fails
    BY <1>3, <1>5, <2>1 DEF Load, Knows
  <2> QED BY <1>5, <2>1 DEF Load
<1>6. ASSUME Read PROVE TypeOK'
  <2>1. job.does \in {"probe", "text", "vision"}
    BY <1>6, AtWork DEF Read, JobType
  <2> QED BY <1>6, <2>1 DEF Read
<1>7. ASSUME Unfit PROVE TypeOK'
  BY <1>3, <1>7 DEF Unfit
<1>8. ASSUME Template PROVE TypeOK'
  BY <1>3, <1>8 DEF Template
<1>9. ASSUME SeesAndSays PROVE TypeOK'
  BY <1>3, <1>9 DEF SeesAndSays
<1>10. ASSUME Lookup PROVE TypeOK'
  <2>1. job \in JobType /\ hand \in Paths
    BY <1>10, AtWork DEF Lookup, Steps
  <2>2. kv' \in KvType
    BY <1>10, <2>1, PromptType, PrefilledIs DEF Lookup
  <2> QED BY <1>10, <2>2 DEF Lookup
<1>11. ASSUME NEW tokens \in Seq(STRING), NEW v \in KvType, key \in Paths,
              cache' = Insert(cache, key, tokens, v)
       PROVE  /\ Held(cache') \subseteq Paths \X Seq(STRING)
              /\ \A e \in Held(cache') : cache'.kv[e] \in KvType
  <2>1. /\ Held(cache) \subseteq Paths \X Seq(STRING)
        /\ \A e \in Held(cache) : cache.kv[e] \in KvType
    OBVIOUS
  <2> HIDE NodeAssumption DEF TypeOK
  <2>2. /\ Held(cache') \subseteq Held(cache) \cup {<<key, tokens>>}
        /\ \A e \in Held(cache') : IF e \in Held(cache) THEN cache'.kv[e] = cache.kv[e] ELSE cache'.kv[e] = v
    BY <1>11, InsertIs
  <2> QED BY <1>11, <2>1, <2>2
<1>12. ASSUME Prefill PROVE TypeOK'
  <2>1. job \in JobType /\ key \in Paths /\ Prompt \in Seq(STRING)
    BY <1>12, AtWork, PromptType DEF Prefill, Steps
  <2>2. CASE (Ends \/ Fails) /\ UNCHANGED cache
    BY <1>3, <1>12, <2>2 DEF Prefill
  <2>3. ASSUME NEW v \in {kv, Mixed(kv)},
               cache' = Insert(cache, key, Prompt, v),
               step' = "decode",
               UNCHANGED <<turnVars, job, loading, hand, key, kv>>
        PROVE  TypeOK'
    <3>1. v \in KvType
      <4>1. kv \in KvType
        OBVIOUS
      <4> HIDE NodeAssumption DEF TypeOK
      <4> QED BY <4>1, MixedIs
    <3>2. /\ Held(cache') \subseteq Paths \X Seq(STRING)
          /\ \A e \in Held(cache') : cache'.kv[e] \in KvType
      BY <1>11, <2>1, <2>3, <3>1
    <3> QED BY <1>12, <2>3, <3>2 DEF Prefill
  <2> QED BY <1>12, <2>2, <2>3 DEF Prefill
<1>13. ASSUME Decode PROVE TypeOK'
  <2>1. job \in JobType /\ key \in Paths
    BY <1>13, AtWork DEF Decode, Steps
  <2>2. Rendered \in Seq(STRING) /\ Mixed(kv) \in KvType
    <3>1. kv \in KvType
      OBVIOUS
    <3> QED BY <2>1, <3>1, RenderedType, MixedIs
  <2>3. /\ Held(cache') \subseteq Paths \X Seq(STRING)
        /\ \A e \in Held(cache') : cache'.kv[e] \in KvType
    BY <1>11, <1>13, <2>1, <2>2 DEF Decode
  <2>4. Over /\ job.turn \in Turns
    BY <1>13, EndsIsOver, AtWork DEF Decode
  <2> QED BY <1>13, <2>3, <2>4, OverType, NoKvType DEF Decode
<1> QED BY <1>1, <1>2, <1>4, <1>5, <1>6, <1>7, <1>8, <1>9, <1>10, <1>12, <1>13 DEF Worker

-----------------------------------------------------------------------------
(* The worker's steps and the jobs.                                        *)

LoopSide == (\E t \in Turns : Ask(t) \/ Leave(t)) \/ EventLoop

\* The event loop leaves what the worker has in hand, and the caches, alone.
LEMMA LoopLeavesWork ==
  ASSUME LoopSide
  PROVE  UNCHANGED <<job, step, loading, hand, key, kv, cache>>
  BY DEF LoopSide, EventLoop, Handles, Ask, Leave, Drop, LoopLoads, Execute, Probed, Check, Forget, workVars

\* The worker leaves the configuration and what the event loop does alone.
LEMMA WorkLeavesLoop ==
  ASSUME Worker
  PROVE  UNCHANGED <<asks, sees, config, loop, overtaken, raced>>
  BY DEF Worker, Begin, ClearCaches, Look, Load, Read, Unfit, Template, SeesAndSays, Lookup, Prefill,
         Decode, Ends, Fails, turnVars, nodeVars

(***************************************************************************)
(* A job that goes on, or is over; nobody's place changes before its end.  *)
(***************************************************************************)
GoesOn == UNCHANGED <<at, queue, job>>
IsOver == step \notin {"idle", "clear"} /\ Over /\ UNCHANGED queue
Clears == step = "clear" /\ Done /\ cache' = NoCache /\ UNCHANGED <<at, queue>>

\* A step of the worker is one of four.
LEMMA WorkerIs ==
  ASSUME Worker
  PROVE  \/ Begin /\ UNCHANGED at
         \/ Clears
         \/ IsOver
         \/ GoesOn /\ (Look \/ Load \/ Read \/ Lookup \/ Prefill)
<1> USE EndsIsOver DEF IsOver, GoesOn, turnVars
<1>1. CASE Begin \/ ClearCaches
  BY <1>1 DEF Begin, ClearCaches, Clears
<1>2. CASE Look
  BY <1>2 DEF Look
<1>3. CASE Load
  BY <1>3 DEF Load
<1>4. CASE Read
  BY <1>4 DEF Read
<1>5. CASE Unfit \/ Template \/ SeesAndSays \/ Decode
  BY <1>5 DEF Unfit, Template, SeesAndSays, Decode
<1>6. CASE Lookup
  BY <1>6 DEF Lookup
<1>7. CASE Prefill
  BY <1>7 DEF Prefill
<1> QED BY <1>1, <1>2, <1>3, <1>4, <1>5, <1>6, <1>7 DEF Worker

\* No job, the clearing and the jobs of turns are told apart.
LEMMA NoneApart == NoJob # Clear /\ NoJob \notin JobType /\ Clear \notin JobType
  BY DEF NoJob, Clear, JobType

\* Every step preserves what is known of the step of the worker.
LEMMA StepsStep ==
  ASSUME TypeOK, Steps, LoopSide \/ Worker
  PROVE  Steps'
<1> USE NodeAssumption, NoneApart DEF Steps
<1>1. CASE LoopSide
  BY <1>1, LoopLeavesWork
<1>2. CASE Begin
  <2>1. Head(queue) \in JobType \cup {Clear}
    BY <1>2 DEF Begin, TypeOK
  <2> QED BY <1>2, <2>1 DEF Begin
<1>3. CASE Clears
  BY <1>3 DEF Clears, Done
<1>4. CASE IsOver
  BY <1>4 DEF IsOver, Over, Done
<1>5. CASE GoesOn /\ Look
  BY <1>5 DEF GoesOn, Look, Ends, Done, TypeOK
<1>6. CASE GoesOn /\ Load
  BY <1>6 DEF GoesOn, Load, Fails, Done
<1>7. CASE GoesOn /\ Read
  <2>1. job \in JobType /\ job # Clear /\ job # NoJob
    BY <1>7, AtWork DEF Read
  <2>2. job.does # "probe" => hand' \in Paths
    BY <1>7 DEF Read, Fits, TypeOK
  <2>3. job.does \in {"probe", "text", "vision"}
    BY <2>1 DEF JobType
  <2> QED BY <1>7, <2>1, <2>2, <2>3 DEF GoesOn, Read
<1>8. CASE GoesOn /\ Lookup
  BY <1>8 DEF GoesOn, Lookup, TypeOK
<1>9. CASE GoesOn /\ Prefill
  BY <1>9 DEF GoesOn, Prefill, Ends, Fails, Done
<1> QED BY <1>1, <1>2, <1>3, <1>4, <1>5, <1>6, <1>7, <1>8, <1>9, WorkerIs

(***************************************************************************)
(* What a step of the loop does to the turns and the queue.                *)
(***************************************************************************)
Opens(t) == queue' = queue /\ at[t] = "new" /\ (at' = at \/ at' = [at EXCEPT ![t] = "waiting"])
Dropping(t) == queue' = Append(queue, Clear) /\ at[t] = "new" /\ at' = [at EXCEPT ![t] = "waiting"]
Leaving(t) == queue' = TakenOut(t) /\ at' = [at EXCEPT ![t] = "over"]

\* A step of the event loop is one of six, as far as turns and queue go.
LEMMA LoopIs ==
  ASSUME TypeOK, Switching, LoopSide
  PROVE  \/ UNCHANGED <<at, queue>>
         \/ \E t \in Turns :
              \/ Opens(t) \/ Leaving(t)
              \/ Drop /\ Dropping(t)
              \/ at[t] \in {"waiting", "probed", "answered"} /\ Submits(t)
              \/ at[t] = "answered" /\ GivesUp(t)
<1>1. ASSUME NEW t \in Turns, Ask(t) PROVE Opens(t)
  BY <1>1 DEF Ask, Moves, Opens
<1>2. ASSUME NEW t \in Turns, Leave(t) PROVE Leaving(t)
  BY <1>2 DEF Leave, Moves, Leaving, TakenOut
<1>3. ASSUME Drop PROVE loop.turn \in Turns /\ Dropping(loop.turn)
  BY <1>3, NodeAssumption DEF Drop, Forget, Moves, Dropping, Switching, TypeOK
<1>4. ASSUME NEW t \in Turns, Execute(t) PROVE at[t] = "waiting" /\ Submits(t)
  BY <1>4, ExecuteIs DEF Execute
<1>5. ASSUME NEW t \in Turns, Probed(t) PROVE at[t] = "probed" /\ Submits(t)
  BY <1>5, ProbedIs DEF Probed
<1>6. ASSUME NEW t \in Turns, Check(t)
      PROVE  at[t] = "answered" /\ (Submits(t) \/ GivesUp(t) \/ UNCHANGED <<at, queue>>)
  BY <1>6, JudgeIs DEF Check, Moves, GivesUp
<1>7. ASSUME LoopLoads
      PROVE  loop.turn \in Turns /\ at[loop.turn] = "answered" /\ (Submits(loop.turn) \/ GivesUp(loop.turn))
  <2>1. loop.turn \in Turns /\ at[loop.turn] = "answered"
    BY <1>7, NodeAssumption DEF LoopLoads, Switching, TypeOK
  <2> QED BY <1>7, <2>1, JudgeIs DEF LoopLoads
<1> QED BY <1>1, <1>2, <1>3, <1>4, <1>5, <1>6, <1>7 DEF LoopSide, EventLoop, Handles

\* Every step preserves that a turn has one job, and waits for it.
LEMMA JobsStep ==
  ASSUME TypeOK, Steps, Jobs, Switching, LoopSide \/ Worker
  PROVE  Jobs'
<1> USE NoneApart
<1>q. /\ queue \in Seq(JobType \cup {Clear}) /\ at \in [Turns -> HasSlot \cup {"new", "waiting", "over"}]
      /\ job \in JobType \cup {Clear, NoJob}
  BY DEF TypeOK
<1>n. /\ \A j \in JobType : j.turn \in Turns /\ j.turn # None
      /\ Clear.turn = None /\ NoJob.turn = None
  BY NodeAssumption DEF JobType, Clear, NoJob
<1>w. \A w \in {"new", "waiting", "probed", "answered", "over"} : w \notin Waits
  BY DEF Waits
<1>1. CASE UNCHANGED <<at, queue, job>>
  BY <1>1 DEF Jobs
<1>2. ASSUME LoopSide, NEW t \in Turns, Opens(t) PROVE Jobs'
  <2>1. job' = job /\ queue' = queue /\ \A u \in Turns : at'[u] = at[u] \/ (u = t /\ at[t] = "new")
    BY <1>q, <1>2, LoopLeavesWork DEF Opens
  <2> QED BY <1>q, <1>n, <1>w, <2>1 DEF Jobs
<1>3. ASSUME LoopSide, NEW t \in Turns, Dropping(t) PROVE Jobs'
  <2>1. job' = job /\ \A u \in Turns : at'[u] = at[u] \/ (u = t /\ at[t] = "new")
    BY <1>q, <1>3, LoopLeavesWork DEF Dropping
  <2>2. /\ DOMAIN queue' = 1 .. Len(queue) + 1 /\ DOMAIN queue = 1 .. Len(queue) /\ Len(queue) \in Nat
        /\ queue'[Len(queue) + 1] = Clear /\ \A i \in DOMAIN queue : queue'[i] = queue[i]
    BY <1>q, <1>3 DEF Dropping
  <2>3. \A i \in DOMAIN queue : queue[i] # Clear => queue[i] \in JobType
    BY <1>q
  <2>4. \A i \in DOMAIN queue' : queue'[i] # Clear => i \in DOMAIN queue /\ queue[i] \in JobType
    BY <2>2, <2>3
  <2>5. \A i, j \in DOMAIN queue' : queue'[i] # Clear /\ queue'[i].turn = queue'[j].turn => i = j
    BY <1>n, <2>2, <2>4 DEF Jobs
  <2> QED BY <1>n, <1>w, <1>q, <2>1, <2>2, <2>4, <2>5 DEF Jobs
<1>4. ASSUME LoopSide, NEW t \in Turns, at[t] \in {"waiting", "probed", "answered"}, Submits(t) PROVE Jobs'
  <2>1. PICK j \in JobType, where \in Waits :
          /\ j.turn = t /\ queue' = Append(queue, j) /\ at' = [at EXCEPT ![t] = where]
          /\ j.does = "probe" <=> where = "probing"
    BY <1>4 DEF Submits
  <2>2. job' = job /\ at'[t] = where /\ \A u \in Turns : u # t => at'[u] = at[u]
    BY <1>q, <1>4, <2>1, LoopLeavesWork
  <2>3. /\ DOMAIN queue' = 1 .. Len(queue) + 1 /\ DOMAIN queue = 1 .. Len(queue) /\ Len(queue) \in Nat
        /\ queue'[Len(queue) + 1] = j /\ \A i \in DOMAIN queue : queue'[i] = queue[i]
    BY <1>q, <2>1
  <2>4. \A i \in DOMAIN queue : queue[i] \in JobType \/ queue[i] = Clear
    BY <1>q
  <2>5. \A i \in DOMAIN queue : queue[i].turn # t
    <3>1. at[t] \notin Waits
      BY <1>4 DEF Waits
    <3>2. None # t
      BY NodeAssumption
    <3> QED BY <1>n, <2>4, <3>1, <3>2 DEF Jobs
  <2>6. job.turn # t
    <3>1. at[t] \notin Waits \cup {"over"}
      BY <1>4 DEF Waits
    <3>2. None # t
      BY NodeAssumption
    <3> QED BY <1>n, <1>q, <3>1, <3>2 DEF Jobs
  <2>7. \A a, b \in DOMAIN queue' : queue'[a] # Clear /\ queue'[a].turn = queue'[b].turn => a = b
    BY <2>1, <2>3, <2>5 DEF Jobs
  <2>8. \A i \in DOMAIN queue' : queue'[i] # Clear =>
          /\ at'[queue'[i].turn] \in Waits
          /\ queue'[i].does = "probe" <=> at'[queue'[i].turn] = "probing"
          /\ queue'[i].turn # job'.turn
    <3>1. ASSUME NEW i \in DOMAIN queue, queue[i] # Clear
          PROVE  queue[i].turn \in Turns /\ at'[queue[i].turn] = at[queue[i].turn]
      BY <1>n, <2>2, <2>4, <2>5, <3>1
    <3> QED BY <2>1, <2>2, <2>3, <2>6, <3>1 DEF Jobs
  <2>9. job' \in JobType => at'[job'.turn] = at[job.turn]
    BY <1>n, <2>2, <2>6
  <2> QED BY <2>2, <2>7, <2>8, <2>9 DEF Jobs
<1>5. ASSUME LoopSide, NEW t \in Turns, at[t] = "answered", GivesUp(t) PROVE Jobs'
  <2>1. job' = job /\ queue' = queue /\ \A u \in Turns : at'[u] = at[u] \/ (u = t /\ at[t] = "answered")
    BY <1>q, <1>5, LoopLeavesWork DEF GivesUp
  <2> QED BY <1>q, <1>n, <1>w, <2>1 DEF Jobs
<1>6. ASSUME LoopSide, NEW t \in Turns, Leaving(t) PROVE Jobs'
  <2>1. job' = job /\ at'[t] = "over" /\ \A u \in Turns : u # t => at'[u] = at[u]
    BY <1>q, <1>6, LoopLeavesWork DEF Leaving
  <2>2. \A i \in DOMAIN queue : queue[i] \in JobType \/ queue[i] = Clear
    BY <1>q
  <2>3. CASE queue' = queue /\ \A i \in DOMAIN queue : queue[i].turn # t
    BY <1>n, <2>1, <2>2, <2>3 DEF Jobs
  <2>4. ASSUME NEW k \in DOMAIN queue, queue[k].turn = t, queue' = RemoveAt(queue, k) PROVE Jobs'
    <3>1. /\ DOMAIN queue' = 1 .. Len(queue) - 1 /\ DOMAIN queue = 1 .. Len(queue) /\ Len(queue) \in Nat
          /\ \A i \in DOMAIN queue' : queue'[i] = IF i < k THEN queue[i] ELSE queue[i + 1]
      <4>1. queue' \in Seq(JobType \cup {Clear}) /\ Len(queue') = Len(queue) - 1
        BY <1>q, <2>4, RemoveAtPlaces
      <4>2. DOMAIN queue' = 1 .. Len(queue) - 1
        BY <4>1
      <4> QED BY <1>q, <2>4, <4>2, RemoveAtPlaces
    <3>2. ASSUME NEW i \in DOMAIN queue' PROVE \E m \in DOMAIN queue : m # k /\ queue'[i] = queue[m] /\ m = IF i < k THEN i ELSE i + 1
      BY <3>1
    <3>3. queue[k] # Clear
      BY <1>n, <2>4, NodeAssumption
    <3>4. \A m \in DOMAIN queue : m # k => queue[m].turn # t
      BY <2>4, <3>3 DEF Jobs
    <3>5. \A i \in DOMAIN queue' : queue'[i] # Clear =>
            /\ at'[queue'[i].turn] \in Waits
            /\ queue'[i].does = "probe" <=> at'[queue'[i].turn] = "probing"
            /\ queue'[i].turn # job'.turn
      <4> TAKE i \in DOMAIN queue'
      <4>1. PICK m \in DOMAIN queue : m # k /\ queue'[i] = queue[m]
        BY <3>2
      <4>2. queue[m] # Clear => queue[m].turn \in Turns /\ queue[m].turn # t
        BY <1>n, <2>2, <3>4, <4>1
      <4> QED BY <2>1, <4>1, <4>2 DEF Jobs
    <3>6. \A i, j \in DOMAIN queue' : queue'[i] # Clear /\ queue'[i].turn = queue'[j].turn => i = j
      <4> TAKE i, j \in DOMAIN queue'
      <4>1. PICK m \in DOMAIN queue : queue'[i] = queue[m] /\ m = IF i < k THEN i ELSE i + 1
        BY <3>2
      <4>2. PICK n \in DOMAIN queue : queue'[j] = queue[n] /\ n = IF j < k THEN j ELSE j + 1
        BY <3>2
      <4>3. queue[m] # Clear /\ queue[m].turn = queue[n].turn => m = n
        BY DEF Jobs
      <4> QED BY <3>1, <4>1, <4>2, <4>3
    <3>7. job' \in JobType => at'[job'.turn] \in {at[job.turn], "over"}
      BY <1>n, <2>1
    <3> QED BY <2>1, <3>5, <3>6, <3>7 DEF Jobs
  <2> QED BY <1>6, <1>q, <2>3, <2>4, TakenOutIs DEF Leaving
<1>7. CASE Begin /\ UNCHANGED at
  <2>1. /\ job' = queue[1] /\ 1 \in DOMAIN queue /\ DOMAIN queue' = 1 .. Len(queue) - 1
        /\ DOMAIN queue = 1 .. Len(queue) /\ Len(queue) \in Nat
        /\ \A i \in DOMAIN queue' : i + 1 \in DOMAIN queue /\ queue'[i] = queue[i + 1]
    BY <1>7, <1>q, HeadTailProperties DEF Begin
  <2>2. \A i \in DOMAIN queue : queue[i] \in JobType \/ queue[i] = Clear
    BY <1>q
  <2>3. \A i \in DOMAIN queue' : queue'[i] # Clear => queue'[i].turn # job'.turn
    BY <2>1 DEF Jobs
  <2>4. job' \in JobType => job' # Clear
    OBVIOUS
  <2>5. \A i, j \in DOMAIN queue' : queue'[i] # Clear /\ queue'[i].turn = queue'[j].turn => i = j
    <3> TAKE i, j \in DOMAIN queue'
    <3>1. queue[i + 1] # Clear /\ queue[i + 1].turn = queue[j + 1].turn => i + 1 = j + 1
      BY <2>1 DEF Jobs
    <3> QED BY <2>1, <3>1
  <2> QED BY <1>7, <2>1, <2>3, <2>4, <2>5 DEF Jobs
<1>8. CASE Clears
  BY <1>8, <1>n, <1>q DEF Clears, Done, Jobs
<1>9. CASE IsOver
  <2>1. job \in JobType /\ job.turn \in Turns
    BY <1>9, AtWork DEF IsOver
  <2>2. job' = NoJob /\ queue' = queue /\ \A u \in Turns : u # job.turn => at'[u] = at[u]
    BY <1>9, <1>q, <2>1, OverType DEF IsOver
  <2>3. \A i \in DOMAIN queue : queue[i] # Clear => queue[i].turn \in Turns /\ queue[i].turn # job.turn /\ queue[i].turn # None
    BY <1>n, <1>q DEF Jobs
  <2> QED BY <1>n, <2>1, <2>2, <2>3 DEF Jobs
<1> HIDE DEF Jobs
<1>10. CASE Worker
  BY <1>1, <1>7, <1>8, <1>9, <1>10, WorkerIs DEF GoesOn
<1>11. CASE LoopSide
  BY <1>1, <1>2, <1>3, <1>4, <1>5, <1>6, <1>11, LoopIs, LoopLeavesWork
<1> QED BY <1>10, <1>11

-----------------------------------------------------------------------------
(* Switches.                                                               *)

\* The turns of the jobs are under way.
LEMMA JobsTurns ==
  ASSUME TypeOK, Jobs
  PROVE  /\ \A i \in DOMAIN queue : queue[i] # Clear =>
              queue[i] \in JobType /\ queue[i].turn \in Turns /\ UnderWay(queue[i].turn)
         /\ job.turn \in Turns => job \in JobType
         /\ job \in JobType => job.turn \in Turns /\ at[job.turn] \notin {"new", "probed", "answered"}
<1>1. /\ \A j \in JobType : j.turn \in Turns /\ j.turn # None
      /\ Clear.turn = None /\ NoJob.turn = None /\ None \notin Turns
  BY NodeAssumption DEF JobType, Clear, NoJob
<1>2. \A i \in DOMAIN queue : queue[i] \in JobType \cup {Clear}
  BY DEF TypeOK
<1>3. \A i \in DOMAIN queue : queue[i] # Clear => queue[i] \in JobType /\ at[queue[i].turn] \in Waits
  BY <1>2 DEF Jobs
<1>4. job \in JobType \cup {Clear, NoJob}
  BY DEF TypeOK
<1>5. job \in JobType => at[job.turn] \notin {"new", "probed", "answered"}
  BY DEF Jobs, Waits
<1> QED BY <1>1, <1>3, <1>4, <1>5 DEF UnderWay, HasSlot

\* Every step preserves that a switch overtakes all that is under way.
LEMMA SwitchingStep ==
  ASSUME TypeOK, Steps, Jobs, Switching, LoopSide \/ Worker
  PROVE  Switching'
<1> USE NodeAssumption DEF LoopIdle, Loop, LoopFree
<1>1. ASSUME NEW t \in Turns, Ask(t) PROVE Switching'
  <2>1. CASE loop' = loop
    BY <1>1, <2>1 DEF Ask, Switching
  <2>2. CASE Switch(t) /\ overtaken' = overtaken \cup {u \in Turns : UnderWay(u) \/ u = job.turn} /\ UNCHANGED at
    <3>1. job' = job /\ at[t] = "new" /\ loop'.turn = t /\ loop'.does = "drop"
      BY <1>1, <2>2 DEF Ask, workVars, Switch
    <3>2. \A u \in Turns : UnderWay(u)' \/ u = job'.turn => u \in overtaken'
      BY <2>2, <3>1 DEF UnderWay
    <3> QED BY <2>2, <3>1, <3>2 DEF Switching
  <2> QED BY <1>1, <2>1, <2>2 DEF Ask
<1>2. ASSUME NEW t \in Turns, Leave(t) \/ Execute(t) \/ Probed(t) PROVE Switching'
  BY <1>2 DEF Leave, Execute, Probed, Switching
<1>3. ASSUME NEW t \in Turns, Check(t) PROVE Switching'
  BY <1>3 DEF Check, Switching
<1>4. ASSUME Drop \/ LoopLoads PROVE Switching'
  BY <1>4 DEF Drop, LoopLoads, Switching
<1>5. CASE LoopSide
  BY <1>1, <1>2, <1>3, <1>4, <1>5 DEF LoopSide, EventLoop, Handles
<1>6. ASSUME Worker, UNCHANGED <<at, job>> \/ (UNCHANGED at /\ job' \in {NoJob, Clear}) PROVE Switching'
  <2>1. loop' = loop /\ overtaken' = overtaken /\ at' = at
    BY <1>6, WorkLeavesLoop
  <2>2. job' = job \/ job'.turn = None
    BY <1>6 DEF NoJob, Clear
  <2> QED BY <2>1, <2>2 DEF Switching, UnderWay
<1>7. ASSUME Worker, Begin, UNCHANGED at PROVE Switching'
  <2>1. loop' = loop /\ overtaken' = overtaken
    BY <1>7, WorkLeavesLoop
  <2>2. job' = queue[1] /\ 1 \in DOMAIN queue
    BY <1>7 DEF Begin, TypeOK
  <2>3. CASE queue[1] = Clear
    BY <1>6, <1>7, <2>2, <2>3
  <2>4. CASE queue[1] # Clear
    BY <1>7, <2>1, <2>2, <2>4, JobsTurns DEF Switching, UnderWay
  <2> QED BY <2>3, <2>4
<1>8. ASSUME Worker, IsOver PROVE Switching'
  <2>1. job \in JobType /\ job.turn \in Turns
    BY <1>8, AtWork DEF IsOver
  <2>2. loop' = loop /\ overtaken' = overtaken /\ job'.turn = None
    BY <1>8, <2>1, WorkLeavesLoop, OverType DEF IsOver, NoJob
  <2>3. \A u \in Turns : u # job.turn => at'[u] = at[u]
    BY <1>8, <2>1, OverType DEF IsOver, TypeOK
  <2>4. at[job.turn] \notin {"new", "answered"}
    BY <2>1, JobsTurns
  <2>5. loop.does \in {"drop", "load"} => loop.turn \in Turns
    BY DEF TypeOK
  <2> QED BY <2>1, <2>2, <2>3, <2>4, <2>5 DEF Switching, UnderWay
<1>9. CASE Worker
  BY <1>6, <1>7, <1>8, <1>9, WorkerIs DEF GoesOn, Clears, Done
<1> QED BY <1>5, <1>9

\* Every step preserves that the model is the configured one.
LEMMA ConfiguredStep ==
  ASSUME TypeOK, Steps, Configured, LoopSide \/ Worker
  PROVE  Configured'
<1> USE NodeAssumption DEF Configured, LoopIdle, Loop, LoopFree, nodeVars, turnVars, workVars
<1>t. /\ config \in Paths /\ config # None /\ config # Guess
      /\ {model, tokenizer, loading, hand} \subseteq Paths \cup {None}
  BY DEF TypeOK
<1>1. ASSUME NEW t \in Turns, Ask(t) PROVE Configured'
  <2>1. CASE UNCHANGED <<nodeVars, loop>>
    BY <1>1, <2>1 DEF Ask
  <2>2. CASE Switch(t)
    BY <1>1, <2>2 DEF Switch
  <2> QED BY <1>1, <2>1, <2>2 DEF Ask
<1>2. ASSUME NEW t \in Turns, Leave(t) \/ Execute(t) \/ Probed(t) PROVE Configured'
  BY <1>2 DEF Leave, Execute, Probed
<1>3. ASSUME NEW t \in Turns, Check(t) PROVE Configured'
  BY <1>3, <1>t DEF Check
<1>4. ASSUME Drop PROVE Configured'
  BY <1>4, <1>t DEF Drop, Dropped, Steps
<1>5. ASSUME LoopLoads PROVE Configured'
  BY <1>5, <1>t DEF LoopLoads
<1>6. CASE LoopSide
  BY <1>1, <1>2, <1>3, <1>4, <1>5, <1>6 DEF LoopSide, EventLoop, Handles
<1>8. CASE Begin \/ ClearCaches
  BY <1>8 DEF Begin, ClearCaches, Done
<1>9. CASE Look
  BY <1>9, <1>t DEF Look, Ends, Done
<1>10. CASE Load
  BY <1>10, <1>t DEF Load, Fails, Done, Knows, Steps
<1>11. CASE Read
  <2>1. step' = job.does /\ job' = job /\ job.does \in {"probe", "text", "vision"}
    BY <1>11, AtWork DEF Read, JobType
  <2> QED BY <1>11, <1>t, <2>1 DEF Read
<1>12. CASE Unfit \/ SeesAndSays \/ Decode
  BY <1>12 DEF Unfit, SeesAndSays, Decode, Ends, Fails, Done
<1>13. CASE Template
  BY <1>13 DEF Template, Ends, Done
<1>14. CASE Lookup
  BY <1>14 DEF Lookup
<1>15. CASE Prefill
  BY <1>15 DEF Prefill, Ends, Fails, Done
<1>16. CASE Worker
  BY <1>8, <1>9, <1>10, <1>11, <1>12, <1>13, <1>14, <1>15, <1>16 DEF Worker
<1> QED BY <1>6, <1>16

\* Every step preserves that a turn no switch overtook has a model there.
LEMMA PresentStep ==
  ASSUME TypeOK, Steps, Jobs, Switching, Present, LoopSide \/ Worker
  PROVE  Present'
<1> USE NodeAssumption DEF LoopIdle, Loop, LoopFree, nodeVars, turnVars, workVars
<1> DEFINE Works == {"vision", "text", "prefill", "decode"}
<1>t. /\ config \in Paths /\ config # None /\ model \in Paths \cup {None}
      /\ loop.does \in {"drop", "load"} => loop.turn \in Turns
  BY DEF TypeOK
<1>a. at \in [Turns -> HasSlot \cup {"new", "waiting", "over"}]
  BY DEF TypeOK
<1>1. ASSUME NEW t \in Turns, Ask(t) PROVE Present'
  <2>1. /\ model' = model /\ job' = job /\ step' = step /\ overtaken \subseteq overtaken'
        /\ loop'.does # "load"
        /\ \A u \in Turns : at'[u] = "answered" => at[u] = "answered"
    BY <1>1, <1>a DEF Ask, Switch, Moves
  <2> QED BY <2>1 DEF Present
<1>2. ASSUME NEW t \in Turns, Leave(t) PROVE Present'
  BY <1>2, <1>a DEF Leave, Moves, Present
<1>3. ASSUME NEW t \in Turns, Execute(t) \/ Probed(t) PROVE Present'
  <2>1. Submits(t)
    BY <1>3, ExecuteIs, ProbedIs
  <2>2. \A u \in Turns : at'[u] = "answered" => at[u] = "answered"
    BY <1>a, <2>1 DEF Submits, Waits
  <2> QED BY <1>3, <2>2 DEF Execute, Probed, Present
<1>4. ASSUME NEW t \in Turns, Check(t) PROVE Present'
  <2>1. \A u \in Turns : at'[u] = "answered" => at[u] = "answered"
    <3>1. CASE UNCHANGED at
      BY <3>1
    <3>2. CASE Submits(t) \/ GivesUp(t)
      BY <1>a, <3>2 DEF Submits, GivesUp, Waits
    <3> QED BY <1>4, <3>1, <3>2, JudgeIs DEF Check, GivesUp, Moves
  <2> QED BY <1>4, <2>1 DEF Check, Present
<1>5. ASSUME Drop PROVE Present'
  <2>1. \A u \in Turns \ overtaken : at[u] # "answered" /\ u # job.turn
    BY <1>5 DEF Drop, Switching, UnderWay, HasSlot
  <2>2. \A u \in Turns : at'[u] = "answered" => at[u] = "answered"
    BY <1>5, <1>a DEF Drop, Moves
  <2> QED BY <1>5, <2>1, <2>2 DEF Drop, Present
<1>6. ASSUME LoopLoads PROVE Present'
  <2>1. Submits(loop.turn) \/ GivesUp(loop.turn)
    BY <1>6, <1>t, JudgeIs DEF LoopLoads
  <2>2. \A u \in Turns : at'[u] = "answered" => at[u] = "answered"
    BY <1>a, <2>1 DEF Submits, GivesUp, Waits
  <2> QED BY <1>6, <1>t, <2>2 DEF LoopLoads, Present
<1>7. CASE LoopSide
  BY <1>1, <1>2, <1>3, <1>4, <1>5, <1>6, <1>7 DEF LoopSide, EventLoop, Handles
<1>8. ASSUME IsOver, UNCHANGED <<loop, overtaken>>, model' = model,
             at'[job.turn] = "answered" => step \in Works
      PROVE  Present'
  <2>1. job \in JobType /\ job.turn \in Turns
    BY <1>8, AtWork DEF IsOver
  <2>2. step' = "idle" /\ \A u \in Turns : u # job.turn => at'[u] = at[u]
    BY <1>8, <1>a, <2>1, OverType DEF IsOver
  <2> QED BY <1>8, <2>1, <2>2 DEF Present
<1>9. CASE Begin \/ ClearCaches
  BY <1>9 DEF Begin, ClearCaches, Done, Present
<1>10. CASE Look
  <2>1. CASE Ends
    <3>1. job \in JobType /\ job.turn \in Turns /\ job.does = "probe" /\ IsOver
      BY <1>10, <2>1, AtWork, EndsIsOver DEF Look, IsOver, Done, Ends
    <3>2. at[job.turn] # "generating"
      BY <3>1 DEF Jobs
    <3>3. at'[job.turn] # "answered"
      BY <3>1, <3>2, OverType DEF IsOver
    <3> QED BY <1>8, <1>10, <3>1, <3>3 DEF Look
  <2>2. CASE UNCHANGED <<turnVars, job, hand, key, kv>> /\ step' \in {"load", "read"}
    BY <1>10, <2>2 DEF Look, Present
  <2> QED BY <1>10, <2>1, <2>2 DEF Look
<1>11. ASSUME Fails, step \notin {"idle", "clear"} PROVE at'[job.turn] # "answered"
  <2>1. at'[job.turn] = Afterwards(TRUE)
    BY <1>11, <1>a, AtWork DEF Fails, Moves
  <2> QED BY <2>1, AfterwardsIs DEF Waits, HasSlot
<1>12. CASE Load
  <2>1. CASE Fails
    <3>1. IsOver
      BY <1>12, <2>1, EndsIsOver DEF Load, IsOver
    <3>2. model' = model /\ loop' = loop /\ overtaken' = overtaken /\ step \notin {"idle", "clear"}
      BY <1>12, <2>1 DEF Load, Fails, Done
    <3> QED BY <1>8, <1>11, <2>1, <3>1, <3>2
  <2>2. CASE UNCHANGED turnVars /\ model' = loading /\ step' = "read"
    <3>1. loading # None
      BY <1>12 DEF Load, Steps
    <3>2. /\ loop' = loop /\ overtaken' = overtaken /\ at' = at
          /\ model' # None /\ step' = "read"
      BY <1>12, <2>2, <3>1 DEF Load
    <3> QED BY <3>2 DEF Present
  <2> QED BY <1>12, <2>1, <2>2 DEF Load
<1>13. CASE Read
  BY <1>13 DEF Read, Fits, Present, Steps
<1>14. CASE Unfit
  <2>1. IsOver
    BY <1>14, EndsIsOver DEF Unfit, IsOver
  <2> QED BY <1>8, <1>11, <1>14, <2>1 DEF Unfit
<1>15. CASE Template
  <2>1. job \in JobType /\ job.turn \in Turns /\ job.does = "probe" /\ IsOver
    BY <1>15, AtWork, EndsIsOver DEF Template, Steps, IsOver
  <2>2. at[job.turn] # "generating"
    BY <2>1 DEF Jobs
  <2>3. at'[job.turn] # "answered"
    BY <2>1, <2>2, OverType DEF IsOver
  <2> QED BY <1>8, <1>15, <2>1, <2>3 DEF Template
<1>16. CASE SeesAndSays \/ Decode
  <2>1. IsOver
    BY <1>16, EndsIsOver DEF SeesAndSays, Decode, IsOver
  <2> QED BY <1>8, <1>16, <2>1 DEF SeesAndSays, Decode
<1>17. CASE Lookup
  BY <1>17 DEF Lookup, Present
<1>18. CASE Prefill
  <2>1. CASE Ends \/ Fails
    <3>1. IsOver
      BY <1>18, <2>1, EndsIsOver DEF Prefill, IsOver
    <3> QED BY <1>8, <1>18, <3>1 DEF Prefill
  <2>2. CASE UNCHANGED <<turnVars, job, loading, hand, key, kv>> /\ step' = "decode"
    BY <1>18, <2>2 DEF Prefill, Present
  <2> QED BY <1>18, <2>1, <2>2 DEF Prefill
<1>19. CASE Worker
  BY <1>9, <1>10, <1>12, <1>13, <1>14, <1>15, <1>16, <1>17, <1>18, <1>19 DEF Worker
<1> QED BY <1>7, <1>19

-----------------------------------------------------------------------------
(* The place of the clearing.                                              *)

(***************************************************************************)
(* The queue as a step leaves it: what was there, in its order, with a job *)
(* behind it or with one taken out.                                        *)
(***************************************************************************)
LEMMA QueueGrows ==
  ASSUME TypeOK, NEW j, queue' = Append(queue, j)
  PROVE  /\ Len(queue) \in Nat /\ DOMAIN queue = 1 .. Len(queue)
         /\ DOMAIN queue' = 1 .. Len(queue) + 1
         /\ queue'[Len(queue) + 1] = j /\ \A i \in DOMAIN queue : queue'[i] = queue[i]
  BY DEF TypeOK

\* A job taken out is never the clearing.
LEMMA QueueShrinks ==
  ASSUME TypeOK, NEW t \in Turns, queue' = TakenOut(t)
  PROVE  \/ queue' = queue
         \/ \E k \in DOMAIN queue :
              /\ queue[k] # Clear
              /\ Len(queue) \in Nat /\ DOMAIN queue = 1 .. Len(queue)
              /\ DOMAIN queue' = 1 .. Len(queue) - 1
              /\ \A i \in DOMAIN queue' : queue'[i] = IF i < k THEN queue[i] ELSE queue[i + 1]
<1>1. queue \in Seq(JobType \cup {Clear})
  BY DEF TypeOK
<1>2. ASSUME NEW k \in DOMAIN queue, queue[k].turn = t, queue' = RemoveAt(queue, k)
      PROVE  /\ queue[k] # Clear
             /\ Len(queue) \in Nat /\ DOMAIN queue = 1 .. Len(queue)
             /\ DOMAIN queue' = 1 .. Len(queue) - 1
             /\ \A i \in DOMAIN queue' : queue'[i] = IF i < k THEN queue[i] ELSE queue[i + 1]
  <2>1. queue' \in Seq(JobType \cup {Clear}) /\ Len(queue') = Len(queue) - 1
    BY <1>1, <1>2, RemoveAtPlaces
  <2>2. DOMAIN queue' = 1 .. Len(queue) - 1
    BY <2>1
  <2>3. queue[k] # Clear
    BY <1>2, NodeAssumption DEF Clear
  <2>4. Len(queue) \in Nat /\ DOMAIN queue = 1 .. Len(queue)
    BY <1>1
  <2>5. \A i \in 1 .. Len(queue) - 1 : queue'[i] = IF i < k THEN queue[i] ELSE queue[i + 1]
    BY <1>1, <1>2, RemoveAtPlaces
  <2> QED BY <2>2, <2>3, <2>4, <2>5
<1> QED BY <1>1, <1>2, TakenOutIs

\* The queue when its first job is begun.
LEMMA QueueBegun ==
  ASSUME TypeOK, Begin
  PROVE  /\ job' = queue[1] /\ 1 \in DOMAIN queue /\ Len(queue) \in Nat /\ DOMAIN queue = 1 .. Len(queue)
         /\ DOMAIN queue' = 1 .. Len(queue) - 1
         /\ \A i \in DOMAIN queue' : i + 1 \in DOMAIN queue /\ queue'[i] = queue[i + 1]
  BY HeadTailProperties DEF TypeOK, Begin

\* Every step preserves that what stands before the clearing was overtaken.
LEMMA InPlaceStep ==
  ASSUME TypeOK, Steps, Jobs, Switching, InPlace, LoopSide \/ Worker
  PROVE  InPlace'
<1> USE NoneApart
<1>1. ASSUME overtaken \subseteq overtaken', UNCHANGED <<queue, job>> PROVE InPlace'
  BY <1>1 DEF InPlace
<1>2. ASSUME LoopSide PROVE overtaken \subseteq overtaken' /\ job' = job
  <2>1. overtaken \subseteq overtaken'
    BY <1>2 DEF LoopSide, EventLoop, Handles, Ask, Leave, Drop, LoopLoads, Execute, Probed, Check
  <2> QED BY <1>2, <2>1, LoopLeavesWork
<1>3. ASSUME Drop PROVE InPlace'
  <2>1. queue' = Append(queue, Clear) /\ overtaken' = overtaken /\ job' = job
    BY <1>3 DEF Drop, Forget, workVars
  <2>2. \A t \in Turns : UnderWay(t) \/ t = job.turn => t \in overtaken
    BY <1>3 DEF Drop, Switching
  <2>3. \A i \in DOMAIN queue : queue[i] # Clear => queue[i].turn \in overtaken
    BY <2>2, JobsTurns
  <2>4. job \in JobType => job.turn \in overtaken
    BY <2>2, JobsTurns
  <2>5. \A i \in DOMAIN queue' : queue'[i] # Clear => queue'[i].turn \in overtaken
    BY <2>1, <2>3, QueueGrows
  <2>6. \A j \in DOMAIN queue' : 1 .. j \subseteq DOMAIN queue'
    BY <2>1, QueueGrows
  <2> QED BY <2>1, <2>4, <2>5, <2>6 DEF InPlace
<1>4. ASSUME LoopSide, NEW t \in Turns, Submits(t) PROVE InPlace'
  <2>1. PICK j \in JobType : queue' = Append(queue, j)
    BY <1>4 DEF Submits
  <2>2. \A i \in DOMAIN queue' : queue'[i] = Clear => i \in DOMAIN queue /\ queue[i] = Clear
    BY <2>1, QueueGrows
  <2>3. \A i \in DOMAIN queue : \A m \in 1 .. i : m \in DOMAIN queue /\ queue'[m] = queue[m]
    BY <2>1, QueueGrows
  <2> QED BY <1>2, <1>4, <2>2, <2>3 DEF InPlace
<1>5. ASSUME LoopSide, NEW t \in Turns, Leaving(t) PROVE InPlace'
  <2>1. CASE queue' = queue
    BY <1>1, <1>2, <1>5, <2>1
  <2>2. ASSUME NEW k \in DOMAIN queue, Len(queue) \in Nat, DOMAIN queue = 1 .. Len(queue),
               DOMAIN queue' = 1 .. Len(queue) - 1,
               \A i \in DOMAIN queue' : queue'[i] = IF i < k THEN queue[i] ELSE queue[i + 1]
        PROVE  InPlace'
    <3> SUFFICES ASSUME NEW j \in DOMAIN queue', queue'[j] = Clear
                 PROVE  /\ \A i \in 1 .. j : queue'[i] # Clear => queue'[i].turn \in overtaken'
                        /\ job' \in JobType => job'.turn \in overtaken'
      BY DEF InPlace
    <3>1. PICK m \in DOMAIN queue : queue[m] = Clear /\ m = IF j < k THEN j ELSE j + 1
      BY <2>2
    <3>2. ASSUME NEW i \in 1 .. j PROVE \E n \in 1 .. m : queue'[i] = queue[n]
      <4>1. CASE i < k
        BY <2>2, <3>1, <4>1
      <4>2. CASE ~(i < k)
        BY <2>2, <3>1, <4>2
      <4> QED BY <4>1, <4>2
    <3> QED BY <1>2, <1>5, <3>1, <3>2 DEF InPlace
  <2> QED BY <1>5, <2>1, <2>2, QueueShrinks DEF Leaving
<1>6. CASE LoopSide
  BY <1>1, <1>2, <1>3, <1>4, <1>5, <1>6, LoopIs DEF Opens, GivesUp
<1>7. ASSUME Worker PROVE overtaken' = overtaken
  BY <1>7, WorkLeavesLoop
<1>8. ASSUME Worker, Begin PROVE InPlace'
  <2> SUFFICES ASSUME NEW j \in DOMAIN queue', queue'[j] = Clear
               PROVE  /\ \A i \in 1 .. j : queue'[i] # Clear => queue'[i].turn \in overtaken'
                      /\ job' \in JobType => job'.turn \in overtaken'
    BY DEF InPlace
  <2>1. j + 1 \in DOMAIN queue /\ queue[j + 1] = Clear /\ 1 \in 1 .. j + 1
    BY <1>8, QueueBegun
  <2>2. \A i \in 1 .. j + 1 : queue[i] # Clear => queue[i].turn \in overtaken
    BY <2>1 DEF InPlace
  <2>3. \A i \in 1 .. j : i \in DOMAIN queue' /\ i + 1 \in 1 .. j + 1
    BY <1>8, QueueBegun
  <2> QED BY <1>7, <1>8, <2>1, <2>2, <2>3, QueueBegun
<1>9. ASSUME Worker, Clears \/ IsOver PROVE InPlace'
  <2>1. job' = NoJob /\ queue' = queue
    BY <1>9 DEF Clears, IsOver, Over, Done
  <2> QED BY <1>7, <1>9, <2>1 DEF InPlace
<1>10. CASE Worker
  BY <1>1, <1>7, <1>8, <1>9, <1>10, WorkerIs DEF GoesOn
<1> QED BY <1>6, <1>10

-----------------------------------------------------------------------------
(* The whole invariant.                                                    *)

Inv == TypeOK /\ Steps /\ Jobs /\ Switching /\ Configured /\ Present /\ InPlace

\* The invariant holds at first,
LEMMA InvInit == Init => Inv
<1> SUFFICES ASSUME Init PROVE Inv
  OBVIOUS
<1>1. TypeOK
  BY TypeInit
<1>2. Steps /\ Jobs /\ InPlace
  BY NoneApart DEF Init, Steps, Jobs, InPlace
<1>3. Switching /\ Configured /\ Present
  BY NodeAssumption DEF Init, Switching, Configured, Present
<1> QED BY <1>1, <1>2, <1>3 DEF Inv

\* (a step is the event loop's or the worker's)
LEMMA NextIs == Next => LoopSide \/ Worker
  BY DEF Next, LoopSide

\* is kept by every step,
LEMMA InvStep == Inv /\ [Next]_vars => Inv'
<1> SUFFICES ASSUME Inv, [Next]_vars PROVE Inv'
  OBVIOUS
<1>1. CASE Next
  <2>1. LoopSide \/ Worker
    BY <1>1, NextIs
  <2>2. TypeOK'
    BY <2>1, TypeLoop, TypeWorker DEF Inv, LoopSide
  <2>3. Steps' /\ Jobs' /\ Switching'
    BY <2>1, StepsStep, JobsStep, SwitchingStep DEF Inv
  <2>4. Configured' /\ Present' /\ InPlace'
    BY <2>1, ConfiguredStep, PresentStep, InPlaceStep DEF Inv
  <2> QED BY <2>2, <2>3, <2>4 DEF Inv
<1>2. CASE UNCHANGED vars
  <2> USE <1>2 DEF vars, turnVars, nodeVars, workVars
  <2>1. TypeOK'
    BY DEF Inv, TypeOK, Held
  <2>2. Steps' /\ Jobs' /\ InPlace'
    BY DEF Inv, Steps, Jobs, InPlace
  <2>3. Switching' /\ Configured' /\ Present'
    BY DEF Inv, Switching, Configured, Present, UnderWay
  <2> QED BY <2>1, <2>2, <2>3 DEF Inv
<1> QED BY <1>1, <1>2

\* and so always holds.
LEMMA InvHolds == Spec => []Inv
  BY InvInit, InvStep, PTL DEF Spec

(***************************************************************************)
(* The node, its worker and its caches are well typed (chat.py,            *)
(* prompt_cache_manager.py).                                               *)
(***************************************************************************)
THEOREM TypeCorrect == Spec => []TypeOK
<1>1. Inv => TypeOK
  BY DEF Inv
<1> QED BY <1>1, InvHolds, PTL

(***************************************************************************)
(* What is loaded, and known of its template, is what is configured,       *)
(* unless the last switch met a load or a probe (chat.py:229-256).         *)
(***************************************************************************)
THEOREM LoadedAlwaysConfigured == Spec => []LoadedIsConfigured
<1>1. Inv => LoadedIsConfigured
  BY DEF Inv, Configured, LoadedIsConfigured, LoopIdle
<1> QED BY <1>1, InvHolds, PTL

(***************************************************************************)
(* The event loop loads a model itself only for a turn that a switch       *)
(* overtook, however many slots there are (chat.py:560).                   *)
(***************************************************************************)
THEOREM WorkerLoads == Spec => []LoadsOnTheWorker
<1>1. ASSUME Inv PROVE LoadsOnTheWorker
  <2>1. loop.does = "load" => loop.turn \in Turns
    BY <1>1 DEF Inv, TypeOK
  <2> QED BY <1>1, <2>1 DEF Inv, Present, LoadsOnTheWorker
<1> QED BY <1>1, InvHolds, PTL

-----------------------------------------------------------------------------
(* With one slot: whose KV a generation reads.                             *)

\* With one slot a free slot means that no turn has one.
LEMMA SlotIsFree ==
  ASSUME Slots = 1, OneSlot, SlotFree
  PROVE  \A t \in Turns : at[t] \notin HasSlot
<1> DEFINE G == {t \in Turns : at[t] \in HasSlot}
<1>1. ASSUME NEW u \in G PROVE FALSE
  <2>1. G = {u}
    BY <1>1 DEF OneSlot
  <2>2. Cardinality(G) = 1
    BY <2>1, FS_Singleton
  <2> QED BY <2>2 DEF SlotFree
<1> QED BY <1>1

\* Every step preserves that one turn at most has a slot.
LEMMA OneSlotStep ==
  ASSUME Slots = 1, Inv, OneSlot, LoopSide \/ Worker
  PROVE  OneSlot'
<1> USE NoneApart DEF Inv
<1>a. at \in [Turns -> HasSlot \cup {"new", "waiting", "over"}]
  BY DEF TypeOK
<1>h. /\ Waits \subseteq HasSlot /\ "probed" \in HasSlot /\ "answered" \in HasSlot
      /\ "over" \notin HasSlot /\ "new" \notin HasSlot /\ "waiting" \notin HasSlot
      /\ "probed" \notin Waits /\ "answered" \notin Waits
  BY DEF HasSlot, Waits
<1>1. ASSUME LoopSide
      PROVE  /\ \A t, u \in Turns : at'[t] \in HasSlot /\ at'[u] \in HasSlot => t = u
             /\ \A t \in Turns : at'[t] \in {"probed", "answered"} =>
                  job' \notin JobType /\ \A i \in DOMAIN queue' : queue'[i] = Clear
  <2>1. job' = job
    BY <1>1, LoopLeavesWork
  <2>2. CASE UNCHANGED <<at, queue>>
    BY <2>1, <2>2 DEF OneSlot
  <2>3. ASSUME NEW t \in Turns, Opens(t) \/ Dropping(t) \/ GivesUp(t) \/ Leaving(t)
        PROVE  \A u \in Turns : at'[u] = at[u] \/ at'[u] \in {"waiting", "over"}
    BY <1>a, <2>3 DEF Opens, Dropping, GivesUp, Leaving
  <2>4. ASSUME NEW t \in Turns, Opens(t) \/ GivesUp(t) \/ Dropping(t) \/ Leaving(t), NEW i \in DOMAIN queue'
        PROVE  queue'[i] = Clear \/ \E m \in DOMAIN queue : queue'[i] = queue[m]
    <3>1. CASE queue' = queue
      BY <2>4, <3>1
    <3>2. CASE queue' = Append(queue, Clear)
      BY <2>4, <3>2, QueueGrows
    <3>3. CASE Leaving(t)
      BY <2>4, <3>3, QueueShrinks DEF Leaving
    <3> QED BY <2>4, <3>1, <3>2, <3>3 DEF Opens, GivesUp, Dropping
  <2>5. ASSUME NEW t \in Turns, Opens(t) \/ GivesUp(t) \/ Dropping(t) \/ Leaving(t)
        PROVE  /\ \A v, u \in Turns : at'[v] \in HasSlot /\ at'[u] \in HasSlot => v = u
               /\ \A u \in Turns : at'[u] \in {"probed", "answered"} =>
                    job' \notin JobType /\ \A i \in DOMAIN queue' : queue'[i] = Clear
    BY <1>h, <2>1, <2>3, <2>4, <2>5 DEF OneSlot
  <2>6. ASSUME NEW t \in Turns, at[t] \in {"waiting", "probed", "answered"}, Submits(t),
               at[t] = "waiting" => SlotFree
        PROVE  /\ \A v, u \in Turns : at'[v] \in HasSlot /\ at'[u] \in HasSlot => v = u
               /\ \A u \in Turns : at'[u] \notin {"probed", "answered"}
    <3>1. at'[t] \in Waits /\ \A u \in Turns : u # t => at'[u] = at[u]
      BY <1>a, <2>6 DEF Submits
    <3>2. \A u \in Turns : u # t => at[u] \notin HasSlot
      BY <1>h, <2>6, SlotIsFree DEF OneSlot
    <3> QED BY <1>h, <3>1, <3>2
  <2>7. ASSUME NEW t \in Turns, Ask(t) PROVE Opens(t)
    BY <2>7 DEF Ask, Moves, Opens
  <2>8. ASSUME NEW t \in Turns, Leave(t) PROVE Leaving(t)
    BY <2>8 DEF Leave, Moves, Leaving, TakenOut
  <2>9. ASSUME Drop PROVE loop.turn \in Turns /\ Dropping(loop.turn)
    BY <2>9, NodeAssumption DEF Drop, Forget, Moves, Dropping, Switching, TypeOK
  <2>10. ASSUME NEW t \in Turns, Execute(t) PROVE at[t] = "waiting" /\ SlotFree /\ Submits(t)
    BY <2>10, ExecuteIs DEF Execute
  <2>11. ASSUME NEW t \in Turns, Probed(t) PROVE at[t] = "probed" /\ Submits(t)
    BY <2>11, ProbedIs DEF Probed
  <2>12. ASSUME NEW t \in Turns, Check(t)
         PROVE  at[t] = "answered" /\ (Submits(t) \/ GivesUp(t) \/ UNCHANGED <<at, queue>>)
    BY <2>12, JudgeIs DEF Check, Moves, GivesUp
  <2>13. ASSUME LoopLoads
         PROVE  loop.turn \in Turns /\ at[loop.turn] = "answered" /\ (Submits(loop.turn) \/ GivesUp(loop.turn))
    <3>1. loop.turn \in Turns /\ at[loop.turn] = "answered"
      BY <2>13, NodeAssumption DEF LoopLoads, Switching, TypeOK
    <3> QED BY <2>13, <3>1, JudgeIs DEF LoopLoads
  <2>14. "waiting" # "probed" /\ "waiting" # "answered"
    OBVIOUS
  <2> QED BY <1>1, <2>2, <2>5, <2>6, <2>7, <2>8, <2>9, <2>10, <2>11, <2>12, <2>13, <2>14
          DEF LoopSide, EventLoop, Handles
<1>2. ASSUME Worker
      PROVE  /\ \A t, u \in Turns : at'[t] \in HasSlot /\ at'[u] \in HasSlot => t = u
             /\ \A t \in Turns : at'[t] \in {"probed", "answered"} =>
                  job' \notin JobType /\ \A i \in DOMAIN queue' : queue'[i] = Clear
  <2>1. CASE GoesOn
    BY <2>1 DEF GoesOn, OneSlot
  <2>2. CASE Begin /\ UNCHANGED at
    <3>1. /\ job' = queue[1] /\ 1 \in DOMAIN queue
          /\ \A i \in DOMAIN queue' : i + 1 \in DOMAIN queue /\ queue'[i] = queue[i + 1]
      BY <2>2, QueueBegun
    <3> QED BY <2>2, <3>1 DEF OneSlot
  <2>3. CASE Clears
    BY <2>3 DEF Clears, Done, OneSlot
  <2>4. CASE IsOver
    <3>1. job \in JobType /\ job.turn \in Turns
      BY <2>4, AtWork DEF IsOver
    <3>2. /\ job' = NoJob /\ queue' = queue /\ at'[job.turn] \in {"probed", "answered", "over"}
          /\ at[job.turn] # "probing" => at'[job.turn] # "probed"
          /\ at[job.turn] # "generating" => at'[job.turn] # "answered"
          /\ \A u \in Turns : u # job.turn => at'[u] = at[u]
      BY <2>4, <1>a, <3>1, OverType DEF IsOver
    <3>3. \A u \in Turns : at[u] \notin {"probed", "answered"}
      BY <3>1 DEF OneSlot
    <3>4. at'[job.turn] \in HasSlot => at[job.turn] \in HasSlot
      BY <1>h, <3>2 DEF Waits
    <3>5. \A u \in Turns : at'[u] \in HasSlot => at[u] \in HasSlot
      BY <3>2, <3>4
    <3>6. ASSUME at'[job.turn] \in {"probed", "answered"}, NEW i \in DOMAIN queue PROVE queue[i] = Clear
      <4>1. at[job.turn] \in HasSlot
        BY <1>h, <3>4, <3>6
      <4>2. queue[i] # Clear => queue[i].turn \in Turns /\ at[queue[i].turn] \in HasSlot /\ queue[i].turn # job.turn
        BY <1>h, JobsTurns DEF Jobs
      <4> QED BY <3>1, <4>1, <4>2 DEF OneSlot
    <3>7. \A u \in Turns : at'[u] \in {"probed", "answered"} => u = job.turn
      BY <3>2, <3>3
    <3> QED BY <3>2, <3>5, <3>6, <3>7 DEF OneSlot
  <2> QED BY <1>2, <2>1, <2>2, <2>3, <2>4, WorkerIs
<1>3. ASSUME LoopSide PROVE loop'.does = "load" => model' = None
  <2> USE DEF LoopIdle, Loop, LoopFree, nodeVars
  <2>1. ASSUME NEW t \in Turns, Ask(t) PROVE loop'.does # "load"
    <3>1. CASE UNCHANGED loop
      BY <2>1, <3>1 DEF Ask
    <3>2. CASE Switch(t)
      BY <3>2 DEF Switch
    <3> QED BY <2>1, <3>1, <3>2 DEF Ask
  <2>2. ASSUME NEW t \in Turns, Leave(t) \/ Execute(t) \/ Probed(t) PROVE loop'.does # "load"
    BY <2>2 DEF Leave, Execute, Probed
  <2>3. ASSUME NEW t \in Turns, Check(t) PROVE loop'.does = "load" => model' = None
    BY <2>3 DEF Check
  <2>4. ASSUME Drop \/ LoopLoads PROVE loop'.does # "load"
    BY <2>4 DEF Drop, LoopLoads
  <2> QED BY <1>3, <2>1, <2>2, <2>3, <2>4 DEF LoopSide, EventLoop, Handles
<1>4. ASSUME Worker PROVE loop'.does = "load" => model' = None
  <2>1. loop' = loop
    BY <1>4, WorkLeavesLoop
  <2> SUFFICES ASSUME loop.does = "load" PROVE model' = None
    BY <2>1
  <2>2. model = None /\ job \notin JobType
    <3>1. loop.turn \in Turns /\ at[loop.turn] = "answered"
      BY DEF TypeOK, Switching
    <3> QED BY <3>1 DEF OneSlot
  <2>3. step \in {"idle", "clear"}
    BY <2>2, AtWork
  <2>4. Begin \/ ClearCaches
    BY <1>4, <2>3 DEF Worker, Look, Load, Read, Unfit, Template, SeesAndSays, Lookup, Prefill, Decode
  <2> QED BY <2>2, <2>4 DEF Begin, ClearCaches, nodeVars
<1> QED BY <1>1, <1>2, <1>3, <1>4 DEF OneSlot

(***************************************************************************)
(* Once a switch has begun the caches are about to be cleared, until they  *)
(* are.                                                                    *)
(***************************************************************************)
LEMMA PendingLoop ==
  ASSUME TypeOK, Switching, LoopSide, ~Pending'
  PROVE  ~Pending /\ config' = config
<1> USE DEF LoopIdle, Loop, LoopFree, nodeVars
<1>1. job' = job
  BY LoopLeavesWork
<1>2. ~Drop
  <2>1. ASSUME Drop PROVE queue'[Len(queue) + 1] = Clear /\ Len(queue) + 1 \in DOMAIN queue'
    BY <2>1, QueueGrows DEF Drop, Forget
  <2> QED BY <2>1 DEF Pending
<1>3. ASSUME NEW i \in DOMAIN queue, queue[i] = Clear PROVE \E j \in DOMAIN queue' : queue'[j] = Clear
  <2>1. CASE queue' = queue
    BY <1>3, <2>1
  <2>2. ASSUME NEW t \in Turns, Submits(t) PROVE \E j \in DOMAIN queue' : queue'[j] = Clear
    <3>1. PICK j : queue' = Append(queue, j)
      BY <2>2 DEF Submits
    <3>2. i \in DOMAIN queue' /\ queue'[i] = queue[i]
      BY <3>1, QueueGrows
    <3> QED BY <1>3, <3>2
  <2>3. ASSUME NEW t \in Turns, Leaving(t) PROVE \E j \in DOMAIN queue' : queue'[j] = Clear
    <3>1. ASSUME NEW k \in DOMAIN queue, queue[k] # Clear,
                 Len(queue) \in Nat, DOMAIN queue = 1 .. Len(queue), DOMAIN queue' = 1 .. Len(queue) - 1,
                 \A m \in DOMAIN queue' : queue'[m] = IF m < k THEN queue[m] ELSE queue[m + 1]
          PROVE  \E j \in DOMAIN queue' : queue'[j] = Clear
      <4>1. CASE i < k
        BY <1>3, <3>1, <4>1
      <4>2. CASE i > k
        <5>1. i - 1 \in DOMAIN queue' /\ ~(i - 1 < k) /\ (i - 1) + 1 = i
          BY <3>1, <4>2
        <5> QED BY <1>3, <3>1, <5>1
      <4>3. i # k /\ i \in Nat /\ k \in Nat
        BY <1>3, <3>1
      <4> QED BY <4>1, <4>2, <4>3
    <3> QED BY <2>1, <2>3, <3>1, QueueShrinks DEF Leaving
  <2> QED BY <1>2, <2>1, <2>2, <2>3, LoopIs DEF Opens, GivesUp
<1>4. loop.does # "drop" /\ config' = config
  <2>1. ASSUME NEW t \in Turns, Ask(t) PROVE loop.does # "drop" /\ config' = config
    <3>1. loop'.does # "drop"
      BY DEF Pending
    <3> QED BY <2>1, <3>1 DEF Ask, Switch
  <2>2. ASSUME NEW t \in Turns, Leave(t) \/ Handles(t) PROVE loop.does # "drop" /\ config' = config
    BY <2>2 DEF Leave, Handles, Execute, Probed, Check
  <2>3. ASSUME LoopLoads PROVE loop.does # "drop" /\ config' = config
    BY <2>3 DEF LoopLoads
  <2> QED BY <1>2, <2>1, <2>2, <2>3 DEF LoopSide, EventLoop
<1> QED BY <1>1, <1>3, <1>4 DEF Pending

\* A generation of a turn that no switch overtook has no clearing before it.
LEMMA NotPending ==
  ASSUME Inv, step \in Generation, job.turn \notin overtaken
  PROVE  ~Pending
<1>1. job \in JobType /\ job.turn \in Turns
  BY AtWork DEF Inv, Generation
<1> QED BY <1>1, NoneApart DEF Inv, Pending, Switching, InPlace

\* The worker takes the clearing out of the queue, and does it.
LEMMA PendingWorker ==
  ASSUME TypeOK, Steps, Worker, ~Pending'
  PROVE  ~Pending \/ ClearCaches
<1> USE NoneApart
<1>1. loop' = loop
  BY WorkLeavesLoop
<1>2. CASE Begin
  <2>1. job = NoJob
    BY <1>2 DEF Begin
  <2>2. ASSUME NEW i \in DOMAIN queue, queue[i] = Clear PROVE FALSE
    <3>1. CASE i = 1
      BY <1>2, <2>2, <3>1, QueueBegun DEF Pending
    <3>2. CASE i # 1
      <4>1. i - 1 \in DOMAIN queue' /\ (i - 1) + 1 = i
        BY <1>2, <2>2, <3>2, QueueBegun
      <4>2. queue'[i - 1] = queue[i]
        BY <1>2, <4>1, QueueBegun
      <4> QED BY <2>2, <4>1, <4>2 DEF Pending
    <3> QED BY <3>1, <3>2
  <2> QED BY <1>1, <2>1, <2>2 DEF Pending
<1>3. CASE Clears
  <2>1. ClearCaches
    BY <1>3 DEF Clears, Worker, ClearCaches, Begin, Look, Load, Read, Unfit, Template, SeesAndSays, Lookup,
       Prefill, Decode, Steps
  <2> QED BY <2>1
<1>4. CASE IsOver
  <2>1. job \in JobType /\ queue' = queue
    BY <1>4, AtWork DEF IsOver
  <2> QED BY <1>1, <2>1 DEF Pending
<1>5. CASE GoesOn
  BY <1>1, <1>5 DEF GoesOn, Pending
<1> QED BY <1>2, <1>3, <1>4, <1>5, WorkerIs

\* Every step preserves that the KV of the configured path is of the model there is.
LEMMA CurrentStep ==
  ASSUME Slots = 1, Inv, OneSlot, Current, LoopSide \/ Worker
  PROVE  Current'
<1> USE NoneApart, NodeAssumption DEF Inv, nodeVars, turnVars
<1> SUFFICES ASSUME ~Pending' PROVE Current'
  BY DEF Current
<1> DEFINE Entries == \A e \in Held(cache) : e[1] = config => model # None /\ cache.kv[e].by = model
<1>c. Current' = (/\ Entries'
                  /\ step' = "load" => model' = None
                  /\ step' \in {"text", "prefill", "decode"} => hand' = model'
                  /\ step' \in {"prefill", "decode"} => key' = config' /\ kv'.by = hand')
  BY DEF Current
<1>1. CASE LoopSide
  <2>1. ~Pending /\ config' = config /\ UNCHANGED <<job, step, loading, hand, key, kv, cache>>
    BY <1>1, PendingLoop, LoopLeavesWork
  <2>2. CASE model' = model
    BY <2>1, <2>2 DEF Current
  <2>3. CASE LoopLoads
    <3>1. loop.turn \in Turns /\ at[loop.turn] = "answered" /\ model = None
      BY <2>3 DEF LoopLoads, Switching, OneSlot, TypeOK
    <3>2. job \notin JobType
      BY <3>1 DEF OneSlot
    <3>3. step \in {"idle", "clear"}
      BY <3>2, AtWork
    <3> QED BY <2>1, <3>1, <3>3 DEF Current
  <2>4. Drop => FALSE
    <3>1. ASSUME Drop PROVE queue'[Len(queue) + 1] = Clear /\ Len(queue) + 1 \in DOMAIN queue'
      BY <3>1, QueueGrows DEF Drop, Forget
    <3> QED BY <3>1 DEF Pending
  <2>5. ASSUME NEW t \in Turns, Ask(t) PROVE model' = model
    BY <2>5 DEF Ask, Switch
  <2>6. ASSUME NEW t \in Turns, Leave(t) \/ Handles(t) PROVE model' = model
    BY <2>6 DEF Leave, Handles, Execute, Probed, Check
  <2> QED BY <1>1, <2>2, <2>3, <2>4, <2>5, <2>6 DEF LoopSide, EventLoop
<1>2. CASE ClearCaches
  BY <1>2, <1>c DEF ClearCaches, Done, Held, NoCache
<1>3. ASSUME Worker, ~ClearCaches PROVE Current'
  <2>1. ~Pending /\ config' = config
    BY <1>3, PendingWorker, WorkLeavesLoop
  <2>2. /\ Entries
        /\ step = "load" => model = None
        /\ step \in {"text", "prefill", "decode"} => hand = model
        /\ step \in {"prefill", "decode"} => key = config /\ kv.by = hand
    BY <2>1 DEF Current
  <2>3. ASSUME step' \notin {"load", "text", "prefill", "decode"}, cache' = cache, model' = model
        PROVE  Current'
    <3>1. Entries'
      BY <2>1, <2>2, <2>3
    <3> HIDE DEF Entries
    <3> QED BY <1>c, <2>3, <3>1
  <2>4. ASSUME NEW tokens, NEW v, v.by = model, model # None, cache' = Insert(cache, config, tokens, v),
               model' = model
        PROVE  Entries'
    <3>1. /\ Held(cache') \subseteq Held(cache) \cup {<<config, tokens>>}
          /\ \A e \in Held(cache') : IF e \in Held(cache) THEN cache'.kv[e] = cache.kv[e] ELSE cache'.kv[e] = v
      BY <2>4, InsertIs
    <3> QED BY <2>1, <2>2, <2>4, <3>1
  <2>5. CASE Begin
    BY <2>3, <2>5 DEF Begin
  <2>6. ASSUME Ends \/ Fails PROVE step' = "idle"
    BY <2>6 DEF Ends, Fails, Done
  <2>7. CASE Look
    <3>1. CASE Ends
      BY <2>3, <2>6, <2>7, <3>1 DEF Look
    <3>2. CASE step' = IF model = None THEN "load" ELSE "read"
      BY <2>1, <2>2, <2>7, <3>2, <1>c DEF Look
    <3> QED BY <2>7, <3>1, <3>2 DEF Look
  <2>8. CASE Load
    <3>1. CASE Fails
      <4>1. step' = "idle" /\ cache' = cache
        BY <2>6, <2>8, <3>1 DEF Load
      <4>2. model = None /\ step = "load"
        BY <2>2, <2>8 DEF Load
      <4> QED BY <1>c, <2>1, <2>2, <4>1, <4>2
    <3>2. CASE step' = "read"
      BY <1>c, <2>1, <2>2, <2>8, <3>2 DEF Load
    <3> QED BY <2>8, <3>1, <3>2 DEF Load
  <2>9. CASE Read
    <3>1. job \in JobType /\ step' = job.does /\ cache' = cache /\ model' = model
      BY <2>9, AtWork DEF Read
    <3>2. job.does \in {"probe", "text", "vision"}
      BY <3>1 DEF JobType
    <3>3. job.does = "text" => hand' = model
      BY <2>9 DEF Read
    <3> QED BY <1>c, <2>1, <2>2, <3>1, <3>2, <3>3
  <2>10. CASE Unfit \/ Template \/ SeesAndSays
    BY <2>3, <2>6, <2>10 DEF Unfit, Template, SeesAndSays
  <2>11. CASE Lookup
    <3>1. /\ step = "text" /\ hand = model /\ hand \in Paths /\ config \in Paths
          /\ Prompt \in Seq(STRING) /\ Prompt # <<>>
      BY <2>2, <2>11, AtWork, PromptType DEF Lookup, Steps, TypeOK
    <3>2. Held(cache) \subseteq Paths \X Seq(STRING) /\ \A e \in Held(cache) : cache.kv[e] \in KvType
      BY DEF TypeOK
    <3>3. kv' \in Prefilled(cache, config, Prompt, hand)
      BY <2>11 DEF Lookup
    <3>4. kv'.by = hand \/ \E e \in Held(cache) : e[1] = config /\ kv'.by = cache.kv[e].by
      BY <3>1, <3>2, <3>3, PrefilledIs
    <3>5. kv'.by = hand
      BY <2>2, <3>1, <3>4
    <3> QED BY <1>c, <2>1, <2>2, <2>11, <3>1, <3>5 DEF Lookup
  <2>12. ASSUME step \in {"prefill", "decode"}
         PROVE  key = config /\ kv.by = model /\ hand = model /\ model # None
    BY <2>2, <2>12 DEF Steps
  <2>13. CASE Prefill
    <3>1. CASE (Ends \/ Fails) /\ UNCHANGED cache
      BY <2>3, <2>6, <2>13, <3>1 DEF Prefill
    <3>2. ASSUME NEW v \in {kv, Mixed(kv)}, cache' = Insert(cache, key, Prompt, v), step' = "decode",
                 UNCHANGED <<hand, key, kv>>
          PROVE  Current'
      <4>1. key = config /\ kv.by = model /\ hand = model /\ model # None /\ model' = model /\ v.by = kv.by
        BY <2>12, <2>13 DEF Prefill, Mixed
      <4>2. Entries'
        BY <2>4, <3>2, <4>1
      <4> QED BY <1>c, <2>1, <3>2, <4>1, <4>2
    <3> QED BY <2>13, <3>1, <3>2 DEF Prefill
  <2>14. CASE Decode
    <3> DEFINE v == Mixed(kv)
    <3>1. key = config /\ kv.by = model /\ model # None /\ model' = model
      BY <2>12, <2>14 DEF Decode
    <3>2. step' = "idle"
      BY <2>6, <2>14 DEF Decode
    <3>3. CASE cache' = cache
      BY <2>3, <3>1, <3>2, <3>3
    <3>4. CASE cache' = Insert(cache, key, Rendered, v)
      <4>1. v.by = model
        BY <3>1 DEF Mixed
      <4> HIDE DEF v
      <4>2. Entries'
        BY <2>4, <3>1, <3>4, <4>1
      <4> QED BY <1>c, <3>2, <4>2
    <3> QED BY <2>14, <3>3, <3>4 DEF Decode
  <2> HIDE DEF Entries
  <2> QED BY <1>3, <2>5, <2>7, <2>8, <2>9, <2>10, <2>11, <2>13, <2>14 DEF Worker
<1> QED BY <1>1, <1>2, <1>3

-----------------------------------------------------------------------------
(* The caches are whole.                                                   *)

Members(s) == {s[i] : i \in DOMAIN s}
Distinct(s) == \A i, j \in DOMAIN s : s[i] = s[j] => i = j

\* What RemoveFirst returns: the sequence, or the sequence less one place.
LEMMA RemoveFirstIs ==
  ASSUME NEW S, NEW s \in Seq(S), NEW e
  PROVE  \/ RemoveFirst(s, e) = s /\ \A i \in DOMAIN s : s[i] # e
         \/ \E i \in DOMAIN s : s[i] = e /\ RemoveFirst(s, e) = RemoveAt(s, i)
<1> DEFINE I == {i \in 1 .. Len(s) : s[i] = e}
           k == CHOOSE x \in I : \A y \in I : x <= y
<1>1. RemoveFirst(s, e) = IF I = {} THEN s ELSE RemoveAt(s, k)
  BY DEF RemoveFirst, SelectInSeq, Min
<1>2. ASSUME I # {} PROVE k \in I
  <2>1. I \subseteq Nat
    OBVIOUS
  <2>2. \E x \in I : \A y \in I : x <= y
    BY <1>2, <2>1, LeastNatural
  <2> HIDE DEF I
  <2> QED BY <2>2
<1>3. I \subseteq DOMAIN s /\ \A i \in I : s[i] = e
  OBVIOUS
<1>4. I = {} => \A i \in DOMAIN s : s[i] # e
  OBVIOUS
<1> HIDE DEF I, k
<1> QED BY <1>1, <1>2, <1>3, <1>4

\* It takes the element out of a sequence that has it once.
LEMMA RemoveFirstProperties ==
  ASSUME NEW S, NEW s \in Seq(S), NEW e, Distinct(s)
  PROVE  LET r == RemoveFirst(s, e) IN
         /\ r \in Seq(S) /\ Distinct(r) /\ Members(r) = Members(s) \ {e}
         /\ Len(r) = IF e \in Members(s) THEN Len(s) - 1 ELSE Len(s)
<1> DEFINE r == RemoveFirst(s, e)
<1>1. CASE r = s /\ \A i \in DOMAIN s : s[i] # e
  BY <1>1 DEF Members
<1>2. ASSUME NEW k \in DOMAIN s, s[k] = e, r = RemoveAt(s, k)
      PROVE  /\ r \in Seq(S) /\ Distinct(r) /\ Members(r) = Members(s) \ {e}
             /\ e \in Members(s) /\ Len(r) = Len(s) - 1
  <2> HIDE DEF r
  <2>1. r \in Seq(S) /\ Len(r) = Len(s) - 1
    BY <1>2, RemoveAtPlaces
  <2>2. DOMAIN r = 1 .. Len(s) - 1 /\ DOMAIN s = 1 .. Len(s) /\ Len(s) \in Nat
    BY <2>1
  <2>3. \A i \in DOMAIN r : r[i] = IF i < k THEN s[i] ELSE s[i + 1]
    BY <1>2, <2>2, RemoveAtPlaces
  <2>4. Distinct(r)
    BY <2>2, <2>3 DEF Distinct
  <2>5. Members(r) \subseteq Members(s) \ {e}
    BY <1>2, <2>2, <2>3 DEF Distinct, Members
  <2>6. ASSUME NEW i \in DOMAIN s, s[i] # e PROVE s[i] \in Members(r)
    <3>1. CASE i < k
      BY <3>1, <2>2, <2>3 DEF Members
    <3>2. CASE i > k
      <4>1. i - 1 \in DOMAIN r /\ r[i - 1] = s[i]
        BY <3>2, <2>2, <2>3
      <4> QED BY <4>1 DEF Members
    <3> QED BY <1>2, <2>2, <2>6, <3>1, <3>2
  <2>7. Members(s) \ {e} \subseteq Members(r)
    BY <2>6 DEF Members
  <2> QED BY <1>2, <2>1, <2>4, <2>5, <2>7 DEF Members
<1> QED BY <1>1, <1>2, RemoveFirstIs DEF Members

\* An element added at the end of a sequence that does not have it.
LEMMA AppendMembers ==
  ASSUME NEW S, NEW s \in Seq(S), NEW e \in S, Distinct(s), e \notin Members(s)
  PROVE  LET r == Append(s, e) IN
         r \in Seq(S) /\ Distinct(r) /\ Members(r) = Members(s) \cup {e} /\ Len(r) = Len(s) + 1
<1> DEFINE r == Append(s, e)
<1>1. r \in Seq(S) /\ Len(r) = Len(s) + 1 /\ Len(s) \in Nat
  OBVIOUS
<1>2. DOMAIN r = 1 .. Len(s) + 1 /\ DOMAIN s = 1 .. Len(s)
  OBVIOUS
<1>3. r[Len(s) + 1] = e /\ \A i \in DOMAIN s : r[i] = s[i]
  OBVIOUS
<1> HIDE DEF r
<1>4. Distinct(r)
  BY <1>1, <1>2, <1>3 DEF Distinct, Members
<1>5. Members(r) = Members(s) \cup {e}
  BY <1>1, <1>2, <1>3 DEF Members
<1> QED BY <1>1, <1>4, <1>5 DEF r

\* As many elements as places.
LEMMA DistinctCount ==
  ASSUME NEW S, NEW s \in Seq(S), Distinct(s)
  PROVE  Cardinality(Members(s)) = Len(s)
<1>1. s \in [1 .. Len(s) -> Members(s)] /\ Len(s) \in Nat
  BY DEF Members
<1>2. \A i, j \in 1 .. Len(s) : s[i] = s[j] => i = j
  BY DEF Distinct
<1>3. \A m \in Members(s) : \E i \in 1 .. Len(s) : s[i] = m
  BY DEF Members
<1>4. s \in Bijection(1 .. Len(s), Members(s))
  BY <1>1, <1>2, <1>3 DEF Injection, Surjection, Bijection, IsInjective
<1> QED BY <1>1, <1>4, FS_CountingElements DEF ExistsBijection

(***************************************************************************)
(* The entries are those in the order of eviction, each once, the nodes    *)
(* are their branches, and a KV not mixed is that of its tokens.           *)
(***************************************************************************)
EntryType == Paths \X Seq(STRING)
OfTokens(v, tokens) == v.mixed = TRUE \/ v.of = tokens
Listed(c) == c.lru \in Seq(EntryType) /\ Distinct(c.lru) /\ Members(c.lru) = Held(c)
Branches(H) == UNION {Branch(e[1], e[2]) : e \in H}
Sound(c) ==
  /\ Listed(c)
  /\ c.nodes = Branches(Held(c))
  /\ \A e \in Held(c) : OfTokens(c.kv[e], e[2])

LEMMA StoredIsSound ==
  ASSUME NEW c, Sound(c), NEW e \in EntryType, NEW v, OfTokens(v, e[2])
  PROVE  /\ Sound(Stored(c, e, v))
         /\ Held(Stored(c, e, v)) = Held(c) \cup {e}
         /\ Len(Stored(c, e, v).lru) = IF e \in Held(c) THEN Len(c.lru) ELSE Len(c.lru) + 1
<1> DEFINE d == Stored(c, e, v)
           rest == RemoveFirst(c.lru, e)
<1>1. /\ d.nodes = c.nodes \cup Branch(e[1], e[2]) /\ Held(d) = Held(c) \cup {e}
      /\ \A f \in Held(c) \cup {e} : d.kv[f] = IF f \in Held(c) THEN c.kv[f] ELSE v
      /\ d.lru = Append(rest, e)
  BY DEF Stored, Held
<1>2. /\ rest \in Seq(EntryType) /\ Distinct(rest) /\ Members(rest) = Members(c.lru) \ {e}
      /\ Len(rest) = IF e \in Members(c.lru) THEN Len(c.lru) - 1 ELSE Len(c.lru)
  BY RemoveFirstProperties DEF Sound, Listed
<1>3. Len(c.lru) \in Nat
  BY DEF Sound, Listed
<1> HIDE DEF d, rest
<1>4. /\ d.lru \in Seq(EntryType) /\ Distinct(d.lru) /\ Members(d.lru) = Members(rest) \cup {e}
      /\ Len(d.lru) = Len(rest) + 1
  BY <1>1, <1>2, AppendMembers
<1>5. Listed(d)
  BY <1>1, <1>2, <1>4 DEF Sound, Listed
<1>6. d.nodes = Branches(Held(d))
  BY <1>1 DEF Sound, Branches
<1>7. \A f \in Held(d) : OfTokens(d.kv[f], f[2])
  BY <1>1 DEF Sound
<1> QED BY <1>1, <1>2, <1>3, <1>4, <1>5, <1>6, <1>7 DEF Sound, Listed, d

LEMMA WithoutIsSound ==
  ASSUME NEW c, Sound(c), NEW e \in Held(c)
  PROVE  Sound(Without(c, e)) /\ Len(Without(c, e).lru) = Len(c.lru) - 1
<1> DEFINE d == Without(c, e)
           rest == Held(c) \ {e}
<1>1. /\ d.nodes = c.nodes \ {n \in Branch(e[1], e[2]) : \A f \in rest : n \notin Branch(f[1], f[2])}
      /\ Held(d) = rest /\ \A f \in rest : d.kv[f] = c.kv[f]
      /\ d.lru = RemoveFirst(c.lru, e)
  BY DEF Without, Held
<1>2. /\ d.lru \in Seq(EntryType) /\ Distinct(d.lru) /\ Members(d.lru) = Members(c.lru) \ {e}
      /\ Len(d.lru) = IF e \in Members(c.lru) THEN Len(c.lru) - 1 ELSE Len(c.lru)
  BY <1>1, RemoveFirstProperties DEF Sound, Listed
<1> HIDE DEF d
<1>3. d.nodes = Branches(rest)
  BY <1>1 DEF Sound, Branches
<1> QED BY <1>1, <1>2, <1>3 DEF Sound, Listed, d

LEMMA InsertIsSound ==
  ASSUME NEW c, Sound(c), Len(c.lru) <= MaxCaches,
         NEW k \in Paths, NEW tokens \in Seq(STRING), NEW v, OfTokens(v, tokens)
  PROVE  Sound(Insert(c, k, tokens, v)) /\ Len(Insert(c, k, tokens, v).lru) <= MaxCaches
<1> DEFINE e == <<k, tokens>>
           after == Stored(c, e, v)
           head == Head(after.lru)
<1>1. e \in EntryType /\ OfTokens(v, e[2]) /\ Len(c.lru) \in Nat /\ MaxCaches \in Nat \ {0}
  BY CacheAssumption DEF EntryType, Sound, Listed
<1>2. Sound(after) /\ Len(after.lru) <= Len(c.lru) + 1 /\ Len(after.lru) \in Nat
  <2> HIDE DEF e
  <2>1. Sound(after) /\ Len(after.lru) = IF e \in Held(c) THEN Len(c.lru) ELSE Len(c.lru) + 1
    BY <1>1, StoredIsSound
  <2> QED BY <1>1, <2>1
<1>3. Insert(c, k, tokens, v) = IF Len(after.lru) > MaxCaches THEN Without(after, head) ELSE after
  BY DEF Insert
<1> HIDE DEF after
<1>4. CASE Len(after.lru) > MaxCaches
  <2>1. 1 \in DOMAIN after.lru /\ head = after.lru[1]
    BY <1>1, <1>2, <1>4 DEF Sound, Listed
  <2>2. head \in Held(after)
    BY <1>2, <2>1 DEF Sound, Listed, Members
  <2> HIDE DEF head
  <2>3. Sound(Without(after, head)) /\ Len(Without(after, head).lru) = Len(after.lru) - 1
    BY <1>2, <2>2, WithoutIsSound
  <2> QED BY <1>1, <1>2, <1>3, <1>4, <2>3
<1>5. CASE ~(Len(after.lru) > MaxCaches)
  BY <1>1, <1>2, <1>3, <1>5
<1> QED BY <1>4, <1>5

\* A sequence is its first elements and the rest.
LEMMA Glued ==
  ASSUME NEW s \in Seq(STRING), NEW n \in 0 .. Len(s)
  PROVE  SubSeq(s, 1, n) \o SubSeq(s, n + 1, Len(s)) = s
<1> DEFINE a == SubSeq(s, 1, n)
           b == SubSeq(s, n + 1, Len(s))
<1>1. a \in Seq(STRING) /\ Len(a) = n /\ \A i \in 1 .. n : a[i] = s[i]
  OBVIOUS
<1>2. b \in Seq(STRING) /\ Len(b) = Len(s) - n /\ \A i \in 1 .. Len(s) - n : b[i] = s[n + i]
  OBVIOUS
<1> HIDE DEF a, b
<1>3. a \o b \in Seq(STRING) /\ Len(a \o b) = Len(s)
  BY <1>1, <1>2, ConcatProperties
<1>4. ASSUME NEW i \in 1 .. Len(s) PROVE (a \o b)[i] = s[i]
  <2>1. (a \o b)[i] = IF i <= Len(a) THEN a[i] ELSE b[i - Len(a)]
    BY <1>1, <1>2, <1>4
  <2> QED BY <1>1, <1>2, <2>1
<1> DEFINE ab == a \o b
<1>5. ab \in Seq(STRING) /\ Len(ab) = Len(s) /\ \A i \in 1 .. Len(ab) : ab[i] = s[i]
  BY <1>3, <1>4
<1> HIDE DEF ab
<1>6. ab = s
  BY <1>5, SeqEqual
<1> QED BY <1>6 DEF a, b, ab

\* The beginning of a sequence is one.
LEMMA BeginningType ==
  ASSUME NEW s \in Seq(STRING), NEW n \in Int, n <= Len(s)
  PROVE  SubSeq(s, 1, n) \in Seq(STRING)
<1>1. \A i \in 1 .. n : s[i] \in STRING
  OBVIOUS
<1> QED BY <1>1, SubSeqProperties

\* Two sequences that begin alike, cut shorter.
LEMMA CutAlike ==
  ASSUME NEW s \in Seq(STRING), NEW u \in Seq(STRING), NEW d \in Nat, d <= Len(s), d <= Len(u),
         SubSeq(s, 1, d) = SubSeq(u, 1, d), NEW n \in 0 .. d
  PROVE  SubSeq(s, 1, n) = SubSeq(u, 1, n)
<1>1. ASSUME NEW i \in 1 .. d PROVE s[i] = u[i]
  <2>1. SubSeq(s, 1, d)[i] = s[i] /\ SubSeq(u, 1, d)[i] = u[i]
    OBVIOUS
  <2> QED BY <2>1
<1> QED BY <1>1

(***************************************************************************)
(* What a generation works with is the KV of its tokens, or is mixed.      *)
(***************************************************************************)
LEMMA PrefilledIsOfTokens ==
  ASSUME NEW c, Held(c) \subseteq EntryType, \A e \in Held(c) : c.kv[e] \in KvType /\ OfTokens(c.kv[e], e[2]),
         NEW k \in Paths, NEW tokens \in Seq(STRING), tokens # <<>>, NEW m \in Paths,
         NEW x \in Prefilled(c, k, tokens, m)
  PROVE  OfTokens(x, tokens)
<1> DEFINE d == Depth(c, k, tokens)
           last == LastHeld(c, k, tokens)
           common == Common(c, k, tokens)
           from(n) == SubSeq(tokens, 1, n)
           rest(n) == SubSeq(tokens, n + 1, Len(tokens))
<1>1. Len(tokens) \in Nat \ {0} /\ from(Len(tokens)) = tokens
  OBVIOUS
<1>2. d \in 0 .. Len(tokens)
  <2> DEFINE I == {0} \cup {i \in 1 .. Len(tokens) : <<k, from(i)>> \in c.nodes}
  <2> HIDE DEF from
  <2>1. I \subseteq 0 .. Len(tokens) /\ I # {}
    BY <1>1
  <2>2. d = Max(I)
    BY DEF Depth, from
  <2> QED BY <1>1, <2>1, <2>2, MaxProperties
<1>3. last \in 0 .. Len(tokens) /\ (last # 0 => <<k, from(last)>> \in Held(c))
  <2> DEFINE I == {0} \cup {i \in 1 .. d : <<k, from(i)>> \in Held(c)}
  <2>1. I \subseteq 0 .. Len(tokens) /\ I # {}
    BY <1>1, <1>2
  <2>2. last \in I
    BY <1>1, <2>1, MaxProperties DEF LastHeld
  <2> QED BY <1>2, <2>2
<1>4. common \in 0 .. Len(tokens) /\ common <= d
  BY <1>1, <1>2 DEF Common
<1>5. \A n \in 0 .. Len(tokens) :
        /\ from(n) \in Seq(STRING) /\ rest(n) \in Seq(STRING) /\ Len(from(n)) = n
        /\ from(n) \o rest(n) = tokens
  <2> TAKE n \in 0 .. Len(tokens)
  <2>1. from(n) \in Seq(STRING) /\ rest(n) \in Seq(STRING) /\ Len(from(n)) = n
    BY <1>1
  <2>2. from(n) \o rest(n) = tokens
    BY <1>1, Glued
  <2> QED BY <2>1, <2>2
<1>6. ASSUME NEW v \in KvType, NEW s \in Seq(STRING)
      PROVE  (v.mixed = TRUE /\ Fed(v, s) = v) \/ (Fed(v, s).of = v.of \o s /\ Fed(v, s).mixed = v.mixed)
  BY DEF Fed, KvType
<1>7. ASSUME NEW v \in KvType, NEW n \in 0 .. Len(tokens), OfTokens(v, from(n))
      PROVE  OfTokens(Fed(v, rest(n)), tokens)
  <2>1. rest(n) \in Seq(STRING) /\ from(n) \o rest(n) = tokens
    BY <1>5
  <2> HIDE DEF from, rest
  <2> QED BY <1>6, <1>7, <2>1 DEF OfTokens
<1>8. OfTokens(Fed(Fresh(m), tokens), tokens)
  <2>1. Fresh(m) \in KvType /\ Fresh(m).of = <<>> /\ Fresh(m).mixed = FALSE
    BY DEF Fresh, KvType
  <2>2. <<>> \o tokens = tokens
    OBVIOUS
  <2> HIDE DEF from, rest
  <2> QED BY <1>6, <2>1, <2>2 DEF OfTokens
<1> HIDE DEF d, last, common, from, rest
<1>9. CASE last = Len(tokens)
  <2>1. x = Mixed(c.kv[<<k, tokens>>])
    BY <1>1, <1>9 DEF Prefilled, last
  <2> QED BY <2>1 DEF Mixed, OfTokens
<1>10. CASE last \in 1 .. Len(tokens) - 1
  <2> DEFINE e == <<k, from(last)>>
  <2>1. e \in Held(c) /\ e[2] = from(last)
    BY <1>3, <1>10
  <2>2. x = Fed(c.kv[e], rest(last))
    BY <1>1, <1>10 DEF Prefilled, last, from, rest
  <2> HIDE DEF e
  <2>3. c.kv[e] \in KvType /\ OfTokens(c.kv[e], from(last))
    BY <2>1
  <2> QED BY <1>3, <1>7, <2>2, <2>3
<1>11. CASE last = 0
  <2> DEFINE longer == IF d > 0 THEN Longer(c, k, tokens) ELSE {}
  <2>1. \/ x = Fed(Fresh(m), tokens)
        \/ \E e \in longer : x = IF c.kv[e].by \in Trimmable THEN Fed(Trimmed(c, e, common), rest(common))
                                                            ELSE Fed(Fresh(m), tokens)
    BY <1>1, <1>11 DEF Prefilled, last, common, rest, d
  <2>2. ASSUME NEW e \in longer
        PROVE  Trimmed(c, e, common) \in KvType /\ OfTokens(Trimmed(c, e, common), from(common))
    <3>1. e \in Held(c) /\ IsPrefix(from(d), e[2])
      BY DEF Longer, from, d
    <3>2. e[2] \in Seq(STRING) /\ c.kv[e] \in KvType /\ OfTokens(c.kv[e], e[2])
      BY <3>1 DEF EntryType
    <3>3. d <= Len(e[2]) /\ Len(e[2]) \in Nat /\ SubSeq(e[2], 1, d) = from(d)
      <4>1. Len(from(d)) = d
        BY <1>2, <1>5
      <4>2. SubSeq(from(d), 1, d) = from(d)
        BY <1>2, <1>5, <4>1
      <4> QED BY <3>1, <3>2, <4>1, <4>2 DEF IsPrefix
    <3>4. SubSeq(e[2], 1, common) = from(common)
      <4>1. d \in Nat /\ d <= Len(tokens) /\ common \in 0 .. d
        BY <1>1, <1>2, <1>4
      <4> QED BY <3>2, <3>3, <4>1, CutAlike DEF from
    <3> DEFINE o == c.kv[e].of
               t == Trimmed(c, e, common)
    <3>5. o \in Seq(STRING) /\ Len(o) \in Nat
      BY <3>2 DEF KvType
    <3>6. SubSeq(o, 1, Len(o) - (Len(e[2]) - common)) \in Seq(STRING)
      <4> HIDE DEF o
      <4>1. Len(o) - (Len(e[2]) - common) \in Int /\ Len(o) - (Len(e[2]) - common) <= Len(o)
        BY <1>1, <1>2, <1>4, <3>3, <3>5
      <4> QED BY <3>5, <4>1, BeginningType
    <3>7. t \in KvType /\ t.mixed = c.kv[e].mixed /\ t.of = SubSeq(o, 1, Len(o) - (Len(e[2]) - common))
      BY <3>2, <3>6 DEF Trimmed, KvType
    <3>8. CASE o = e[2]
      <4>1. Len(e[2]) - (Len(e[2]) - common) = common
        BY <1>4, <1>1, <3>3
      <4> QED BY <3>4, <3>7, <3>8, <4>1 DEF OfTokens
    <3>9. CASE c.kv[e].mixed = TRUE
      BY <3>7, <3>9 DEF OfTokens
    <3> QED BY <3>2, <3>7, <3>8, <3>9 DEF OfTokens
  <2>3. CASE x = Fed(Fresh(m), tokens)
    BY <1>8, <2>3
  <2>4. ASSUME NEW e \in longer, x = Fed(Trimmed(c, e, common), rest(common)) PROVE OfTokens(x, tokens)
    BY <1>4, <1>7, <2>2, <2>4
  <2> HIDE DEF longer
  <2> QED BY <2>1, <2>3, <2>4
<1> QED BY <1>3, <1>9, <1>10, <1>11

(***************************************************************************)
(* The caches are sound and no more than there may be, and what is in hand *)
(* once it is looked up is the KV of the prompt.                           *)
(***************************************************************************)
CacheInv ==
  /\ Sound(cache) /\ Len(cache.lru) <= MaxCaches
  /\ step \in {"prefill", "decode"} => OfTokens(kv, Prompt)

LEMMA NoCacheIsSound == Sound(NoCache) /\ Len(NoCache.lru) <= MaxCaches
<1>1. NoCache.lru = <<>> /\ NoCache.nodes = {} /\ Held(NoCache) = {}
  BY DEF NoCache, Held
<1>2. Branches({}) = {}
  BY DEF Branches
<1>3. Listed(NoCache)
  BY <1>1 DEF Listed, Distinct, Members
<1> QED BY <1>1, <1>2, <1>3, CacheAssumption DEF Sound

LEMMA CacheStep ==
  ASSUME Inv, CacheInv, Worker
  PROVE  CacheInv'
<1> USE DEF turnVars, nodeVars
<1>0. asks' = asks
  BY WorkLeavesLoop
<1>1. ASSUME UNCHANGED cache, step' \notin {"prefill", "decode"} PROVE CacheInv'
  BY <1>1 DEF CacheInv, Sound, Listed, Held
<1>2. ASSUME Ends \/ Fails PROVE step' = "idle"
  BY <1>2 DEF Ends, Fails, Done
<1>3. CASE ClearCaches
  <2>1. cache' = NoCache /\ step' = "idle"
    BY <1>3 DEF ClearCaches, Done
  <2> QED BY <2>1, NoCacheIsSound DEF CacheInv
<1>4. CASE Begin \/ Look \/ Load \/ Read \/ Unfit \/ Template \/ SeesAndSays
  <2>1. CASE Read
    <3>1. job.does \in {"probe", "text", "vision"}
      BY <2>1, AtWork DEF Read, Inv, JobType
    <3> QED BY <1>1, <2>1, <3>1 DEF Read
  <2> QED BY <1>1, <1>2, <1>4, <2>1 DEF Begin, Look, Load, Unfit, Template, SeesAndSays
<1>5. CASE Lookup
  <2>1. /\ hand \in Paths /\ config \in Paths /\ Prompt \in Seq(STRING) /\ Prompt # <<>>
    BY <1>5, AtWork, PromptType DEF Lookup, Inv, Steps, TypeOK
  <2>2. Held(cache) \subseteq EntryType /\ \A e \in Held(cache) : cache.kv[e] \in KvType /\ OfTokens(cache.kv[e], e[2])
    BY DEF Inv, TypeOK, CacheInv, Sound, EntryType
  <2>3. kv' \in Prefilled(cache, config, Prompt, hand)
    BY <1>5 DEF Lookup
  <2>4. OfTokens(kv', Prompt)
    BY <2>1, <2>2, <2>3, PrefilledIsOfTokens
  <2>5. Prompt' = Prompt /\ UNCHANGED cache
    BY <1>0, <1>5 DEF Lookup, Prompt
  <2> QED BY <2>4, <2>5 DEF CacheInv, Sound, Listed, Held
<1>6. ASSUME step \in {"prefill", "decode"}
      PROVE  /\ key \in Paths /\ Prompt \in Seq(STRING) /\ OfTokens(kv, Prompt) /\ kv \in KvType
             /\ Sound(cache) /\ Len(cache.lru) <= MaxCaches
  BY <1>6, AtWork, PromptType DEF Inv, Steps, TypeOK, CacheInv
<1>7. CASE Prefill
  <2>1. CASE Ends \/ Fails
    BY <1>1, <1>2, <1>7, <2>1 DEF Prefill
  <2>2. ASSUME NEW v \in {kv, Mixed(kv)}, cache' = Insert(cache, key, Prompt, v), step' = "decode",
               UNCHANGED <<job, kv>>
        PROVE  CacheInv'
    <3>0. OfTokens(v, Prompt)
      <4>1. CASE v = kv
        BY <1>6, <1>7, <4>1 DEF Prefill
      <4>2. CASE v = Mixed(kv)
        BY <4>2 DEF Mixed, OfTokens
      <4> QED BY <4>1, <4>2
    <3>1. Sound(cache') /\ Len(cache'.lru) <= MaxCaches
      BY <1>6, <1>7, <2>2, <3>0, InsertIsSound DEF Prefill
    <3>2. OfTokens(kv', Prompt')
      BY <1>0, <1>6, <1>7, <2>2 DEF Prefill, Prompt
    <3> QED BY <3>1, <3>2 DEF CacheInv, Sound, Listed, Held
  <2> QED BY <1>7, <2>1, <2>2 DEF Prefill
<1>8. CASE Decode
  <2>1. step' = "idle"
    BY <1>2, <1>8 DEF Decode
  <2>2. CASE UNCHANGED cache
    BY <1>1, <2>1, <2>2
  <2>3. CASE cache' = Insert(cache, key, Rendered, Mixed(kv))
    <3>1. Rendered \in Seq(STRING)
      BY <1>8, AtWork, RenderedType DEF Decode, Inv, Steps, TypeOK
    <3>2. OfTokens(Mixed(kv), Rendered)
      BY DEF Mixed, OfTokens
    <3>3. Sound(cache') /\ Len(cache'.lru) <= MaxCaches
      BY <1>6, <1>8, <2>3, <3>1, <3>2, InsertIsSound DEF Decode
    <3> QED BY <2>1, <3>3 DEF CacheInv, Sound, Listed, Held
  <2> QED BY <1>8, <2>2, <2>3 DEF Decode
<1> QED BY <1>3, <1>4, <1>5, <1>7, <1>8 DEF Worker

LEMMA CacheInvHolds == Spec => []CacheInv
<1>1. Init => CacheInv
  BY NoCacheIsSound DEF Init, CacheInv
<1>2. Inv /\ CacheInv /\ [Next]_vars => CacheInv'
  <2> SUFFICES ASSUME Inv, CacheInv, [Next]_vars PROVE CacheInv'
    OBVIOUS
  <2>1. CASE Worker
    BY <2>1, CacheStep
  <2>2. CASE LoopSide \/ UNCHANGED vars
    <3>1. UNCHANGED <<job, step, kv, cache>>
      BY <2>2, LoopLeavesWork DEF vars, workVars
    <3>2. asks' = asks
      BY <2>2 DEF LoopSide, EventLoop, Handles, Ask, Leave, Drop, LoopLoads, Execute, Probed, Check, vars, turnVars
    <3> QED BY <3>1, <3>2 DEF CacheInv, Sound, Listed, Held, Prompt
  <2> QED BY <2>1, <2>2, NextIs
<1> QED BY <1>1, <1>2, InvHolds, PTL DEF Spec

(***************************************************************************)
(* The trie has no dead branch, what is evicted is what is held, there are *)
(* no more caches than there may be, and finding, trimming and feeding KV  *)
(* lose no token and repeat none: what is not mixed (fed a token twice,    *)
(* kept with one of the answer in it, or under an answer as rendered) is   *)
(* the KV of the tokens it is kept under (prompt_cache_manager.py:68-300). *)
(***************************************************************************)
THEOREM CacheAlwaysWhole == Spec => []CacheWhole
<1>1. CacheInv => CacheWhole
  <2> SUFFICES ASSUME CacheInv PROVE CacheWhole
    OBVIOUS
  <2>1. Cardinality(Held(cache)) = Len(cache.lru)
    BY DistinctCount DEF CacheInv, Sound, Listed
  <2> QED BY <2>1 DEF CacheInv, Sound, Listed, Branches, Members, OfTokens, CacheWhole
<1> QED BY <1>1, CacheInvHolds, PTL

-----------------------------------------------------------------------------
(* Whose KV a generation reads, and of what.                               *)

(***************************************************************************)
(* With one slot, a turn that no switch overtook works with KV of the      *)
(* model that generates for it, and of the tokens of its own prompt unless *)
(* it comes from KV that is mixed (chat.py:250-255, 639-673).              *)
(***************************************************************************)
THEOREM ReadsItsOwn ==
  ASSUME Slots = 1
  PROVE  Spec => []ReadsItsOwnKv
<1>1. Init => OneSlot /\ Current
  BY DEF Init, OneSlot, Current, HasSlot, Waits, Held, NoCache
<1>2. Inv /\ OneSlot /\ Current /\ [Next]_vars => OneSlot' /\ Current'
  <2> SUFFICES ASSUME Inv, OneSlot, Current, [Next]_vars PROVE OneSlot' /\ Current'
    OBVIOUS
  <2>1. CASE Next
    BY <2>1, NextIs, OneSlotStep, CurrentStep
  <2>2. CASE UNCHANGED vars
    BY <2>2 DEF vars, turnVars, nodeVars, workVars, OneSlot, Current, Pending, Held
  <2> QED BY <2>1, <2>2
<1>3. ASSUME Inv, CacheInv, Current PROVE ReadsItsOwnKv
  <2> SUFFICES ASSUME step \in {"prefill", "decode"}, job.turn \notin overtaken
               PROVE  kv.by = hand /\ (kv.mixed \/ kv.of = Prompt)
    BY DEF ReadsItsOwnKv
  <2>1. ~Pending
    BY <1>3, NotPending DEF Generation
  <2>2. OfTokens(kv, Prompt)
    BY <1>3 DEF CacheInv
  <2> QED BY <1>3, <2>1, <2>2 DEF Current, OfTokens
<1> QED BY <1>1, <1>2, <1>3, InvHolds, CacheInvHolds, PTL DEF Spec

\* Every step preserves that a turn no switch overtook asked for what is configured.
LEMMA AskedStep ==
  ASSUME Inv, Asked, LoopSide \/ Worker
  PROVE  Asked'
<1> USE NodeAssumption DEF Inv, nodeVars, turnVars, LoopIdle, Loop, LoopFree
<1>1. asks' = asks
  BY WorkLeavesLoop DEF LoopSide, EventLoop, Handles, Ask, Leave, Drop, LoopLoads, Execute, Probed, Check
<1>2. ASSUME UNCHANGED <<config, overtaken>>, loop'.does # "drop" \/ loop' = loop,
             \A u \in Turns : UnderWay(u)' \/ u = job'.turn =>
               UnderWay(u) \/ u = job.turn \/ asks[u].path \in {None, config}
      PROVE  Asked'
  BY <1>1, <1>2 DEF Asked
<1>3. ASSUME NEW t \in Turns, Ask(t) PROVE Asked'
  <2>1. job' = job /\ at[t] = "new" /\ at \in [Turns -> HasSlot \cup {"new", "waiting", "over"}]
    BY <1>3 DEF Ask, workVars, TypeOK
  <2>2. CASE asks[t].path \in {None, config} /\ Moves(t, "waiting") /\ UNCHANGED <<nodeVars, loop, overtaken>>
    <3>1. \A u \in Turns : u # t => at'[u] = at[u]
      BY <2>1, <2>2 DEF Moves
    <3> QED BY <1>2, <2>1, <2>2, <3>1 DEF UnderWay
  <2>3. CASE Switch(t) /\ overtaken' = overtaken \cup {u \in Turns : UnderWay(u) \/ u = job.turn} /\ UNCHANGED at
    <3>1. \A u \in Turns : UnderWay(u)' \/ u = job'.turn => u \in overtaken'
      BY <2>1, <2>3 DEF UnderWay
    <3> QED BY <1>1, <2>3, <3>1 DEF Asked, Switch
  <2> QED BY <1>3, <2>2, <2>3 DEF Ask
<1>4. ASSUME Drop PROVE Asked'
  <2>1. /\ loop.turn \in Turns /\ asks[loop.turn].path = config
        /\ at \in [Turns -> HasSlot \cup {"new", "waiting", "over"}]
    BY <1>4 DEF Drop, TypeOK, Asked
  <2>2. \A u \in Turns : u # loop.turn => at'[u] = at[u]
    BY <1>4, <2>1 DEF Drop, Moves
  <2> QED BY <1>2, <1>4, <2>1, <2>2 DEF Drop, UnderWay, workVars
<1>5. ASSUME NEW t \in Turns, Leave(t) \/ Handles(t) \/ LoopLoads PROVE Asked'
  <2>1. UNCHANGED <<config, overtaken, job>>
    BY <1>5 DEF Leave, Handles, Execute, Probed, Check, LoopLoads, workVars
  <2>4. loop'.does # "drop" \/ loop' = loop
    <3>1. CASE Leave(t) \/ Execute(t) \/ Probed(t)
      BY <3>1 DEF Leave, Execute, Probed
    <3>2. CASE LoopLoads
      BY <3>2 DEF LoopLoads
    <3>3. CASE Check(t)
      <4>1. loop' = loop \/ loop' = [does |-> "load", turn |-> t]
        BY <3>3, Zenon DEF Check
      <4> QED BY <4>1
    <3> QED BY <1>5, <3>1, <3>2, <3>3 DEF Handles
  <2>2. at \in [Turns -> HasSlot \cup {"new", "waiting", "over"}]
    BY DEF TypeOK
  <2>3. \A u \in Turns : at'[u] = at[u] \/ UnderWay(u) \/ ~UnderWay(u)'
    <3>1. CASE Leave(t)
      BY <2>2, <3>1 DEF Leave, Moves, UnderWay
    <3>2. CASE Execute(t) \/ Probed(t) \/ Check(t)
      <4>1. UnderWay(t)
        BY <3>2 DEF Execute, Probed, Check, UnderWay, HasSlot
      <4>2. \A u \in Turns : u # t => at'[u] = at[u]
        BY <2>2, <3>2 DEF Execute, Probed, Check, Judge, Moves
      <4> QED BY <4>1, <4>2
    <3>3. CASE LoopLoads
      <4>1. loop.turn \in Turns /\ UnderWay(loop.turn)
        BY <3>3 DEF LoopLoads, TypeOK, Switching, UnderWay, HasSlot
      <4>2. \A u \in Turns : u # loop.turn => at'[u] = at[u]
        BY <2>2, <3>3 DEF LoopLoads, Judge, Moves
      <4> QED BY <4>1, <4>2
    <3> QED BY <1>5, <3>1, <3>2, <3>3 DEF Handles
  <2> QED BY <1>2, <2>1, <2>3, <2>4 DEF UnderWay
<1>6. ASSUME Worker PROVE Asked'
  <2>1. UNCHANGED <<config, overtaken, loop>>
    BY <1>6, WorkLeavesLoop
  <2>2. CASE GoesOn
    BY <1>2, <2>1, <2>2 DEF GoesOn, UnderWay
  <2>3. CASE Begin /\ UNCHANGED at
    <3>1. job' = queue[1] /\ 1 \in DOMAIN queue
      BY <2>3, QueueBegun
    <3>2. queue[1] # Clear => UnderWay(queue[1].turn)
      BY <3>1, JobsTurns
    <3>3. Clear.turn \notin Turns
      BY DEF Clear
    <3> QED BY <1>2, <2>1, <2>3, <3>1, <3>2, <3>3 DEF UnderWay
  <2>4. CASE Clears
    <3>1. NoJob.turn \notin Turns
      BY DEF NoJob
    <3> QED BY <1>2, <2>1, <2>4, <3>1 DEF Clears, Done, UnderWay
  <2>5. CASE IsOver
    <3>1. job \in JobType /\ job.turn \in Turns /\ NoJob.turn \notin Turns
      BY <2>5, AtWork DEF IsOver, NoJob
    <3>2. job' = NoJob /\ \A u \in Turns : u # job.turn => at'[u] = at[u]
      BY <2>5, <3>1, OverType DEF IsOver, TypeOK
    <3> QED BY <1>2, <2>1, <3>1, <3>2 DEF UnderWay
  <2> QED BY <1>6, <2>2, <2>3, <2>4, <2>5, WorkerIs
<1>7. LoopSide => (\E t \in Turns : Ask(t)) \/ Drop \/ LoopLoads \/ \E t \in Turns : Leave(t) \/ Handles(t)
  BY DEF LoopSide, EventLoop
<1>8. LoopLoads => \E t \in Turns : TRUE
  BY DEF LoopLoads, TypeOK
<1> QED BY <1>3, <1>4, <1>5, <1>6, <1>7, <1>8

\* Every step preserves that the KV under the path of the configuration is its model's,
\* however many slots there are, unless the last switch met a load or a probe.
LEMMA AgreeStep ==
  ASSUME Inv, Agree, LoopSide \/ Worker
  PROVE  Agree'
<1> USE NoneApart, NodeAssumption DEF Inv, nodeVars, turnVars
<1> SUFFICES ASSUME ~Pending', ~raced' PROVE Agree'
  BY DEF Agree
<1> DEFINE Entries == \A e \in Held(cache) : e[1] = config => cache.kv[e].by = config
<1>c. Agree' = (/\ Entries'
                /\ step' \in Generation => hand' = config'
                /\ step' \in {"prefill", "decode"} => key' = config' /\ kv'.by = config')
  BY DEF Agree
<1>g. \A x : x \in {"text", "prefill", "decode"} => x \in Generation
  BY DEF Generation
<1>1. CASE LoopSide
  <2>1. ~Pending /\ config' = config /\ UNCHANGED <<job, step, loading, hand, key, kv, cache>>
    BY <1>1, PendingLoop, LoopLeavesWork
  <2>2. ~raced
    <3>1. Drop => FALSE
      BY <2>1 DEF Drop, Pending
    <3>2. raced' = raced
      BY <1>1, <3>1 DEF LoopSide, EventLoop, Ask, Leave, LoopLoads, Handles, Execute, Probed, Check
    <3> QED BY <3>2
  <2> QED BY <2>1, <2>2 DEF Agree
<1>2. CASE ClearCaches
  BY <1>2, <1>c DEF ClearCaches, Done, Held, NoCache, Generation
<1>3. ASSUME Worker, ~ClearCaches PROVE Agree'
  <2>1. ~Pending /\ config' = config /\ raced' = raced
    BY <1>3, PendingWorker, WorkLeavesLoop DEF Worker, Begin, Look, Load, Read, Unfit, Template, SeesAndSays,
       Lookup, Prefill, Decode
  <2>2. /\ Entries
        /\ step \in Generation => hand = config
        /\ step \in {"prefill", "decode"} => key = config /\ kv.by = config
        /\ model \in {None, config}
    BY <2>1 DEF Agree, Configured, Pending
  <2>3. ASSUME step' \notin Generation, cache' = cache PROVE Agree'
    <3>1. Entries'
      BY <2>1, <2>2, <2>3
    <3> HIDE DEF Entries
    <3> QED BY <1>c, <1>g, <2>3, <3>1
  <2>4. ASSUME NEW tokens, NEW v, v.by = config, cache' = Insert(cache, config, tokens, v)
        PROVE  Entries'
    <3>1. /\ Held(cache') \subseteq Held(cache) \cup {<<config, tokens>>}
          /\ \A e \in Held(cache') : IF e \in Held(cache) THEN cache'.kv[e] = cache.kv[e] ELSE cache'.kv[e] = v
      BY <2>4, InsertIs
    <3> QED BY <2>1, <2>2, <2>4, <3>1
  <2>6. ASSUME Ends \/ Fails PROVE step' = "idle"
    BY <2>6 DEF Ends, Fails, Done
  <2>7. CASE Begin \/ Look \/ Load \/ Unfit \/ Template \/ SeesAndSays
    <3>1. step' \notin Generation /\ cache' = cache
      BY <2>6, <2>7 DEF Begin, Look, Load, Unfit, Template, SeesAndSays, Generation
    <3> QED BY <2>3, <3>1
  <2>9. CASE Read
    <3>1. job \in JobType /\ step' = job.does /\ cache' = cache
      BY <2>9, AtWork DEF Read
    <3>2. job.does \in {"probe", "text", "vision"}
      BY <3>1 DEF JobType
    <3>3. job.does # "probe" => hand' = config
      BY <2>2, <2>9 DEF Read, Fits
    <3>4. Entries' /\ config' = config
      BY <2>1, <2>2, <3>1
    <3> HIDE DEF Entries
    <3> QED BY <1>c, <3>1, <3>2, <3>3, <3>4 DEF Generation
  <2>11. CASE Lookup
    <3>1. /\ step = "text" /\ hand = config /\ config \in Paths
          /\ Prompt \in Seq(STRING) /\ Prompt # <<>>
      BY <1>g, <2>2, <2>11, AtWork, PromptType DEF Lookup, TypeOK
    <3>2. Held(cache) \subseteq Paths \X Seq(STRING) /\ \A e \in Held(cache) : cache.kv[e] \in KvType
      BY DEF TypeOK
    <3>3. kv' \in Prefilled(cache, config, Prompt, hand)
      BY <2>11 DEF Lookup
    <3>4. kv'.by = hand \/ \E e \in Held(cache) : e[1] = config /\ kv'.by = cache.kv[e].by
      BY <3>1, <3>2, <3>3, PrefilledIs
    <3>5. kv'.by = config
      BY <2>2, <3>1, <3>4
    <3> QED BY <1>c, <2>1, <2>2, <2>11, <3>1, <3>5 DEF Lookup
  <2>12. ASSUME step \in {"prefill", "decode"}
         PROVE  key = config /\ kv.by = config /\ hand = config
    BY <1>g, <2>2, <2>12
  <2>13. CASE Prefill
    <3>1. CASE (Ends \/ Fails) /\ UNCHANGED cache
      BY <2>3, <2>6, <3>1 DEF Generation
    <3>2. ASSUME NEW v \in {kv, Mixed(kv)}, cache' = Insert(cache, key, Prompt, v), step' = "decode",
                 UNCHANGED <<hand, key, kv>>
          PROVE  Agree'
      <4>1. key = config /\ kv.by = config /\ hand = config /\ v.by = kv.by
        BY <2>12, <2>13 DEF Prefill, Mixed
      <4>2. Entries'
        BY <2>4, <3>2, <4>1
      <4> QED BY <1>c, <2>1, <3>2, <4>1, <4>2
    <3> QED BY <2>13, <3>1, <3>2 DEF Prefill
  <2>14. CASE Decode
    <3> DEFINE v == Mixed(kv)
    <3>1. key = config /\ kv.by = config
      BY <2>12, <2>14 DEF Decode
    <3>2. step' = "idle"
      BY <2>6, <2>14 DEF Decode
    <3>3. CASE cache' = cache
      BY <2>3, <3>2, <3>3 DEF Generation
    <3>4. CASE cache' = Insert(cache, key, Rendered, v)
      <4>1. v.by = config
        BY <3>1 DEF Mixed
      <4> HIDE DEF v
      <4>2. Entries'
        BY <2>4, <3>1, <3>4, <4>1
      <4> QED BY <1>c, <3>2, <4>2 DEF Generation
    <3> QED BY <2>14, <3>3, <3>4 DEF Decode
  <2> HIDE DEF Entries
  <2> QED BY <1>3, <2>7, <2>9, <2>11, <2>13, <2>14 DEF Worker
<1> QED BY <1>1, <1>2, <1>3

(***************************************************************************)
(* However many slots there are, and unless the last switch met a load or  *)
(* a probe, a turn that no switch overtook generates with the model it     *)
(* asked for, and with that model's KV (chat.py:229-267, 639-673).         *)
(***************************************************************************)
THEOREM AlwaysAsAsked == Spec => []GeneratesAsAsked
<1>1. Init => Asked /\ Agree
  BY NodeAssumption DEF Init, Asked, Agree, UnderWay, HasSlot, Waits, NoJob, Held, NoCache, Generation
<1>2. Inv /\ Asked /\ Agree /\ [Next]_vars => Asked' /\ Agree'
  <2> SUFFICES ASSUME Inv, Asked, Agree, [Next]_vars PROVE Asked' /\ Agree'
    OBVIOUS
  <2>1. CASE Next
    BY <2>1, NextIs, AskedStep, AgreeStep
  <2>2. CASE UNCHANGED vars
    BY <2>2 DEF vars, turnVars, nodeVars, workVars, Asked, Agree, Pending, Held, UnderWay
  <2> QED BY <2>1, <2>2
<1>3. ASSUME Inv, Asked, Agree PROVE GeneratesAsAsked
  <2> SUFFICES ASSUME step \in Generation, job.turn \notin overtaken, ~raced
               PROVE  /\ hand = config /\ asks[job.turn].path \in {None, hand}
                      /\ step \in {"prefill", "decode"} => kv.by = hand
    BY DEF GeneratesAsAsked
  <2>1. ~Pending
    BY <1>3, NotPending
  <2>2. job.turn \in Turns
    BY <1>3, AtWork DEF Inv, Generation
  <2> QED BY <1>3, <2>1, <2>2 DEF Agree, Asked
<1> QED BY <1>1, <1>2, <1>3, InvHolds, PTL DEF Spec

(***************************************************************************)
(* No job is lost: a turn that waits for the worker has its job in the     *)
(* queue or at work (chat.py:89, 480-484).                                 *)
(***************************************************************************)
NoJobLost == \A t \in Turns : at[t] \in Waits => t = job.turn \/ \E i \in DOMAIN queue : queue[i].turn = t

\* Every step keeps the job of a turn that waits, or gives it one.
LEMMA NoJobLostStep ==
  ASSUME Inv, NoJobLost, LoopSide \/ Worker
  PROVE  NoJobLost'
<1> USE DEF Inv
<1>a. at \in [Turns -> HasSlot \cup {"new", "waiting", "over"}]
  BY DEF TypeOK
<1>h. "over" \notin Waits /\ "waiting" \notin Waits /\ "probed" \notin Waits /\ "answered" \notin Waits
  BY DEF Waits
<1>1. ASSUME LoopSide, NEW t \in Turns, at'[t] \in Waits
      PROVE  t = job'.turn \/ \E i \in DOMAIN queue' : queue'[i].turn = t
  <2>1. job' = job
    BY <1>1, LoopLeavesWork
  <2>2. CASE UNCHANGED <<at, queue>>
    BY <1>1, <2>1, <2>2 DEF NoJobLost
  <2>3. ASSUME NEW u \in Turns, Opens(u) \/ Dropping(u) \/ GivesUp(u) PROVE at[t] \in Waits
    BY <1>1, <1>a, <1>h, <2>3 DEF Opens, Dropping, GivesUp
  <2>4. ASSUME at[t] \in Waits, queue' = queue \/ \E j : queue' = Append(queue, j)
        PROVE  t = job'.turn \/ \E i \in DOMAIN queue' : queue'[i].turn = t
    <3>1. \A i \in DOMAIN queue : i \in DOMAIN queue' /\ queue'[i] = queue[i]
      <4>1. ASSUME NEW j, queue' = Append(queue, j), NEW i \in DOMAIN queue
            PROVE  i \in DOMAIN queue' /\ queue'[i] = queue[i]
        BY <4>1, QueueGrows
      <4> QED BY <2>4, <4>1
    <3> QED BY <2>1, <2>4, <3>1 DEF NoJobLost
  <2>5. ASSUME NEW u \in Turns, Submits(u)
        PROVE  t = job'.turn \/ \E i \in DOMAIN queue' : queue'[i].turn = t
    <3>1. PICK j \in JobType : j.turn = u /\ queue' = Append(queue, j) /\ \E w \in Waits : at' = [at EXCEPT ![u] = w]
      BY <2>5 DEF Submits
    <3>2. CASE t = u
      <4>1. Len(queue) + 1 \in DOMAIN queue' /\ queue'[Len(queue) + 1] = j
        BY <3>1, QueueGrows
      <4> QED BY <3>1, <3>2, <4>1
    <3>3. CASE t # u
      <4>1. at[t] \in Waits
        BY <1>1, <1>a, <3>1, <3>3
      <4> QED BY <2>4, <3>1, <4>1
    <3> QED BY <3>2, <3>3
  <2>6. ASSUME NEW u \in Turns, Leaving(u)
        PROVE  t = job'.turn \/ \E i \in DOMAIN queue' : queue'[i].turn = t
    <3>1. t # u /\ at[t] \in Waits
      BY <1>1, <1>a, <1>h, <2>6 DEF Leaving
    <3>2. CASE queue' = queue
      BY <2>4, <3>1, <3>2
    <3>3. ASSUME NEW k \in DOMAIN queue, queue[k].turn = u, queue' = RemoveAt(queue, k), t # job.turn
          PROVE  \E i \in DOMAIN queue' : queue'[i].turn = t
      <4>1. queue \in Seq(JobType \cup {Clear}) /\ Len(queue) \in Nat /\ DOMAIN queue = 1 .. Len(queue)
        BY DEF TypeOK
      <4>2. PICK m \in DOMAIN queue : queue[m].turn = t
        BY <3>1, <3>3 DEF NoJobLost
      <4>3. /\ queue' \in Seq(JobType \cup {Clear}) /\ Len(queue') = Len(queue) - 1
            /\ \A i \in 1 .. Len(queue) - 1 : queue'[i] = IF i < k THEN queue[i] ELSE queue[i + 1]
        BY <3>3, <4>1, RemoveAtPlaces
      <4>4. DOMAIN queue' = 1 .. Len(queue) - 1
        BY <4>1, <4>3
      <4>5. m # k
        BY <3>1, <3>3, <4>2
      <4>6. CASE m < k
        <5>1. m \in 1 .. Len(queue) - 1
          BY <4>1, <4>6
        <5> QED BY <4>2, <4>3, <4>4, <4>6, <5>1
      <4>7. CASE m > k
        <5>1. m - 1 \in 1 .. Len(queue) - 1 /\ ~(m - 1 < k) /\ (m - 1) + 1 = m
          BY <4>1, <4>7
        <5> QED BY <4>2, <4>3, <4>4, <5>1
      <4> QED BY <4>1, <4>5, <4>6, <4>7
    <3> QED BY <2>1, <2>6, <3>2, <3>3, TakenOutIs DEF Leaving, TypeOK
  <2> QED BY <1>1, <2>2, <2>3, <2>4, <2>5, <2>6, LoopIs DEF Opens, Dropping, GivesUp
<1>2. ASSUME Worker, NEW t \in Turns, at'[t] \in Waits
      PROVE  t = job'.turn \/ \E i \in DOMAIN queue' : queue'[i].turn = t
  <2>1. CASE GoesOn
    BY <1>2, <2>1 DEF GoesOn, NoJobLost
  <2>2. CASE Begin /\ UNCHANGED at
    <3>1. t # job.turn
      BY <2>2, NodeAssumption DEF Begin, NoJob
    <3>2. PICK m \in DOMAIN queue : queue[m].turn = t
      BY <1>2, <2>2, <3>1 DEF NoJobLost
    <3>3. CASE m = 1
      BY <2>2, <3>2, <3>3, QueueBegun
    <3>4. CASE m # 1
      <4>1. m - 1 \in DOMAIN queue' /\ (m - 1) + 1 = m
        BY <2>2, <3>2, <3>4, QueueBegun
      <4>2. queue'[m - 1] = queue[m]
        BY <2>2, <4>1, QueueBegun
      <4> QED BY <3>2, <4>1, <4>2
    <3> QED BY <3>3, <3>4
  <2>3. CASE Clears
    <3>1. t # job.turn
      BY <2>3, NodeAssumption DEF Clears, Steps, Clear
    <3> QED BY <1>2, <2>3, <3>1 DEF Clears, NoJobLost
  <2>4. CASE IsOver
    <3>1. job \in JobType /\ job.turn \in Turns
      BY <2>4, AtWork DEF IsOver
    <3>2. at'[job.turn] \in {"probed", "answered", "over"} /\ \A u \in Turns : u # job.turn => at'[u] = at[u]
      BY <2>4, <3>1, OverType DEF IsOver, TypeOK
    <3>3. t # job.turn
      BY <1>2, <1>h, <3>2
    <3> QED BY <1>2, <2>4, <3>2, <3>3 DEF IsOver, NoJobLost
  <2> QED BY <1>2, <2>1, <2>2, <2>3, <2>4, WorkerIs
<1> QED BY <1>1, <1>2 DEF NoJobLost

(***************************************************************************)
(* A turn that waits for the worker has its job queued or at work, however *)
(* turns leave and switch (chat.py:89, 480-484).                           *)
(***************************************************************************)
THEOREM NoJobIsLost == Spec => []NoJobLost
<1>1. Init => NoJobLost
  BY DEF Init, NoJobLost, Waits
<1>2. Inv /\ NoJobLost /\ [Next]_vars => NoJobLost'
  <2> SUFFICES ASSUME Inv, NoJobLost, [Next]_vars PROVE NoJobLost'
    OBVIOUS
  <2>1. CASE Next
    BY <2>1, NextIs, NoJobLostStep
  <2>2. CASE UNCHANGED vars
    BY <2>2 DEF vars, turnVars, nodeVars, workVars, NoJobLost
  <2> QED BY <2>1, <2>2
<1> QED BY <1>1, <1>2, InvHolds, PTL DEF Spec

-----------------------------------------------------------------------------
(* The gate.                                                               *)

\* What a step may do to the place of a turn, as the gate sees it.
Asks(t) == at[t] = "new" /\ at' = [at EXCEPT ![t] = "waiting"]
TakesSlot(t) == at[t] = "waiting" /\ SlotFree /\ \E w \in HasSlot : at' = [at EXCEPT ![t] = w]
KeepsSlot(t) == at[t] \in HasSlot /\ \E w \in HasSlot : at' = [at EXCEPT ![t] = w]
GoesWithout(t) == at[t] = "waiting" /\ at' = [at EXCEPT ![t] = "over"]
GivesBack(t) == at[t] \in HasSlot /\ at' = [at EXCEPT ![t] = "over"]
GateStep ==
  \/ UNCHANGED at
  \/ \E t \in Turns : Asks(t) \/ TakesSlot(t) \/ KeepsSlot(t) \/ GoesWithout(t) \/ GivesBack(t)

\* The gate counts as the model does.
LEMMA GateCounts == \A S : Gate!Cardinality(S) = Cardinality(S)
  BY DEF Gate!Cardinality, Cardinality

\* Such a step is one the gate allows.
LEMMA GateAllows ==
  ASSUME TypeOK, GateStep
  PROVE  [Gate!PoolNext]_(Gate!poolVars)
<1> DEFINE W == {t \in Turns : at[t] = "waiting"}
           H == {t \in Turns : at[t] \in HasSlot}
           O == {t \in Turns : at[t] = "over"}
<1>1. at \in [Turns -> HasSlot \cup {"new", "waiting", "over"}]
  BY DEF TypeOK
<1>2. CASE UNCHANGED at
  BY <1>2 DEF Gate!poolVars
<1>3. ASSUME NEW t \in Turns, Asks(t) PROVE Gate!Ask(t)
  <2>1. t \notin W \cup H \cup O /\ W' = W \cup {t} /\ H' = H /\ O' = O
    BY <1>1, <1>3 DEF Asks, HasSlot, Waits
  <2> QED BY <2>1 DEF Gate!Ask, Gate!MayTell
<1>4. ASSUME NEW t \in Turns, TakesSlot(t) PROVE Gate!Grant(t)
  <2>1. t \notin H \cup O /\ W' = W \ {t} /\ H' = H \cup {t} /\ O' = O
    BY <1>1, <1>4 DEF TakesSlot, HasSlot, Waits
  <2>2. Cardinality(H) < Slots
    BY <1>4 DEF TakesSlot, SlotFree
  <2> QED BY <2>1, <2>2, GateCounts DEF Gate!Grant, Gate!MayTell
<1>5. ASSUME NEW t \in Turns, KeepsSlot(t) PROVE UNCHANGED Gate!poolVars
  <2>1. W' = W /\ H' = H /\ O' = O
    BY <1>1, <1>5 DEF KeepsSlot, HasSlot, Waits
  <2> QED BY <2>1 DEF Gate!poolVars
<1>6. ASSUME NEW t \in Turns, GoesWithout(t) PROVE Gate!GiveUp(t)
  <2>1. t \in W /\ W' = W \ {t} /\ H' = H /\ O' = O \cup {t}
    BY <1>1, <1>6 DEF GoesWithout, HasSlot, Waits
  <2> QED BY <2>1 DEF Gate!GiveUp
<1>7. ASSUME NEW t \in Turns, GivesBack(t) PROVE Gate!GiveBack(t)
  <2>1. t \in H /\ W' = W /\ H' = H \ {t} /\ O' = O \cup {t}
    BY <1>1, <1>7 DEF GivesBack, HasSlot, Waits
  <2> QED BY <2>1 DEF Gate!GiveBack
<1> QED BY <1>2, <1>3, <1>4, <1>5, <1>6, <1>7 DEF GateStep, Gate!PoolNext, Gate!Clients

\* Every step of the engine is such a step.
LEMMA TurnsAtTheGate ==
  ASSUME Inv, LoopSide \/ Worker
  PROVE  GateStep
<1> USE DEF Inv
<1>a. at \in [Turns -> HasSlot \cup {"new", "waiting", "over"}]
  BY DEF TypeOK
<1>h. "probed" \in HasSlot /\ "answered" \in HasSlot /\ Waits \subseteq HasSlot
  BY DEF HasSlot
<1>1. ASSUME NEW t \in Turns, Execute(t) PROVE TakesSlot(t)
  BY <1>1, <1>h, ExecuteIs DEF Execute, Submits, TakesSlot
<1>2. ASSUME NEW t \in Turns, Leave(t) PROVE GoesWithout(t) \/ GivesBack(t)
  BY <1>2 DEF Leave, UnderWay, Moves, GoesWithout, GivesBack
<1>3. ASSUME NEW t \in Turns, Ask(t) PROVE Asks(t) \/ UNCHANGED at
  BY <1>3 DEF Ask, Moves, Asks
<1>4. ASSUME Drop PROVE loop.turn \in Turns /\ Asks(loop.turn)
  BY <1>4, NodeAssumption DEF Drop, Moves, Asks, Switching, TypeOK
<1>5. ASSUME NEW t \in Turns, Probed(t) PROVE KeepsSlot(t)
  BY <1>5, <1>h, ProbedIs DEF Probed, Submits, KeepsSlot
<1>6. ASSUME NEW t \in Turns, at[t] = "answered", Judge(t) PROVE KeepsSlot(t) \/ GivesBack(t)
  BY <1>6, <1>h, JudgeIs DEF Submits, GivesUp, KeepsSlot, GivesBack
<1>7. ASSUME NEW t \in Turns, Check(t) PROVE KeepsSlot(t) \/ GivesBack(t) \/ UNCHANGED at
  BY <1>6, <1>7, <1>h DEF Check, Moves, GivesBack
<1>8. ASSUME LoopLoads PROVE loop.turn \in Turns /\ (KeepsSlot(loop.turn) \/ GivesBack(loop.turn))
  BY <1>6, <1>8, NodeAssumption DEF LoopLoads, Switching, TypeOK
<1>9. CASE LoopSide
  BY <1>1, <1>2, <1>3, <1>4, <1>5, <1>7, <1>8, <1>9 DEF LoopSide, EventLoop, Handles, GateStep
<1>10. CASE IsOver
  <2>1. job \in JobType /\ job.turn \in Turns
    BY <1>10, AtWork DEF IsOver
  <2>2. at[job.turn] \in Waits \cup {"over"}
    BY <2>1 DEF Jobs
  <2>3. /\ at' = [at EXCEPT ![job.turn] = at'[job.turn]]
        /\ at'[job.turn] \in {"probed", "answered", "over"}
        /\ at[job.turn] = "over" => at'[job.turn] = "over"
    BY <1>10, <2>1, OverType DEF IsOver
  <2>4. CASE at[job.turn] = "over"
    BY <1>a, <2>1, <2>3, <2>4 DEF GateStep
  <2>5. CASE at[job.turn] \in HasSlot /\ at'[job.turn] = "over"
    BY <2>1, <2>3, <2>5 DEF GateStep, GivesBack
  <2>6. CASE at[job.turn] \in HasSlot /\ at'[job.turn] \in HasSlot
    BY <2>1, <2>3, <2>6 DEF GateStep, KeepsSlot
  <2> QED BY <1>h, <2>2, <2>3, <2>4, <2>5, <2>6
<1> QED BY <1>9, <1>10, WorkerIs DEF GateStep, Clears, GoesOn

(***************************************************************************)
(* The engine implements what the gate promises of its users: a turn takes *)
(* a slot only when one is free, keeps it while its template is probed and *)
(* its answer judged, and gives it back once, also when it is cancelled    *)
(* with its job still on the worker (engine_hold.py:78-113).               *)
(***************************************************************************)
THEOREM GateUsedAsPromised == Spec => UsesTheGate
<1>1. Init => Gate!PoolInit
  BY DEF Init, HasSlot, Waits, Gate!PoolInit
<1>2. Inv /\ [Next]_vars => [Gate!PoolNext]_(Gate!poolVars)
  <2>1. UNCHANGED vars => GateStep
    BY DEF vars, turnVars, GateStep
  <2> QED BY <2>1, NextIs, TurnsAtTheGate, GateAllows DEF Inv
<1> QED BY <1>1, <1>2, InvHolds, PTL DEF Spec, UsesTheGate, Gate!PoolSpec

=============================================================================
