-------------------------- MODULE LlamaPool_proofs --------------------------
(***************************************************************************)
(* Proofs about LlamaPool for every set of turns, sessions, prompts and    *)
(* models, and every size of the pool.                                     *)
(***************************************************************************)
EXTENDS LlamaPool, SequenceTheorems, FiniteSetTheorems, WellFoundedInduction, TLAPS

-----------------------------------------------------------------------------
(* Sequences.                                                              *)

Members(s) == {s[i] : i \in DOMAIN s}
Distinct(s) == \A i, j \in DOMAIN s : s[i] = s[j] => i = j
Ascending(s, f) == \A i, j \in DOMAIN s : i < j => f[s[i]] < f[s[j]]

(***************************************************************************)
(* A set of naturals that is not empty has a least element.                *)
(***************************************************************************)
LEMMA LeastNatural ==
  ASSUME NEW I, I \subseteq Nat, I # {}
  PROVE  \E x \in I : \A y \in I : x <= y
<1>1. PICK x \in I : \A y \in I : ~ (<<y, x>> \in OpToRel(<, Nat))
  BY NatLessThanWellFounded, WFMin
<1>2. \A y \in I : ~ (y < x)
  BY <1>1 DEF OpToRel
<1> QED BY <1>2

(***************************************************************************)
(* What RemoveFirst returns: the sequence, or the sequence less one place. *)
(***************************************************************************)
LEMMA RemoveFirstIs ==
  ASSUME NEW S, NEW s \in Seq(S), NEW e
  PROVE  \/ RemoveFirst(s, e) = s /\ \A i \in DOMAIN s : s[i] # e
         \/ \E i \in DOMAIN s : s[i] = e /\ RemoveFirst(s, e) = RemoveAt(s, i)
<1> DEFINE I == {i \in 1 .. Len(s) : s[i] = e}
           k == CHOOSE x \in I : \A y \in I : x <= y
<1>1. RemoveFirst(s, e) = IF I = {} THEN s ELSE RemoveAt(s, k)
  BY DEF RemoveFirst, SelectInSeq, Min
<1>2. ASSUME I # {} PROVE k \in I
  <2>1. I \subseteq Nat
    OBVIOUS
  <2>2. \E x \in I : \A y \in I : x <= y
    BY <1>2, <2>1, LeastNatural
  <2> HIDE DEF I
  <2> QED BY <2>2
<1>3. I \subseteq DOMAIN s /\ \A i \in I : s[i] = e
  OBVIOUS
<1>4. I = {} => \A i \in DOMAIN s : s[i] # e
  OBVIOUS
<1> HIDE DEF I, k
<1> QED BY <1>1, <1>2, <1>3, <1>4

(***************************************************************************)
(* The places of a sequence less one place.                                *)
(***************************************************************************)
LEMMA RemoveAtPlaces ==
  ASSUME NEW S, NEW s \in Seq(S), NEW k \in DOMAIN s
  PROVE  /\ RemoveAt(s, k) \in Seq(S)
         /\ Len(RemoveAt(s, k)) = Len(s) - 1
         /\ \A i \in 1 .. Len(s) - 1 : RemoveAt(s, k)[i] = IF i < k THEN s[i] ELSE s[i + 1]
<1> DEFINE a == SubSeq(s, 1, k - 1)
           b == SubSeq(s, k + 1, Len(s))
<1>1. a \in Seq(S) /\ Len(a) = k - 1 /\ \A i \in 1 .. k - 1 : a[i] = s[i]
  OBVIOUS
<1>2. b \in Seq(S) /\ Len(b) = Len(s) - k /\ \A i \in 1 .. Len(s) - k : b[i] = s[k + i]
  OBVIOUS
<1>3. RemoveAt(s, k) = a \o b
  BY DEF RemoveAt
<1>4. a \o b \in Seq(S) /\ Len(a \o b) = Len(s) - 1
  <2> HIDE DEF a, b
  <2> QED BY <1>1, <1>2, ConcatProperties
<1>5. \A i \in 1 .. Len(s) - 1 : (a \o b)[i] = IF i < k THEN s[i] ELSE s[i + 1]
  <2> TAKE i \in 1 .. Len(s) - 1
  <2> HIDE DEF a, b
  <2>1. i \in 1 .. Len(a) + Len(b)
    BY <1>1, <1>2
  <2>2. (a \o b)[i] = IF i <= Len(a) THEN a[i] ELSE b[i - Len(a)]
    BY <1>1, <1>2, <2>1, ConcatProperties
  <2>3. CASE i < k
    BY <1>1, <2>2, <2>3
  <2>4. CASE ~(i < k)
    BY <1>1, <1>2, <2>2, <2>4
  <2> QED BY <2>3, <2>4
<1> QED BY <1>3, <1>4, <1>5

(***************************************************************************)
(* RemoveFirst takes the element out of a sequence that has it once and    *)
(* leaves the others in their order.                                       *)
(***************************************************************************)
LEMMA RemoveFirstProperties ==
  ASSUME NEW S, NEW s \in Seq(S), NEW e, Distinct(s)
  PROVE  LET r == RemoveFirst(s, e) IN
         /\ r \in Seq(S)
         /\ Distinct(r)
         /\ Members(r) = Members(s) \ {e}
         /\ Len(r) = IF e \in Members(s) THEN Len(s) - 1 ELSE Len(s)
         /\ \A f : Ascending(s, f) => Ascending(r, f)
<1> DEFINE r == RemoveFirst(s, e)
<1>1. CASE r = s /\ \A i \in DOMAIN s : s[i] # e
  BY <1>1 DEF Members
<1>2. ASSUME NEW k \in DOMAIN s, s[k] = e, r = RemoveAt(s, k)
      PROVE  /\ r \in Seq(S) /\ Distinct(r) /\ Members(r) = Members(s) \ {e}
             /\ e \in Members(s) /\ Len(r) = Len(s) - 1
             /\ \A f : Ascending(s, f) => Ascending(r, f)
  <2> HIDE DEF r
  <2>1. r \in Seq(S) /\ Len(r) = Len(s) - 1
    BY <1>2, RemoveAtPlaces
  <2>2. DOMAIN r = 1 .. Len(s) - 1 /\ DOMAIN s = 1 .. Len(s) /\ Len(s) \in Nat
    BY <2>1
  <2>3. \A i \in DOMAIN r : r[i] = IF i < k THEN s[i] ELSE s[i + 1]
    BY <1>2, <2>2, RemoveAtPlaces
  <2>4. Distinct(r)
    BY <2>2, <2>3 DEF Distinct
  <2>5. Members(r) \subseteq Members(s) \ {e}
    BY <1>2, <2>2, <2>3 DEF Distinct, Members
  <2>6. ASSUME NEW i \in DOMAIN s, s[i] # e PROVE s[i] \in Members(r)
    <3>1. CASE i < k
      BY <3>1, <2>2, <2>3 DEF Members
    <3>2. CASE i > k
      <4>1. i - 1 \in DOMAIN r /\ r[i - 1] = s[i]
        BY <3>2, <2>2, <2>3
      <4> QED BY <4>1 DEF Members
    <3> QED BY <1>2, <2>2, <2>6, <3>1, <3>2
  <2>7. Members(s) \ {e} \subseteq Members(r)
    BY <2>6 DEF Members
  <2>8. ASSUME NEW f, Ascending(s, f) PROVE Ascending(r, f)
    BY <2>2, <2>3, <2>8 DEF Ascending
  <2> QED BY <1>2, <2>1, <2>4, <2>5, <2>7, <2>8 DEF Members
<1> QED BY <1>1, <1>2, RemoveFirstIs DEF Members

(***************************************************************************)
(* An element added at the end.                                            *)
(***************************************************************************)
LEMMA AppendProps ==
  ASSUME NEW S, NEW s \in Seq(S), NEW e \in S, Distinct(s), e \notin Members(s)
  PROVE  LET r == Append(s, e) IN
         /\ r \in Seq(S)
         /\ Distinct(r)
         /\ Members(r) = Members(s) \cup {e}
         /\ Len(r) = Len(s) + 1
<1> DEFINE r == Append(s, e)
<1>1. r \in Seq(S) /\ Len(r) = Len(s) + 1 /\ Len(s) \in Nat
  OBVIOUS
<1>2. DOMAIN r = 1 .. Len(s) + 1 /\ DOMAIN s = 1 .. Len(s)
  OBVIOUS
<1>3. r[Len(s) + 1] = e /\ \A i \in DOMAIN s : r[i] = s[i]
  OBVIOUS
<1> HIDE DEF r
<1>4. Distinct(r)
  BY <1>1, <1>2, <1>3 DEF Distinct, Members
<1>5. Members(r) = Members(s) \cup {e}
  BY <1>1, <1>2, <1>3 DEF Members
<1> QED BY <1>1, <1>4, <1>5 DEF r

(***************************************************************************)
(* The end of a sequence, and what stands before it.                       *)
(***************************************************************************)
LEMMA SuffixProps ==
  ASSUME NEW S, NEW s \in Seq(S), NEW k \in 0 .. Len(s), Distinct(s)
  PROVE  LET r == SubSeq(s, k + 1, Len(s)) IN
         /\ r \in Seq(S)
         /\ Distinct(r)
         /\ Members(r) = Members(s) \ {s[i] : i \in 1 .. k}
         /\ Len(r) = Len(s) - k
         /\ \A f : Ascending(s, f) => Ascending(r, f)
         /\ \A f : Ascending(s, f) =>
              \A i \in 1 .. k : \A m \in Members(r) : f[s[i]] < f[m]
<1> DEFINE r == SubSeq(s, k + 1, Len(s))
<1>1. r \in Seq(S) /\ Len(r) = Len(s) - k /\ Len(s) \in Nat
  OBVIOUS
<1>2. DOMAIN r = 1 .. Len(s) - k /\ DOMAIN s = 1 .. Len(s)
  OBVIOUS
<1>3. \A i \in DOMAIN r : k + i \in DOMAIN s /\ r[i] = s[k + i]
  OBVIOUS
<1> HIDE DEF r
<1>4. Distinct(r)
  BY <1>1, <1>2, <1>3 DEF Distinct
<1>5. Members(r) \subseteq Members(s) \ {s[i] : i \in 1 .. k}
  <2> SUFFICES ASSUME NEW i \in DOMAIN r
               PROVE  r[i] \in Members(s) /\ \A j \in 1 .. k : r[i] # s[j]
    BY DEF Members
  <2>1. k + i \in DOMAIN s /\ r[i] = s[k + i]
    BY <1>3
  <2>2. \A j \in 1 .. k : j \in DOMAIN s /\ j # k + i
    BY <1>1, <1>2
  <2> QED BY <2>1, <2>2 DEF Distinct, Members
<1>6. ASSUME NEW j \in DOMAIN s, j \notin 1 .. k PROVE s[j] \in Members(r)
  <2>1. j - k \in DOMAIN r /\ r[j - k] = s[j]
    BY <1>1, <1>2, <1>3, <1>6
  <2> QED BY <2>1 DEF Members
<1>7. Members(s) \ {s[i] : i \in 1 .. k} \subseteq Members(r)
  BY <1>6 DEF Members
<1>8. ASSUME NEW f, Ascending(s, f) PROVE Ascending(r, f)
  <2> SUFFICES ASSUME NEW i \in DOMAIN r, NEW j \in DOMAIN r, i < j
               PROVE  f[r[i]] < f[r[j]]
    BY DEF Ascending
  <2>1. k + i \in DOMAIN s /\ k + j \in DOMAIN s /\ k + i < k + j
    BY <1>1, <1>2, <1>3
  <2> QED BY <1>3, <1>8, <2>1 DEF Ascending
<1>9. ASSUME NEW f, Ascending(s, f), NEW i \in 1 .. k, NEW m \in Members(r)
      PROVE  f[s[i]] < f[m]
  <2>1. PICK j \in DOMAIN r : m = r[j]
    BY DEF Members
  <2>2. k + j \in DOMAIN s /\ m = s[k + j] /\ i \in DOMAIN s /\ i < k + j
    BY <1>1, <1>2, <1>3, <2>1
  <2> QED BY <1>9, <2>2 DEF Ascending
<1> QED BY <1>1, <1>4, <1>5, <1>7, <1>8, <1>9 DEF r

-----------------------------------------------------------------------------
(* The pool.                                                               *)

(***************************************************************************)
(* The places of the pool: in order of last use, no session twice, no more *)
(* than there may be; lastUse never runs ahead of the clock.               *)
(***************************************************************************)
Ordered ==
  /\ Distinct(lru)
  /\ Len(lru) <= MaxSessions
  /\ Ascending(lru, lastUse)
  /\ \A s \in Sessions : lastUse[s] <= clock

(***************************************************************************)
(* The three tables speak of the same sessions and the pool holds what is  *)
(* open.                                                                   *)
(***************************************************************************)
Tables ==
  /\ \A s \in Sessions : instances[s] # None <=> s \in Members(lru)
  /\ \A s \in Sessions : hashes[s] # None <=> s \in Members(lru)
  /\ open = {instances[s] : s \in Sessions} \ {None}

(***************************************************************************)
(* The instance of a session was made for it, for the prompt the pool has  *)
(* down and for the model of the configuration.                            *)
(***************************************************************************)
MadeFor ==
  \A s \in Sessions : instances[s] # None =>
    /\ asks[instances[s]].session = s
    /\ asks[instances[s]].hash = hashes[s]
    /\ modelOf[instances[s]] = config
    /\ at[instances[s]] \notin {"new", "waiting"}

(***************************************************************************)
(* A turn waits for the model of the configuration unless it was switched. *)
(***************************************************************************)
WaitsForIt ==
  \A t \in Turns : at[t] = "waiting" /\ t \notin overtaken => asks[t].model \in {None, config}

(***************************************************************************)
(* A turn that generates does so on an instance somebody was given, made   *)
(* for its session and prompt.                                             *)
(***************************************************************************)
Served ==
  \A t \in Turns : Generates(t) => uses[t] \in Turns /\ at[uses[t]] \notin {"new", "waiting"}

(***************************************************************************)
(* What the executor has not begun is queued, once; what it has is not.    *)
(***************************************************************************)
Queued ==
  /\ Distinct(queue)
  /\ \A i \in DOMAIN queue : at[queue[i]] = "queued"
  /\ worker # None => at[worker] \in {"running", "over"}

Inv ==
  /\ TypeOK
  /\ Ordered
  /\ Tables
  /\ MadeFor
  /\ WaitsForIt
  /\ Served
  /\ GetsWhatItAsked
  /\ Queued

(***************************************************************************)
(* What is left of the pool beside session s once there is room for it.    *)
(***************************************************************************)
LEMMA KeptFacts ==
  ASSUME TypeOK, Ordered, NEW s \in Sessions
  PROVE  /\ Kept(s) \in Seq(Sessions)
         /\ Distinct(Kept(s))
         /\ Members(Kept(s)) = Members(lru) \ (Evicted(s) \cup {s})
         /\ Len(Kept(s)) < MaxSessions
         /\ Ascending(Kept(s), lastUse)
         /\ \A e \in Evicted(s), m \in Members(Kept(s)) : lastUse[e] < lastUse[m]
         /\ Evicted(s) \subseteq Members(lru)
<1> DEFINE o == Others(s)
           k == Excess(s)
<1>1. /\ o \in Seq(Sessions) /\ Distinct(o) /\ Members(o) = Members(lru) \ {s}
      /\ Ascending(o, lastUse)
  BY RemoveFirstProperties DEF TypeOK, Ordered, Others
<1>2. Len(o) \in Nat /\ MaxSessions \in Nat \ {0}
  BY <1>1, PoolAssumption
<1>3. k \in 0 .. Len(o) /\ Len(o) - k < MaxSessions
  BY <1>2 DEF Excess
<1>4. Kept(s) = SubSeq(o, k + 1, Len(o)) /\ Evicted(s) = {o[i] : i \in 1 .. k}
  BY DEF Kept, Evicted
<1> HIDE DEF o, k
<1>5. LET r == SubSeq(o, k + 1, Len(o)) IN
      /\ r \in Seq(Sessions) /\ Distinct(r)
      /\ Members(r) = Members(o) \ {o[i] : i \in 1 .. k}
      /\ Len(r) = Len(o) - k
      /\ Ascending(r, lastUse)
      /\ \A i \in 1 .. k : \A m \in Members(r) : lastUse[o[i]] < lastUse[m]
  BY <1>1, <1>3, SuffixProps
<1>6. Evicted(s) \subseteq Members(o)
  BY <1>1, <1>2, <1>3, <1>4 DEF Members
<1> QED BY <1>1, <1>3, <1>4, <1>5, <1>6

(***************************************************************************)
(* The place of a session that was used just now.                          *)
(***************************************************************************)
LEMMA TouchedFacts ==
  ASSUME TypeOK, Ordered, NEW s \in Sessions, s \in Members(lru)
  PROVE  /\ Touched(s) \in Seq(Sessions)
         /\ Distinct(Touched(s))
         /\ Members(Touched(s)) = Members(lru)
         /\ Len(Touched(s)) = Len(lru)
<1> DEFINE o == RemoveFirst(lru, s)
<1>1. /\ o \in Seq(Sessions) /\ Distinct(o) /\ Members(o) = Members(lru) \ {s}
      /\ Len(o) = Len(lru) - 1
  BY RemoveFirstProperties DEF TypeOK, Ordered
<1>2. Len(lru) \in Nat
  BY DEF TypeOK
<1> HIDE DEF o
<1>3. /\ Append(o, s) \in Seq(Sessions) /\ Distinct(Append(o, s))
      /\ Members(Append(o, s)) = Members(o) \cup {s} /\ Len(Append(o, s)) = Len(o) + 1
  BY <1>1, AppendProps
<1> QED BY <1>1, <1>2, <1>3 DEF Touched, o

(***************************************************************************)
(* A session used now goes behind all others.                              *)
(***************************************************************************)
LEMMA LastIsNewest ==
  ASSUME lastUse \in [Sessions -> Nat], clock \in Nat,
         \A r \in Sessions : lastUse[r] <= clock,
         NEW s \in Sessions, NEW o \in Seq(Sessions), Distinct(o), s \notin Members(o),
         Ascending(o, lastUse),
         lastUse' = [lastUse EXCEPT ![s] = clock + 1], clock' = clock + 1
  PROVE  /\ Ascending(Append(o, s), lastUse')
         /\ \A r \in Sessions : lastUse'[r] <= clock'
<1> DEFINE r == Append(o, s)
<1>1. Len(o) \in Nat /\ DOMAIN o = 1 .. Len(o) /\ DOMAIN r = 1 .. Len(o) + 1
  OBVIOUS
<1>2. r[Len(o) + 1] = s /\ \A i \in DOMAIN o : r[i] = o[i] /\ o[i] \in Sessions /\ o[i] # s
  BY DEF Members
<1> HIDE DEF r
<1>3. \A i \in DOMAIN o : lastUse'[o[i]] = lastUse[o[i]] /\ lastUse[o[i]] < clock + 1
  BY <1>2
<1>4. lastUse'[s] = clock + 1
  OBVIOUS
<1>5. Ascending(r, lastUse')
  <2> SUFFICES ASSUME NEW i \in DOMAIN r, NEW j \in DOMAIN r, i < j
               PROVE  lastUse'[r[i]] < lastUse'[r[j]]
    BY DEF Ascending
  <2>1. i \in DOMAIN o
    BY <1>1
  <2>2. CASE j \in DOMAIN o
    BY <1>2, <1>3, <2>1, <2>2 DEF Ascending
  <2>3. CASE j = Len(o) + 1
    BY <1>2, <1>3, <1>4, <2>1, <2>3
  <2> QED BY <1>1, <2>2, <2>3
<1>6. \A q \in Sessions : lastUse'[q] <= clock'
  OBVIOUS
<1> QED BY <1>5, <1>6 DEF r

-----------------------------------------------------------------------------
(* The steps.                                                              *)

(***************************************************************************)
(* At the start the pool is empty and nobody is under way.                 *)
(***************************************************************************)
LEMMA InvInit == Init => Inv
<1> SUFFICES ASSUME Init PROVE Inv
  OBVIOUS
<1> USE PoolAssumption DEF Init
<1>1. TypeOK
  BY DEF TypeOK
<1>2. Ordered
  BY DEF Ordered, Distinct, Ascending
<1>3. Tables
  BY DEF Tables, Members
<1>4. MadeFor /\ WaitsForIt /\ Served /\ GetsWhatItAsked
  BY DEF MadeFor, WaitsForIt, Served, GetsWhatItAsked, Generates
<1>5. Queued
  BY DEF Queued, Distinct
<1> QED BY <1>1, <1>2, <1>3, <1>4, <1>5 DEF Inv

(***************************************************************************)
(* A step that leaves the pool, the configuration and the histories alone, *)
(* and makes nobody new or waiting.                                        *)
(***************************************************************************)
LEMMA PoolAlone ==
  ASSUME Inv, UNCHANGED <<asks, uses, config, poolVars, history>>,
         \A t \in Turns : at'[t] \in {"new", "waiting"} => at'[t] = at[t],
         \A t \in Turns : Generates(t)' => Generates(t)
  PROVE  Ordered' /\ Tables' /\ MadeFor' /\ WaitsForIt' /\ Served' /\ GetsWhatItAsked'
<1> USE DEF Inv, poolVars, history
<1>1. Ordered' /\ Tables'
  BY DEF Ordered, Tables
<1>2. MadeFor' /\ WaitsForIt'
  BY DEF MadeFor, WaitsForIt, TypeOK
<1>3. Served' /\ GetsWhatItAsked'
  BY DEF Served, GetsWhatItAsked
<1> QED BY <1>1, <1>2, <1>3

(***************************************************************************)
(* The engine step: the turn may empty the pool.                           *)
(***************************************************************************)
LEMMA AskStep ==
  ASSUME Inv, NEW t \in Turns, Ask(t)
  PROVE  Inv'
<1> USE PoolAssumption DEF Inv, Ask
<1>0. asks[t].model \in Models \cup {None} /\ asks \in [Turns -> Requests]
  BY DEF TypeOK
<1>1. CASE asks[t].model \in {None, config} /\ UNCHANGED <<config, poolVars, overtaken>>
  <2> USE <1>1 DEF poolVars
  <2>1. TypeOK'
    BY DEF TypeOK
  <2>2. Ordered' /\ Tables'
    BY DEF Ordered, Tables
  <2>3. MadeFor' /\ WaitsForIt'
    BY DEF MadeFor, WaitsForIt, TypeOK
  <2>4. \A u \in Turns : Generates(u)' => Generates(u)
    BY DEF Generates, TypeOK
  <2>5. Served'
    BY <2>4 DEF Served, TypeOK
  <2>6. GetsWhatItAsked'
    BY <2>4 DEF GetsWhatItAsked
  <2>7. Queued'
    BY DEF Queued, TypeOK
  <2> QED BY <2>1, <2>2, <2>3, <2>5, <2>6, <2>7
<1>2. CASE /\ asks[t].model \notin {None, config}
           /\ ApplyConfig(asks[t].model)
           /\ overtaken' = overtaken \cup {u \in Turns : UnderWay(u)}
  <2> USE <1>2 DEF ApplyConfig
  <2>1. TypeOK'
    BY <1>0 DEF TypeOK
  <2>2. Ordered'
    BY DEF Ordered, Distinct, Ascending
  <2>3. Tables' /\ MadeFor'
    BY DEF Tables, MadeFor, Members
  <2>4. WaitsForIt'
    BY DEF WaitsForIt, UnderWay, TypeOK
  <2>5. \A u \in Turns : Generates(u)' => Generates(u) /\ u \in overtaken'
    BY DEF Generates, UnderWay, TypeOK
  <2>6. Served'
    BY <2>5 DEF Served, TypeOK
  <2>7. GetsWhatItAsked'
    BY <2>5 DEF GetsWhatItAsked
  <2>8. Queued'
    BY DEF Queued, TypeOK
  <2> QED BY <2>1, <2>2, <2>3, <2>4, <2>6, <2>7, <2>8
<1> QED BY <1>1, <1>2

(***************************************************************************)
(* What the session of a turn finds in the pool is for it.                 *)
(***************************************************************************)
LEMMA ReuseStep ==
  ASSUME Inv, NEW t \in Turns, at[t] = "waiting",
         Reuse(t, asks[t].session), Given(t, asks[t].session),
         UNCHANGED <<asks, config, worker, overtaken>>
  PROVE  Inv'
<1> DEFINE s == asks[t].session
<1> USE PoolAssumption DEF Inv
<1>1. s \in Sessions /\ asks[t].hash \in Hashes /\ asks \in [Turns -> Requests]
  BY DEF TypeOK
<1>2. /\ instances[s] \in Turns /\ hashes[s] = asks[t].hash /\ s \in Members(lru)
      /\ uses' = [uses EXCEPT ![t] = instances[s]]
      /\ UNCHANGED <<instances, hashes, open, modelOf>>
  BY <1>1 DEF Reuse, Reusable, Tables, TypeOK
<1>3. /\ lru' \in Seq(Sessions) /\ Distinct(lru') /\ Members(lru') = Members(lru)
      /\ Len(lru') = Len(lru)
  BY <1>1, <1>2, TouchedFacts DEF Reuse
<1>4. /\ at' = [at EXCEPT ![t] = "queued"] /\ queue' = Append(queue, t)
      /\ lastUse' = [lastUse EXCEPT ![s] = clock + 1] /\ clock' = clock + 1
  BY DEF Given
<1> HIDE DEF s
<1>5. TypeOK'
  BY <1>1, <1>2, <1>3, <1>4 DEF TypeOK
<1>6. Ordered'
  <2> DEFINE o == RemoveFirst(lru, s)
  <2>1. /\ o \in Seq(Sessions) /\ Distinct(o) /\ Members(o) = Members(lru) \ {s}
        /\ Ascending(o, lastUse)
    BY RemoveFirstProperties DEF TypeOK, Ordered
  <2>2. lru' = Append(o, s)
    BY DEF Reuse, Touched, s
  <2> HIDE DEF o
  <2>3. Ascending(lru', lastUse') /\ \A r \in Sessions : lastUse'[r] <= clock'
    BY <1>1, <1>4, <2>1, <2>2, LastIsNewest DEF TypeOK, Ordered
  <2> QED BY <1>3, <2>3 DEF Ordered
<1>7. Tables'
  BY <1>2, <1>3 DEF Tables
<1>8. MadeFor' /\ WaitsForIt'
  BY <1>2, <1>4 DEF MadeFor, WaitsForIt, TypeOK
<1>9. Served'
  BY <1>1, <1>2, <1>4 DEF Served, MadeFor, Generates, TypeOK
<1>10. GetsWhatItAsked'
  <2>1. \A u \in Turns \ {t} : Generates(u)' => Generates(u) /\ uses'[u] = uses[u]
    BY <1>2, <1>4 DEF Generates, TypeOK
  <2>2. uses'[t] = instances[s]
    BY <1>2 DEF TypeOK
  <2>3. /\ asks[instances[s]].session = s /\ asks[instances[s]].hash = asks[t].hash
        /\ modelOf[instances[s]] = config
    BY <1>1, <1>2 DEF MadeFor
  <2>4. t \notin overtaken => config = IF asks[t].model = None THEN config ELSE asks[t].model
    BY DEF WaitsForIt
  <2> QED BY <1>2, <2>1, <2>2, <2>3, <2>4 DEF GetsWhatItAsked, s
<1>11. Queued'
  <2>1. t \notin Members(queue)
    BY DEF Queued, Members
  <2>2. Distinct(queue') /\ Members(queue') = Members(queue) \cup {t}
    BY <1>4, <2>1, AppendProps DEF TypeOK, Queued
  <2>3. \A u \in Members(queue) : at[u] = "queued" /\ u \in Turns
    BY DEF Queued, Members, TypeOK
  <2>4. \A u \in Members(queue') : at'[u] = "queued"
    BY <1>4, <2>2, <2>3 DEF TypeOK
  <2>5. worker' # None => at'[worker'] \in {"running", "over"}
    BY <1>4 DEF Queued, TypeOK
  <2> QED BY <2>2, <2>4, <2>5 DEF Queued, Members
<1> QED BY <1>5, <1>6, <1>7, <1>8, <1>9, <1>10, <1>11

(***************************************************************************)
(* What the tables look like once there is room, and a new instance in it. *)
(***************************************************************************)
LEMMA CreateTables ==
  ASSUME Inv, NEW t \in Turns, at[t] = "waiting", NEW loads \in BOOLEAN,
         Create(t, asks[t].session, loads)
  PROVE  LET s == asks[t].session IN
         /\ lru' \in Seq(Sessions) /\ Distinct(lru') /\ Len(lru') <= MaxSessions
         /\ Members(lru') = (Members(lru) \ (Evicted(s) \cup {s})) \cup (IF loads THEN {s} ELSE {})
         /\ \A r \in Sessions : instances'[r] =
              IF r = s /\ loads THEN t ELSE IF r \in Evicted(s) \cup {s} THEN None ELSE instances[r]
         /\ Tables'
<1> DEFINE s == asks[t].session
<1> USE PoolAssumption DEF Inv
<1>1. s \in Sessions /\ asks[t].hash \in Hashes /\ t # None /\ asks[t].hash # None
  BY DEF TypeOK
<1>2. /\ Kept(s) \in Seq(Sessions) /\ Distinct(Kept(s)) /\ Len(Kept(s)) < MaxSessions
      /\ Members(Kept(s)) = Members(lru) \ (Evicted(s) \cup {s})
      /\ Evicted(s) \subseteq Members(lru)
  BY <1>1, KeptFacts
<1>3. Len(Kept(s)) \in Nat
  BY <1>2
<1>4. CASE loads
  <2>1. lru' = Append(Kept(s), s)
    BY <1>4 DEF Create
  <2>2. /\ lru' \in Seq(Sessions) /\ Distinct(lru') /\ Len(lru') = Len(Kept(s)) + 1
        /\ Members(lru') = Members(Kept(s)) \cup {s}
    BY <1>1, <1>2, <2>1, AppendProps
  <2>3. \A r \in Sessions : /\ instances'[r] = IF r = s THEN t ELSE IF r \in Evicted(s) THEN None ELSE instances[r]
                            /\ hashes'[r] = IF r = s THEN asks[t].hash ELSE IF r \in Evicted(s) THEN None ELSE hashes[r]
    BY <1>4 DEF Create
  <2>4. open' = (open \ {instances[r] : r \in Evicted(s) \cup {s}}) \cup {t}
    BY <1>4 DEF Create
  <2> HIDE DEF s
  <2>5. Members(lru') = (Members(lru) \ Evicted(s)) \cup {s}
    BY <1>2, <2>2
  <2>6. /\ \A r \in Sessions : instances'[r] # None <=> r \in Members(lru')
        /\ \A r \in Sessions : hashes'[r] # None <=> r \in Members(lru')
    BY <1>1, <2>3, <2>5 DEF Tables
  <2>7. \A q, r \in Sessions : instances[q] # None /\ instances[q] = instances[r] => q = r
    BY DEF MadeFor
  <2>8. Evicted(s) \subseteq Sessions
    BY <1>2 DEF Members, TypeOK
  <2>9. open' = {instances'[r] : r \in Sessions} \ {None}
    <3>1. ASSUME NEW u \in open' PROVE u \in {instances'[r] : r \in Sessions} \ {None}
      <4>1. CASE u = t
        BY <1>1, <2>3, <4>1
      <4>2. CASE u # t
        <5>1. PICK r \in Sessions : u = instances[r] /\ u # None
          BY <2>4, <3>1, <4>2 DEF Tables
        <5>2. r \notin Evicted(s) \cup {s}
          BY <2>4, <3>1, <4>2, <5>1
        <5> QED BY <2>3, <5>1, <5>2
      <4> QED BY <4>1, <4>2
    <3>2. ASSUME NEW r \in Sessions, instances'[r] # None PROVE instances'[r] \in open'
      <4>1. CASE r = s
        BY <2>3, <2>4, <4>1
      <4>2. CASE r # s
        <5>1. r \notin Evicted(s) /\ instances'[r] = instances[r] /\ instances[r] # None
          BY <2>3, <3>2, <4>2
        <5>2. \A q \in Evicted(s) \cup {s} : instances[q] # instances[r]
          BY <1>1, <2>7, <2>8, <4>2, <5>1
        <5>3. instances[r] \in open
          BY <5>1 DEF Tables
        <5> QED BY <2>4, <5>1, <5>2, <5>3
      <4> QED BY <4>1, <4>2
    <3> QED BY <3>1, <3>2
  <2>10. /\ lru' \in Seq(Sessions) /\ Distinct(lru') /\ Len(lru') <= MaxSessions
         /\ Members(lru') = (Members(lru) \ (Evicted(s) \cup {s})) \cup {s}
    BY <1>2, <1>3, <2>2, <2>5
  <2>11. Tables'
    BY <2>6, <2>9 DEF Tables
  <2>12. \A r \in Sessions : instances'[r] =
           IF r = s THEN t ELSE IF r \in Evicted(s) \cup {s} THEN None ELSE instances[r]
    BY <2>3
  <2> QED BY <1>4, <2>10, <2>11, <2>12 DEF s
<1>5. CASE ~loads
  <2>1. lru' = Kept(s)
    BY <1>5 DEF Create
  <2>3. \A r \in Sessions : /\ instances'[r] = IF r \in Evicted(s) \cup {s} THEN None ELSE instances[r]
                            /\ hashes'[r] = IF r \in Evicted(s) \cup {s} THEN None ELSE hashes[r]
    BY <1>5 DEF Create
  <2>4. open' = open \ {instances[r] : r \in Evicted(s) \cup {s}}
    BY <1>5 DEF Create
  <2> HIDE DEF s
  <2>6. /\ \A r \in Sessions : instances'[r] # None <=> r \in Members(lru')
        /\ \A r \in Sessions : hashes'[r] # None <=> r \in Members(lru')
    BY <1>2, <2>1, <2>3 DEF Tables
  <2>7. \A q, r \in Sessions : instances[q] # None /\ instances[q] = instances[r] => q = r
    BY DEF MadeFor
  <2>8. Evicted(s) \subseteq Sessions
    BY <1>2 DEF Members, TypeOK
  <2>9. open' = {instances'[r] : r \in Sessions} \ {None}
    <3>1. ASSUME NEW u \in open' PROVE u \in {instances'[r] : r \in Sessions} \ {None}
      <4>1. PICK r \in Sessions : u = instances[r] /\ u # None
        BY <2>4, <3>1 DEF Tables
      <4>2. r \notin Evicted(s) \cup {s}
        BY <2>4, <3>1, <4>1
      <4> QED BY <2>3, <4>1, <4>2
    <3>2. ASSUME NEW r \in Sessions, instances'[r] # None PROVE instances'[r] \in open'
      <4>1. r \notin Evicted(s) \cup {s} /\ instances'[r] = instances[r] /\ instances[r] # None
        BY <2>3, <3>2
      <4>2. \A q \in Evicted(s) \cup {s} : instances[q] # instances[r]
        BY <1>1, <2>7, <2>8, <4>1
      <4>3. instances[r] \in open
        BY <4>1 DEF Tables
      <4> QED BY <2>4, <4>1, <4>2, <4>3
    <3> QED BY <3>1, <3>2
  <2>10. /\ lru' \in Seq(Sessions) /\ Distinct(lru') /\ Len(lru') <= MaxSessions
         /\ Members(lru') = (Members(lru) \ (Evicted(s) \cup {s})) \cup {}
    BY <1>2, <1>3, <2>1
  <2>11. Tables'
    BY <2>6, <2>9 DEF Tables
  <2> QED BY <1>5, <2>3, <2>10, <2>11 DEF s
<1> QED BY <1>4, <1>5

(***************************************************************************)
(* A new instance for a turn that waits.                                   *)
(***************************************************************************)
LEMMA CreateStep ==
  ASSUME Inv, NEW t \in Turns, at[t] = "waiting",
         Create(t, asks[t].session, TRUE), Given(t, asks[t].session),
         UNCHANGED <<asks, config, worker, overtaken>>
  PROVE  Inv'
<1> DEFINE s == asks[t].session
<1> USE PoolAssumption DEF Inv
<1>1. s \in Sessions /\ asks[t].hash \in Hashes /\ asks \in [Turns -> Requests] /\ t # None
  BY DEF TypeOK
<1>2. /\ lru' \in Seq(Sessions) /\ Distinct(lru') /\ Len(lru') <= MaxSessions /\ Tables'
      /\ \A r \in Sessions : instances'[r] =
           IF r = s THEN t ELSE IF r \in Evicted(s) THEN None ELSE instances[r]
  BY CreateTables
<1>3. /\ uses' = [uses EXCEPT ![t] = t]
      /\ modelOf' = [modelOf EXCEPT ![t] = config]
      /\ open' = (open \ {instances[r] : r \in Evicted(s) \cup {s}}) \cup {t}
      /\ instances' \in [Sessions -> Turns \cup {None}]
      /\ hashes' \in [Sessions -> Hashes \cup {None}]
      /\ hashes'[s] = asks[t].hash
      /\ \A r \in Sessions \ {s} : r \notin Evicted(s) => hashes'[r] = hashes[r]
  BY <1>1 DEF Create, TypeOK
<1>4. /\ at' = [at EXCEPT ![t] = "queued"] /\ queue' = Append(queue, t)
      /\ lastUse' = [lastUse EXCEPT ![s] = clock + 1] /\ clock' = clock + 1
  BY DEF Given
<1>5. lru' = Append(Kept(s), s)
  BY DEF Create
<1> HIDE DEF s
<1>6. TypeOK'
  BY <1>1, <1>2, <1>3, <1>4 DEF TypeOK
<1>7. Ordered'
  <2>1. /\ Kept(s) \in Seq(Sessions) /\ Distinct(Kept(s)) /\ s \notin Members(Kept(s))
        /\ Ascending(Kept(s), lastUse)
    BY <1>1, KeptFacts
  <2>2. Ascending(lru', lastUse') /\ \A r \in Sessions : lastUse'[r] <= clock'
    BY <1>1, <1>4, <1>5, <2>1, LastIsNewest DEF TypeOK, Ordered
  <2> QED BY <1>2, <2>2 DEF Ordered
<1>8. MadeFor'
  <2> SUFFICES ASSUME NEW r \in Sessions, instances'[r] # None
               PROVE  /\ asks'[instances'[r]].session = r
                      /\ asks'[instances'[r]].hash = hashes'[r]
                      /\ modelOf'[instances'[r]] = config'
                      /\ at'[instances'[r]] \notin {"new", "waiting"}
    BY DEF MadeFor
  <2>1. CASE r = s
    BY <1>1, <1>2, <1>3, <1>4, <2>1 DEF TypeOK, s
  <2>2. CASE r # s
    <3>1. r \notin Evicted(s) /\ instances'[r] = instances[r] /\ instances[r] # None
      BY <1>2, <2>2
    <3>2. instances[r] \in Turns /\ instances[r] # t
      BY <3>1 DEF MadeFor, TypeOK
    <3> QED BY <1>3, <1>4, <2>2, <3>1, <3>2 DEF MadeFor, TypeOK
  <2> QED BY <2>1, <2>2
<1>9. WaitsForIt'
  BY <1>4 DEF WaitsForIt, TypeOK
<1>10. Served' /\ \A u \in Turns : u # t /\ Generates(u)' => /\ Generates(u)
                                                            /\ uses'[u] = uses[u]
                                                            /\ uses[u] # t /\ uses[u] \in Turns
  BY <1>1, <1>3, <1>4 DEF Served, Generates, TypeOK
<1>11. GetsWhatItAsked'
  <2>1. uses'[t] = t /\ modelOf'[t] = config
    BY <1>3 DEF TypeOK
  <2>2. t \notin overtaken => config = IF asks[t].model = None THEN config ELSE asks[t].model
    BY DEF WaitsForIt
  <2>3. \A u \in Turns \ {t} : Generates(u)' => modelOf'[uses'[u]] = modelOf[uses[u]]
    BY <1>3, <1>10 DEF TypeOK
  <2> QED BY <1>10, <2>1, <2>2, <2>3 DEF GetsWhatItAsked
<1>12. Queued'
  <2>1. t \notin Members(queue)
    BY DEF Queued, Members
  <2>2. Distinct(queue') /\ Members(queue') = Members(queue) \cup {t}
    BY <1>4, <2>1, AppendProps DEF TypeOK, Queued
  <2>3. \A u \in Members(queue) : at[u] = "queued" /\ u \in Turns
    BY DEF Queued, Members, TypeOK
  <2>4. \A u \in Members(queue') : at'[u] = "queued"
    BY <1>4, <2>2, <2>3 DEF TypeOK
  <2>5. worker' # None => at'[worker'] \in {"running", "over"}
    BY <1>4 DEF Queued, TypeOK
  <2> QED BY <2>2, <2>4, <2>5 DEF Queued, Members
<1> QED BY <1>2, <1>6, <1>7, <1>8, <1>9, <1>10, <1>11, <1>12

(***************************************************************************)
(* The library cannot load the model: what was evicted stays evicted.      *)
(***************************************************************************)
LEMMA FailStep ==
  ASSUME Inv, NEW t \in Turns, at[t] = "waiting",
         Create(t, asks[t].session, FALSE), at' = [at EXCEPT ![t] = "over"],
         UNCHANGED <<asks, config, worker, overtaken, queue, lastUse, clock>>
  PROVE  Inv'
<1> DEFINE s == asks[t].session
<1> USE PoolAssumption DEF Inv
<1>1. s \in Sessions /\ asks \in [Turns -> Requests]
  BY DEF TypeOK
<1>2. /\ lru' \in Seq(Sessions) /\ Distinct(lru') /\ Len(lru') <= MaxSessions /\ Tables'
      /\ \A r \in Sessions : instances'[r] = IF r \in Evicted(s) \cup {s} THEN None ELSE instances[r]
  BY CreateTables
<1>3. /\ uses' = uses /\ modelOf' = modelOf
      /\ open' = (open \ {instances[r] : r \in Evicted(s) \cup {s}}) \cup {}
      /\ instances' \in [Sessions -> Turns \cup {None}]
      /\ hashes' \in [Sessions -> Hashes \cup {None}]
      /\ \A r \in Sessions \ {s} : r \notin Evicted(s) => hashes'[r] = hashes[r]
  BY <1>1 DEF Create, TypeOK
<1>4. lru' = Kept(s)
  BY DEF Create
<1> HIDE DEF s
<1>5. TypeOK'
  BY <1>1, <1>2, <1>3 DEF TypeOK
<1>6. Ordered'
  BY <1>1, <1>2, <1>4, KeptFacts DEF Ordered
<1>7. MadeFor' /\ WaitsForIt'
  BY <1>2, <1>3 DEF MadeFor, WaitsForIt, TypeOK
<1>8. Served'
  BY <1>3 DEF Served, Generates, TypeOK
<1>9. \A u \in Turns : Generates(u)' => Generates(u) /\ u # t
  BY DEF Generates, TypeOK
<1>10. GetsWhatItAsked'
  BY <1>3, <1>9 DEF GetsWhatItAsked
<1>11. Queued'
  BY DEF Queued, TypeOK
<1> QED BY <1>2, <1>5, <1>6, <1>7, <1>8, <1>10, <1>11

(***************************************************************************)
(* The worker and a turn that leaves do not touch the pool.                *)
(***************************************************************************)
LEMMA WorkerTakesStep == Inv /\ WorkerTakes => Inv'
<1> SUFFICES ASSUME Inv, WorkerTakes PROVE Inv'
  OBVIOUS
<1> DEFINE h == Head(queue)
<1> USE DEF WorkerTakes
<1>1. /\ queue \in Seq(Turns) /\ queue # <<>> /\ h = queue[1] /\ 1 \in DOMAIN queue
      /\ Len(queue) \in Nat \ {0} /\ DOMAIN queue = 1 .. Len(queue)
  BY DEF Inv, TypeOK
<1>2. h \in Turns /\ at[h] = "queued" /\ at' = [at EXCEPT ![h] = "running"]
  BY <1>1 DEF Inv, Queued
<1>3. /\ queue' \in Seq(Turns) /\ DOMAIN queue' = 1 .. Len(queue) - 1
      /\ \A i \in DOMAIN queue' : queue'[i] = queue[i + 1]
  BY <1>1, HeadTailProperties
<1> HIDE DEF h
<1>4. TypeOK'
  BY <1>1, <1>2, <1>3 DEF Inv, TypeOK, poolVars, history, h
<1>5. /\ \A t \in Turns : at'[t] \in {"new", "waiting"} => at'[t] = at[t]
      /\ \A t \in Turns : Generates(t)' => Generates(t)
  BY <1>2 DEF Inv, TypeOK, Generates
<1>6. Ordered' /\ Tables' /\ MadeFor' /\ WaitsForIt' /\ Served' /\ GetsWhatItAsked'
  BY <1>5, PoolAlone
<1>7. Queued'
  <2>1. \A i \in DOMAIN queue' : i + 1 \in DOMAIN queue /\ queue[i + 1] # h
    BY <1>1, <1>3 DEF Inv, Queued, Distinct
  <2>2. Distinct(queue')
    BY <1>1, <1>3, <2>1 DEF Inv, Queued, Distinct
  <2>3. \A i \in DOMAIN queue' : at'[queue'[i]] = "queued"
    BY <1>1, <1>2, <1>3, <2>1 DEF Inv, TypeOK, Queued
  <2>4. worker' # None => at'[worker'] \in {"running", "over"}
    BY <1>1, <1>2 DEF Inv, TypeOK, h
  <2> QED BY <2>2, <2>3, <2>4 DEF Queued
<1> QED BY <1>4, <1>6, <1>7 DEF Inv

LEMMA WorkerEndsStep == Inv /\ WorkerEnds => Inv'
<1> SUFFICES ASSUME Inv, WorkerEnds PROVE Inv'
  OBVIOUS
<1>1. worker \in Turns /\ at' = [at EXCEPT ![worker] = "over"]
  BY DEF Inv, TypeOK, WorkerEnds
<1>2. TypeOK'
  BY <1>1, PoolAssumption DEF Inv, TypeOK, WorkerEnds, poolVars, history
<1>3. /\ \A t \in Turns : at'[t] \in {"new", "waiting"} => at'[t] = at[t]
      /\ \A t \in Turns : Generates(t)' => Generates(t)
  BY <1>1 DEF Inv, TypeOK, Generates
<1>4. Ordered' /\ Tables' /\ MadeFor' /\ WaitsForIt' /\ Served' /\ GetsWhatItAsked'
  BY <1>3, PoolAlone DEF WorkerEnds
<1>5. Queued'
  BY <1>1, PoolAssumption DEF Inv, TypeOK, Queued, WorkerEnds
<1> QED BY <1>2, <1>4, <1>5 DEF Inv

LEMMA LeaveStep ==
  ASSUME Inv, NEW t \in Turns, Leave(t)
  PROVE  Inv'
<1> USE DEF Leave
<1>1. at' = [at EXCEPT ![t] = "over"]
  OBVIOUS
<1>2. /\ queue' \in Seq(Turns) /\ Distinct(queue')
      /\ Members(queue') = Members(queue) \ {t}
  BY RemoveFirstProperties DEF Inv, TypeOK, Queued
<1>3. TypeOK'
  BY <1>1, <1>2 DEF Inv, TypeOK, poolVars, history
<1>4. /\ \A u \in Turns : at'[u] \in {"new", "waiting"} => at'[u] = at[u]
      /\ \A u \in Turns : Generates(u)' => Generates(u)
  BY <1>1 DEF Inv, TypeOK, Generates
<1>5. Ordered' /\ Tables' /\ MadeFor' /\ WaitsForIt' /\ Served' /\ GetsWhatItAsked'
  BY <1>4, PoolAlone
<1>6. Queued'
  <2>1. \A u \in Members(queue) : at[u] = "queued" /\ u \in Turns
    BY DEF Inv, Queued, Members, TypeOK
  <2>2. \A u \in Members(queue') : at'[u] = "queued"
    BY <1>1, <1>2, <2>1 DEF Inv, TypeOK
  <2>3. worker' # None => at'[worker'] \in {"running", "over"}
    BY <1>1 DEF Inv, TypeOK, Queued
  <2> QED BY <1>2, <2>2, <2>3 DEF Queued, Members
<1> QED BY <1>3, <1>5, <1>6 DEF Inv

LEMMA StutterStep == Inv /\ UNCHANGED vars => Inv'
<1> SUFFICES ASSUME Inv, UNCHANGED vars PROVE Inv'
  OBVIOUS
<1> USE DEF vars, turnVars, poolVars, history
<1>1. TypeOK' /\ Ordered' /\ Tables' /\ Queued'
  BY DEF Inv, TypeOK, Ordered, Tables, Queued
<1>2. MadeFor' /\ WaitsForIt' /\ Served' /\ GetsWhatItAsked'
  BY DEF Inv, MadeFor, WaitsForIt, Served, GetsWhatItAsked, Generates
<1> QED BY <1>1, <1>2 DEF Inv

LEMMA InvStep == Inv /\ [Next]_vars => Inv'
<1> SUFFICES ASSUME Inv, [Next]_vars PROVE Inv'
  OBVIOUS
<1>1. ASSUME NEW t \in Turns, Execute(t) PROVE Inv'
  BY <1>1, ReuseStep, CreateStep, FailStep DEF Execute
<1> QED BY <1>1, AskStep, LeaveStep, WorkerTakesStep, WorkerEndsStep, StutterStep DEF Next

LEMMA InvHolds == Spec => []Inv
  BY InvInit, InvStep, PTL DEF Spec

-----------------------------------------------------------------------------
(* What it is worth.                                                       *)

(***************************************************************************)
(* The pool is well typed (model_pool.py, chat.py).                        *)
(***************************************************************************)
THEOREM TypeCorrect == Spec => []TypeOK
<1>1. Inv => TypeOK
  BY DEF Inv
<1> QED BY <1>1, InvHolds, PTL

(***************************************************************************)
(* The pool's three tables agree, are bounded and hold all that is open:   *)
(* no native instance is leaked and none in the pool is closed, whatever   *)
(* turns, switches and failed loads do (model_pool.py:66-166).             *)
(***************************************************************************)
THEOREM PoolAlwaysWhole == Spec => []PoolWhole
<1>1. ASSUME Inv PROVE PoolWhole
  <2>1. Members(lru) \subseteq Sessions
    BY <1>1 DEF Inv, TypeOK, Members
  <2>2. /\ {s \in Sessions : instances[s] # None} = Members(lru)
        /\ {s \in Sessions : hashes[s] # None} = Members(lru)
    BY <1>1, <2>1 DEF Inv, Tables
  <2>3. /\ \A i, j \in DOMAIN lru : lru[i] = lru[j] => i = j
        /\ Len(lru) <= MaxSessions
        /\ open = {instances[s] : s \in Sessions} \ {None}
    BY <1>1 DEF Inv, Ordered, Distinct, Tables
  <2> QED BY <2>2, <2>3 DEF PoolWhole, Members
<1> QED BY <1>1, InvHolds, PTL

(***************************************************************************)
(* A turn never generates on another conversation's instance, nor on one   *)
(* for another prompt or model, unless the model was switched meanwhile.   *)
(***************************************************************************)
THEOREM GeneratesOnItsOwn == Spec => []GetsWhatItAsked
<1>1. Inv => GetsWhatItAsked
  BY DEF Inv
<1> QED BY <1>1, InvHolds, PTL

(***************************************************************************)
(* The session pushed out was used before every one that stays.            *)
(***************************************************************************)
THEOREM OldestGoesFirst == Spec => EvictsTheOldest
<1> DEFINE Live(tab, t) == {s \in Sessions \ {asks[t].session} : tab[s] # None}
           Fair(t) == \A s \in Live(instances, t) \ Live(instances', t), r \in Live(instances', t) :
                        lastUse[s] < lastUse[r]
<1>1. ASSUME Inv, NEW t \in Turns, Execute(t) PROVE Fair(t)
  <2> DEFINE s == asks[t].session
  <2>1. s \in Sessions
    BY <1>1, PoolAssumption DEF Inv, TypeOK
  <2>2. CASE Reuse(t, s)
    BY <2>2 DEF Reuse
  <2>3. ASSUME NEW loads \in BOOLEAN, Create(t, s, loads), at[t] = "waiting" PROVE Fair(t)
    <3>1. /\ \A r \in Sessions \ {s} : instances'[r] = IF r \in Evicted(s) THEN None ELSE instances[r]
          /\ Tables'
          /\ Members(lru') \ {s} = Members(lru) \ (Evicted(s) \cup {s})
      BY <1>1, <2>3, CreateTables
    <3>2. \A e \in Evicted(s), m \in Members(Kept(s)) : lastUse[e] < lastUse[m]
      BY <1>1, <2>1, KeptFacts DEF Inv
    <3>3. Members(Kept(s)) = Members(lru) \ (Evicted(s) \cup {s})
      BY <1>1, <2>1, KeptFacts DEF Inv
    <3> HIDE DEF s
    <3>4. \A r \in Sessions \ {s} : instances'[r] # None => r \in Members(Kept(s))
      BY <3>1, <3>3 DEF Tables
    <3>5. \A r \in Sessions \ {s} : instances[r] # None /\ instances'[r] = None => r \in Evicted(s)
      BY <3>1
    <3> QED BY <3>2, <3>4, <3>5 DEF s
  <2> QED BY <1>1, <2>2, <2>3 DEF Execute
<1>2. Inv /\ [Next]_vars => [\A t \in Turns : Execute(t) => Fair(t)]_vars
  BY <1>1
<1> QED BY <1>2, InvHolds, PTL DEF Spec, EvictsTheOldest

(***************************************************************************)
(* With one slot one turn generates at a time, and what it was given stays *)
(* open until its end, unless a turn that asks for another model closes    *)
(* it.  (A session is served on the loop while the worker generates for a  *)
(* turn that has left: the argument is the slot's, not the worker's.)      *)
(***************************************************************************)
Alone ==
  /\ \A t, u \in Turns : Generates(t) /\ Generates(u) => t = u
  /\ KeepsItsInstance

LEMMA AloneStep ==
  ASSUME Slots = 1, Inv, Alone, [Next]_vars
  PROVE  Alone'
<1> USE PoolAssumption DEF Inv
<1>1. ASSUME \A t \in Turns : Generates(t)' => Generates(t),
             UNCHANGED <<uses, open, overtaken>>
      PROVE  Alone'
  BY <1>1 DEF Alone, KeepsItsInstance
<1>2. ASSUME NEW t \in Turns, Ask(t) PROVE Alone'
  <2>1. \A u \in Turns : Generates(u)' => Generates(u)
    BY <1>2 DEF Ask, Generates, TypeOK
  <2>2. CASE UNCHANGED <<config, poolVars, overtaken>>
    BY <1>1, <1>2, <2>1, <2>2 DEF Ask, poolVars
  <2>3. CASE overtaken' = overtaken \cup {u \in Turns : UnderWay(u)}
    <3>1. \A u \in Turns : Generates(u)' => u \in overtaken'
      BY <2>1, <2>3 DEF Generates, UnderWay
    <3> QED BY <2>1, <3>1 DEF Alone, KeepsItsInstance
  <2> QED BY <1>2, <2>2, <2>3 DEF Ask
<1>3. ASSUME NEW t \in Turns, Execute(t) PROVE Alone'
  <2> DEFINE G == {u \in Turns : Generates(u)}
  <2>1. G = {}
    <3>1. ASSUME NEW u \in G PROVE FALSE
      <4>1. G = {u}
        BY <3>1 DEF Alone
      <4>2. Cardinality(G) = 1
        BY <4>1, FS_Singleton
      <4> QED BY <1>3, <4>2 DEF Execute, SlotFree
    <3> QED BY <3>1
  <2>2. \A u \in Turns : Generates(u)' => u = t
    BY <1>3, <2>1 DEF Execute, Given, Generates, TypeOK
  <2>3. Generates(t)' => uses'[t] \in open'
    <3> DEFINE s == asks[t].session
    <3>1. s \in Sessions
      BY DEF TypeOK
    <3>2. CASE Reuse(t, s)
      <4>1. uses'[t] = instances[s] /\ instances[s] # None /\ open' = open
        BY <3>2 DEF Reuse, Reusable, TypeOK
      <4> QED BY <3>1, <4>1 DEF Tables
    <3>3. CASE Create(t, s, TRUE)
      <4>1. uses'[t] = t /\ t \in open'
        BY <3>3 DEF Create, TypeOK
      <4> QED BY <4>1
    <3>4. CASE at' = [at EXCEPT ![t] = "over"]
      BY <3>4 DEF Generates, TypeOK
    <3> QED BY <1>3, <3>2, <3>3, <3>4 DEF Execute
  <2> QED BY <2>2, <2>3 DEF Alone, KeepsItsInstance
<1>4. ASSUME NEW t \in Turns, Leave(t) PROVE Alone'
  BY <1>1, <1>4 DEF Leave, Generates, TypeOK, poolVars, history
<1>5. CASE WorkerTakes
  <2>1. Head(queue) = queue[1] /\ 1 \in DOMAIN queue /\ Head(queue) \in Turns
    BY <1>5 DEF WorkerTakes, TypeOK
  <2> QED BY <1>1, <1>5, <2>1 DEF WorkerTakes, Queued, Generates, TypeOK, poolVars, history
<1>6. CASE WorkerEnds
  BY <1>1, <1>6 DEF WorkerEnds, Generates, TypeOK, poolVars, history
<1>7. CASE UNCHANGED vars
  BY <1>1, <1>7 DEF vars, turnVars, poolVars, history, Generates
<1> QED BY <1>2, <1>3, <1>4, <1>5, <1>6, <1>7 DEF Next

THEOREM InstanceKept ==
  ASSUME Slots = 1
  PROVE  Spec => []KeepsItsInstance
<1>1. Init => Alone
  BY DEF Init, Alone, KeepsItsInstance, Generates
<1>2. Inv /\ Alone /\ [Next]_vars => Alone'
  BY AloneStep
<1>3. Alone => KeepsItsInstance
  BY DEF Alone
<1> QED BY <1>1, <1>2, <1>3, InvHolds, PTL DEF Spec

-----------------------------------------------------------------------------
(* The gate.                                                               *)

\* What a step may do to the place of a turn, as the gate sees it.
Asks(t) == at[t] = "new" /\ at' = [at EXCEPT ![t] = "waiting"]
TakesSlot(t) == at[t] = "waiting" /\ SlotFree /\ \E w \in {"queued", "running"} : at' = [at EXCEPT ![t] = w]
KeepsSlot(t) == at[t] \in {"queued", "running"} /\ \E w \in {"queued", "running"} : at' = [at EXCEPT ![t] = w]
GoesWithout(t) == at[t] = "waiting" /\ at' = [at EXCEPT ![t] = "over"]
GivesBack(t) == at[t] \in {"queued", "running"} /\ at' = [at EXCEPT ![t] = "over"]
GateStep ==
  \/ UNCHANGED at
  \/ \E t \in Turns : Asks(t) \/ TakesSlot(t) \/ KeepsSlot(t) \/ GoesWithout(t) \/ GivesBack(t)

\* The gate counts as the model does.
LEMMA GateCounts == \A S : Gate!Cardinality(S) = Cardinality(S)
  BY DEF Gate!Cardinality, Cardinality

\* Such a step is one the gate allows.
LEMMA GateAllows ==
  ASSUME TypeOK, GateStep
  PROVE  [Gate!PoolNext]_(Gate!poolVars)
<1> DEFINE W == {t \in Turns : at[t] = "waiting"}
           H == {t \in Turns : Generates(t)}
           O == {t \in Turns : at[t] = "over"}
<1>1. at \in [Turns -> {"new", "waiting", "queued", "running", "over"}]
  BY DEF TypeOK
<1>2. CASE UNCHANGED at
  BY <1>2 DEF Gate!poolVars, Generates
<1>3. ASSUME NEW t \in Turns, Asks(t) PROVE Gate!Ask(t)
  <2>1. t \notin W \cup H \cup O /\ W' = W \cup {t} /\ H' = H /\ O' = O
    BY <1>1, <1>3 DEF Asks, Generates
  <2> QED BY <2>1 DEF Gate!Ask, Gate!MayTell
<1>4. ASSUME NEW t \in Turns, TakesSlot(t) PROVE Gate!Grant(t)
  <2>1. t \notin H \cup O /\ W' = W \ {t} /\ H' = H \cup {t} /\ O' = O
    BY <1>1, <1>4 DEF TakesSlot, Generates
  <2>2. Cardinality(H) < Slots
    BY <1>4 DEF TakesSlot, SlotFree
  <2> QED BY <2>1, <2>2, GateCounts DEF Gate!Grant, Gate!MayTell
<1>5. ASSUME NEW t \in Turns, KeepsSlot(t) PROVE UNCHANGED Gate!poolVars
  <2>1. W' = W /\ H' = H /\ O' = O
    BY <1>1, <1>5 DEF KeepsSlot, Generates
  <2> QED BY <2>1 DEF Gate!poolVars
<1>6. ASSUME NEW t \in Turns, GoesWithout(t) PROVE Gate!GiveUp(t)
  <2>1. t \in W /\ W' = W \ {t} /\ H' = H /\ O' = O \cup {t}
    BY <1>1, <1>6 DEF GoesWithout, Generates
  <2> QED BY <2>1 DEF Gate!GiveUp
<1>7. ASSUME NEW t \in Turns, GivesBack(t) PROVE Gate!GiveBack(t)
  <2>1. t \in H /\ W' = W /\ H' = H \ {t} /\ O' = O \cup {t}
    BY <1>1, <1>7 DEF GivesBack, Generates
  <2> QED BY <2>1 DEF Gate!GiveBack
<1> QED BY <1>2, <1>3, <1>4, <1>5, <1>6, <1>7 DEF GateStep, Gate!PoolNext, Gate!Clients

\* Every step of the engine is such a step.
LEMMA TurnsAtTheGate ==
  ASSUME Inv, Next
  PROVE  GateStep
<1>1. ASSUME NEW t \in Turns, Ask(t) PROVE Asks(t)
  BY <1>1 DEF Ask, Asks
<1>2. ASSUME NEW t \in Turns, Execute(t) PROVE TakesSlot(t) \/ GoesWithout(t)
  BY <1>2 DEF Execute, Given, TakesSlot, GoesWithout
<1>3. ASSUME NEW t \in Turns, Leave(t) PROVE GoesWithout(t) \/ GivesBack(t)
  BY <1>3 DEF Leave, UnderWay, GoesWithout, GivesBack
<1>4. ASSUME WorkerTakes PROVE Head(queue) \in Turns /\ KeepsSlot(Head(queue))
  <2>1. Head(queue) = queue[1] /\ 1 \in DOMAIN queue /\ Head(queue) \in Turns
    BY <1>4 DEF WorkerTakes, Inv, TypeOK
  <2>2. at[Head(queue)] = "queued"
    BY <2>1 DEF Inv, Queued
  <2> QED BY <1>4, <2>1, <2>2 DEF WorkerTakes, KeepsSlot
<1>5. ASSUME WorkerEnds PROVE worker \in Turns /\ (GivesBack(worker) \/ UNCHANGED at)
  <2>1. worker \in Turns /\ at[worker] \in {"running", "over"} /\ at' = [at EXCEPT ![worker] = "over"]
    BY <1>5 DEF WorkerEnds, Inv, TypeOK, Queued
  <2>2. at[worker] = "over" => at' = at
    BY <2>1 DEF Inv, TypeOK
  <2> QED BY <2>1, <2>2 DEF GivesBack
<1> QED BY <1>1, <1>2, <1>3, <1>4, <1>5 DEF Next, GateStep

(***************************************************************************)
(* The engine implements what the gate promises of its users: a turn takes *)
(* a slot only when one is free, and gives it back once whether it ends,   *)
(* breaks, cannot load its model or is cancelled with its generation still *)
(* running on the worker (engine_hold.py:78-113).                          *)
(***************************************************************************)
THEOREM GateUsedAsPromised == Spec => UsesTheGate
<1>1. Init => Gate!PoolInit
  BY DEF Init, Generates, Gate!PoolInit
<1>2. Inv /\ [Next]_vars => [Gate!PoolNext]_(Gate!poolVars)
  <2>1. UNCHANGED vars => GateStep
    BY DEF vars, turnVars, GateStep
  <2> QED BY <2>1, TurnsAtTheGate, GateAllows DEF Inv
<1> QED BY <1>1, <1>2, InvHolds, PTL DEF Spec, UsesTheGate, Gate!PoolSpec

-----------------------------------------------------------------------------
(***************************************************************************)
(* No generation is lost: a turn that was given an instance has its        *)
(* generation in the executor's queue, or at work, until it is over        *)
(* (chat.py:32, 329-362).                                                  *)
(***************************************************************************)
NoTurnLost ==
  \A t \in Turns :
    /\ at[t] = "queued" => \E i \in DOMAIN queue : queue[i] = t
    /\ at[t] = "running" => worker = t

THEOREM NoTurnIsLost == Spec => []NoTurnLost
<1>1. Init => NoTurnLost
  BY DEF Init, NoTurnLost
<1>2. ASSUME Inv, NoTurnLost, [Next]_vars PROVE NoTurnLost'
  <2>a. /\ at \in [Turns -> {"new", "waiting", "queued", "running", "over"}] /\ queue \in Seq(Turns)
        /\ worker \in Turns \cup {None} /\ Distinct(queue)
    BY <1>2 DEF Inv, TypeOK, Queued
  <2>1. ASSUME NEW t \in Turns, Ask(t) PROVE NoTurnLost'
    <3>1. at' = [at EXCEPT ![t] = "waiting"] /\ queue' = queue /\ worker' = worker
      BY <2>1 DEF Ask
    <3> QED BY <1>2, <2>a, <3>1 DEF NoTurnLost
  <2>2. ASSUME NEW t \in Turns, Execute(t) PROVE NoTurnLost'
    <3>1. CASE Given(t, asks[t].session)
      <4>1. /\ Len(queue) \in Nat /\ DOMAIN queue = 1 .. Len(queue)
            /\ DOMAIN queue' = 1 .. Len(queue) + 1
            /\ queue'[Len(queue) + 1] = t /\ \A i \in DOMAIN queue : queue'[i] = queue[i]
        BY <2>a, <3>1 DEF Given
      <4>2. \A i \in DOMAIN queue : i \in DOMAIN queue'
        BY <4>1
      <4>3. \E i \in DOMAIN queue' : queue'[i] = t
        BY <4>1
      <4>4. \A u \in Turns \ {t} : at'[u] = at[u]
        BY <2>a, <3>1 DEF Given
      <4>5. at'[t] = "queued" /\ worker' = worker
        BY <2>a, <2>2, <3>1 DEF Execute, Given
      <4> QED BY <1>2, <4>1, <4>2, <4>3, <4>4, <4>5 DEF NoTurnLost
    <3>2. CASE at' = [at EXCEPT ![t] = "over"] /\ queue' = queue
      BY <1>2, <2>a, <2>2, <3>2 DEF Execute, NoTurnLost
    <3> QED BY <2>2, <3>1, <3>2 DEF Execute
  <2>3. ASSUME NEW t \in Turns, Leave(t) PROVE NoTurnLost'
    <3>1. Members(queue') = Members(queue) \ {t}
      BY <2>a, <2>3, RemoveFirstProperties DEF Leave
    <3>2. \A u \in Turns : u \in Members(queue) /\ u # t => \E i \in DOMAIN queue' : queue'[i] = u
      BY <3>1 DEF Members
    <3> QED BY <1>2, <2>a, <2>3, <3>2 DEF Leave, NoTurnLost, Members
  <2>4. CASE WorkerTakes
    <3>1. Head(queue) = queue[1] /\ Len(queue) \in Nat \ {0} /\ DOMAIN queue = 1 .. Len(queue)
      BY <2>a, <2>4 DEF WorkerTakes
    <3>2. DOMAIN queue' = 1 .. Len(queue) - 1 /\ \A i \in DOMAIN queue' : queue'[i] = queue[i + 1]
      BY <2>a, <2>4, <3>1, HeadTailProperties DEF WorkerTakes
    <3>3. ASSUME NEW u \in Turns, u # Head(queue), at[u] = "queued"
          PROVE  \E i \in DOMAIN queue' : queue'[i] = u
      <4>1. PICK i \in DOMAIN queue : queue[i] = u
        BY <1>2, <3>3 DEF NoTurnLost
      <4>2. i - 1 \in DOMAIN queue' /\ (i - 1) + 1 = i
        BY <3>1, <3>2, <3>3, <4>1
      <4> QED BY <3>2, <4>1, <4>2
    <3>4. \A u \in Turns : at[u] # "running"
      BY <1>2, <2>4, PoolAssumption DEF WorkerTakes, NoTurnLost
    <3> QED BY <2>a, <2>4, <3>3, <3>4 DEF WorkerTakes, NoTurnLost
  <2>5. CASE WorkerEnds
    BY <1>2, <2>a, <2>5 DEF WorkerEnds, NoTurnLost
  <2>6. CASE UNCHANGED vars
    BY <1>2, <2>6 DEF vars, turnVars, NoTurnLost
  <2> QED BY <1>2, <2>1, <2>2, <2>3, <2>4, <2>5, <2>6 DEF Next
<1> QED BY <1>1, <1>2, InvHolds, PTL DEF Spec

=============================================================================
