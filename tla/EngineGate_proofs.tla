------------------------- MODULE EngineGate_proofs -------------------------
(***************************************************************************)
(* Proofs about EngineGate for every set of calls and every number of      *)
(* slots.                                                                  *)
(***************************************************************************)
EXTENDS EngineGate, SequenceTheorems, FiniteSetTheorems, TLAPS

(***************************************************************************)
(* What is left of a sequence when one position is dropped is a sequence   *)
(* over the same set, and nothing is left only of a one-element sequence.  *)
(***************************************************************************)
LEMMA RemoveAtType ==
  ASSUME NEW S, NEW s \in Seq(S), NEW i \in DOMAIN s
  PROVE  /\ RemoveAt(s, i) \in Seq(S)
         /\ RemoveAt(s, i) # <<>> => s # <<>>
  BY DEF RemoveAt

(***************************************************************************)
(* The loop of acquire() keeps to the calls already made.                  *)
(***************************************************************************)
LEMMA TakeOrWaitType ==
  ASSUME NEW S, waiters \in Seq(S), holders \subseteq S,
         NEW r \in S, TakeOrWait(r)
  PROVE  waiters' \in Seq(S) /\ holders' \subseteq S
<1>1. CASE Free
  BY <1>1 DEF TakeOrWait
<1>2. CASE ~Free
  BY <1>2, AppendProperties DEF TakeOrWait
<1> QED BY <1>1, <1>2

(***************************************************************************)
(* The gate's state is well typed (gate.py:109-188).                       *)
(***************************************************************************)
LEMMA TypeInit == Init => TypeOK
  BY DEF Init, TypeOK

LEMMA TypeStep == TypeOK /\ [Next]_vars => TypeOK'
<1> SUFFICES ASSUME TypeOK, [Next]_vars PROVE TypeOK'
  OBVIOUS
<1> USE DEF TypeOK
<1>1. ASSUME NEW r \in Requests, Acquire(r) PROVE TypeOK'
  <2>1. called' \subseteq Requests /\ called \subseteq called' /\ r \in called'
    BY <1>1 DEF Acquire
  <2>2. waiters \in Seq(called') /\ woken \in Seq(called') /\ holders \subseteq called'
    BY <2>1, SeqMonotonic
  <2>3. waiters' \in Seq(called') /\ holders' \subseteq called' /\ woken' \in Seq(called')
    BY <1>1, <2>1, <2>2, TakeOrWaitType DEF Acquire
  <2>4. cancelled' \subseteq called' \cap Jobs
    BY <1>1, <2>1 DEF Acquire, PreemptLower
  <2> QED BY <2>1, <2>3, <2>4
<1>2. ASSUME Resume PROVE TypeOK'
  <2>1. Head(woken) \in called /\ Tail(woken) \in Seq(called)
    BY <1>2 DEF Resume
  <2>2. called' = called /\ woken' \in Seq(called)
    BY <1>2, <2>1 DEF Resume
  <2>3. waiters' \in Seq(called) /\ holders' \subseteq called
    BY <1>2, <2>1, TakeOrWaitType DEF Resume
  <2>4. cancelled' \subseteq called \cap Jobs
    BY <1>2 DEF Resume, PreemptLower
  <2> QED BY <2>2, <2>3, <2>4
<1>3. ASSUME NEW r \in Requests, LeaveWait(r) PROVE TypeOK'
  BY <1>3, RemoveAtType DEF LeaveWait
<1>4. ASSUME NEW r \in Requests, Release(r) PROVE TypeOK'
  BY <1>4 DEF Release
<1>5. CASE UNCHANGED vars
  BY <1>5 DEF vars
<1> QED BY <1>1, <1>2, <1>3, <1>4, <1>5 DEF Next, TimeOut, Abandon

THEOREM TypeCorrect == Spec => []TypeOK
  BY TypeInit, TypeStep, PTL DEF Spec

(***************************************************************************)
(* The slots: never more holders than slots, and nobody asleep beside a    *)
(* free one.  The bound is inductive once the holders are known to be a    *)
(* finite set, whatever the set of calls.                                  *)
(***************************************************************************)
SlotInv ==
  /\ IsFiniteSet(holders)
  /\ SlotBound
  /\ NoSleeperBesideFreeSlot

LEMMA TakeOrWaitSlots ==
  ASSUME SlotInv, NEW r, TakeOrWait(r)
  PROVE  SlotInv'
<1> USE SlotsAssumption DEF SlotInv, SlotBound, NoSleeperBesideFreeSlot, Free
<1>1. CASE Free
  <2>1. holders' = holders \cup {r} /\ waiters' = waiters /\ waiters = <<>>
    BY <1>1 DEF TakeOrWait
  <2>2. /\ IsFiniteSet(holders \cup {r})
        /\ Cardinality(holders \cup {r}) \in {Cardinality(holders), Cardinality(holders) + 1}
    BY FS_AddElement
  <2>3. Cardinality(holders) \in Nat
    BY FS_CardinalityType
  <2> QED BY <1>1, <2>1, <2>2, <2>3
<1>2. CASE ~Free
  BY <1>2 DEF TakeOrWait
<1> QED BY <1>1, <1>2

(***************************************************************************)
(* SlotInv holds at the start and every step keeps it.                     *)
(***************************************************************************)
LEMMA SlotInit == Init => SlotInv
  BY FS_EmptySet, SlotsAssumption DEF Init, SlotInv, SlotBound, NoSleeperBesideFreeSlot

LEMMA SlotStep == TypeOK /\ SlotInv /\ [Next]_vars => SlotInv'
<1> SUFFICES ASSUME TypeOK, SlotInv, [Next]_vars PROVE SlotInv'
  OBVIOUS
<1>1. ASSUME NEW r \in Requests, Acquire(r) PROVE SlotInv'
  BY <1>1, TakeOrWaitSlots DEF Acquire
<1>2. ASSUME Resume PROVE SlotInv'
  BY <1>2, TakeOrWaitSlots DEF Resume
<1>3. ASSUME NEW r \in Requests, LeaveWait(r) PROVE SlotInv'
  <2>1. holders' = holders /\ (waiters' # <<>> => waiters # <<>>)
    BY <1>3, RemoveAtType DEF LeaveWait, TypeOK
  <2> QED BY <2>1 DEF SlotInv, SlotBound, NoSleeperBesideFreeSlot, Free
<1>4. ASSUME NEW r \in Requests, Release(r) PROVE SlotInv'
  <2>1. holders' = holders \ {r} /\ waiters' = <<>> /\ r \in holders
    BY <1>4 DEF Release
  <2>2. /\ IsFiniteSet(holders \ {r})
        /\ Cardinality(holders \ {r}) = Cardinality(holders) - 1
    BY <2>1, FS_RemoveElement DEF SlotInv
  <2>3. Cardinality(holders) \in Nat
    BY FS_CardinalityType DEF SlotInv
  <2> QED BY <2>1, <2>2, <2>3, SlotsAssumption DEF SlotInv, SlotBound, NoSleeperBesideFreeSlot
<1>5. CASE UNCHANGED vars
  BY <1>5 DEF vars, SlotInv, SlotBound, NoSleeperBesideFreeSlot, Free
<1> QED BY <1>1, <1>2, <1>3, <1>4, <1>5 DEF Next, TimeOut, Abandon

(***************************************************************************)
(* Whatever the number of turns and jobs, the engine never runs more       *)
(* generations than it has slots (gate.py:34-38).                          *)
(***************************************************************************)
THEOREM SlotsNeverExceeded == Spec => []SlotBound
<1>1. Init => TypeOK /\ SlotInv
  BY TypeInit, SlotInit
<1>2. TypeOK /\ SlotInv /\ [Next]_vars => (TypeOK /\ SlotInv)'
  BY TypeStep, SlotStep
<1>3. SlotInv => SlotBound
  BY DEF SlotInv
<1> QED BY <1>1, <1>2, <1>3, PTL DEF Spec

(***************************************************************************)
(* No lost wake-up: a release wakes everybody, so that a waiter that times *)
(* out after its notification takes nobody's (gate.py:160-168).            *)
(***************************************************************************)
THEOREM NoLostWakeUp == Spec => []NoSleeperBesideFreeSlot
<1>1. Init => TypeOK /\ SlotInv
  BY TypeInit, SlotInit
<1>2. TypeOK /\ SlotInv /\ [Next]_vars => (TypeOK /\ SlotInv)'
  BY TypeStep, SlotStep
<1>3. SlotInv => NoSleeperBesideFreeSlot
  BY DEF SlotInv
<1> QED BY <1>1, <1>2, <1>3, PTL DEF Spec

(***************************************************************************)
(* What the operations of the gate do to a sequence without repetitions.   *)
(***************************************************************************)
LEMMA AppendRange ==
  ASSUME NEW S, NEW s \in Seq(S), NEW e \in S
  PROVE  /\ Range(Append(s, e)) = Range(s) \cup {e}
         /\ IsInjective(s) /\ e \notin Range(s) => IsInjective(Append(s, e))
  BY AppendProperties DEF Range, IsInjective

LEMMA TailRange ==
  ASSUME NEW S, NEW s \in Seq(S), s # <<>>, IsInjective(s)
  PROVE  /\ Range(Tail(s)) = Range(s) \ {Head(s)}
         /\ IsInjective(Tail(s))
         /\ Head(s) \in Range(s)
<1>1. /\ Head(s) = s[1] /\ DOMAIN s = 1 .. Len(s) /\ 1 \in DOMAIN s
      /\ DOMAIN Tail(s) = 1 .. (Len(s) - 1) /\ Len(s) \in Nat
      /\ \A k \in 1 .. (Len(s) - 1) : Tail(s)[k] = s[k + 1]
  BY HeadTailProperties
<1>2. \A k \in DOMAIN Tail(s) : Tail(s)[k] \in Range(s) \ {s[1]}
  BY <1>1 DEF Range, IsInjective
<1>3. ASSUME NEW k \in DOMAIN s, s[k] # s[1] PROVE s[k] \in Range(Tail(s))
  <2>1. k - 1 \in DOMAIN Tail(s) /\ Tail(s)[k - 1] = s[k]
    BY <1>1, <1>3
  <2> QED BY <2>1 DEF Range
<1>4. IsInjective(Tail(s))
  BY <1>1 DEF IsInjective
<1> QED BY <1>1, <1>2, <1>3, <1>4 DEF Range

LEMMA RemoveAtRange ==
  ASSUME NEW S, NEW s \in Seq(S), NEW i \in DOMAIN s, IsInjective(s)
  PROVE  /\ Range(RemoveAt(s, i)) = Range(s) \ {s[i]}
         /\ IsInjective(RemoveAt(s, i))
<1> DEFINE t == RemoveAt(s, i)
<1>1. /\ t \in Seq(S) /\ Len(t) = Len(s) - 1
      /\ \A k \in 1 .. Len(t) : t[k] = IF k < i THEN s[k] ELSE s[k + 1]
  <2> DEFINE a == SubSeq(s, 1, i - 1)
             b == SubSeq(s, i + 1, Len(s))
  <2>1. i \in 1 .. Len(s) /\ Len(s) \in Nat
    OBVIOUS
  <2>2. /\ a \in Seq(S) /\ Len(a) = i - 1
        /\ \A k \in 1 .. (i - 1) : a[k] = s[k]
    BY <2>1
  <2>3. /\ b \in Seq(S) /\ Len(b) = Len(s) - i
        /\ \A k \in 1 .. (Len(s) - i) : b[k] = s[i + k]
    BY <2>1
  <2>4. t = a \o b
    BY DEF RemoveAt
  <2> HIDE DEF a, b, t
  <2>5. /\ t \in Seq(S) /\ Len(t) = Len(a) + Len(b)
        /\ \A k \in 1 .. Len(a) + Len(b) : t[k] = IF k <= Len(a) THEN a[k] ELSE b[k - Len(a)]
    BY <2>2, <2>3, <2>4, ConcatProperties, Zenon
  <2>6. Len(t) = Len(s) - 1
    BY <2>1, <2>2, <2>3, <2>5
  <2>7. ASSUME NEW k \in 1 .. Len(t) PROVE t[k] = IF k < i THEN s[k] ELSE s[k + 1]
    <3>1. CASE k < i
      BY <2>1, <2>2, <2>3, <2>5, <3>1
    <3>2. CASE k >= i
      <4> k \in Int /\ i \in Int /\ Len(s) \in Int
        BY <2>1, <2>6
      <4>0. k \in 1 .. Len(a) + Len(b) /\ ~(k <= Len(a))
        BY <2>1, <2>2, <2>3, <2>5, <3>2
      <4>1. /\ k - (i - 1) \in 1 .. (Len(s) - i)
            /\ t[k] = b[k - (i - 1)] /\ i + (k - (i - 1)) = k + 1
        <5>1. t[k] = b[k - Len(a)]
          BY <2>5, <4>0
        <5>2. k - (i - 1) \in 1 .. (Len(s) - i)
          BY <2>1, <2>6, <3>2
        <5> QED BY <2>2, <5>1, <5>2
      <4>2. b[k - (i - 1)] = s[i + (k - (i - 1))]
        BY <2>3, <4>1
      <4>3. ~(k < i)
        BY <2>1, <2>6, <3>2
      <4> QED BY <4>1, <4>2, <4>3
    <3> QED BY <2>1, <2>6, <3>1, <3>2
  <2> QED BY <2>5, <2>6, <2>7
<1>2. DOMAIN t = 1 .. (Len(s) - 1) /\ DOMAIN s = 1 .. Len(s)
  BY <1>1
<1> HIDE DEF t
<1>3. \A k \in DOMAIN t : t[k] \in Range(s) \ {s[i]}
  BY <1>1, <1>2 DEF Range, IsInjective
<1>4. ASSUME NEW k \in DOMAIN s, s[k] # s[i] PROVE s[k] \in Range(t)
  <2>1. CASE k < i
    BY <1>1, <1>2, <2>1 DEF Range
  <2>2. CASE k > i
    <3>1. k - 1 \in DOMAIN t /\ t[k - 1] = s[k]
      BY <1>1, <1>2, <2>2
    <3> QED BY <3>1 DEF Range
  <2> QED BY <1>4, <1>2, <2>1, <2>2
<1>5. IsInjective(t)
  <2> DEFINE from(k) == IF k < i THEN k ELSE k + 1
  <2>1. \A k \in DOMAIN t : from(k) \in DOMAIN s /\ t[k] = s[from(k)]
    BY <1>1, <1>2
  <2>2. \A k, l \in DOMAIN t : from(k) = from(l) => k = l
    BY <1>2, <1>1
  <2> HIDE DEF from
  <2> QED BY <2>1, <2>2 DEF IsInjective
<1> QED BY <1>3, <1>4, <1>5 DEF Range, t

(***************************************************************************)
(* Who waits has called.                                                   *)
(***************************************************************************)
LEMMA WaitingCalled == TypeOK => Waiting \subseteq called
  BY RangeOfSeq DEF TypeOK, Waiting

(***************************************************************************)
(* A call that waits nowhere and holds nothing comes to one place by the   *)
(* loop of acquire().                                                      *)
(***************************************************************************)
LEMMA TakeOrWaitPlace ==
  ASSUME NEW S, waiters \in Seq(S), NEW r \in S, TakeOrWait(r),
         IsInjective(waiters), r \notin Range(waiters)
  PROVE  /\ IsInjective(waiters')
         /\ \/ Free /\ Range(waiters') = Range(waiters) /\ holders' = holders \cup {r}
            \/ ~Free /\ Range(waiters') = Range(waiters) \cup {r} /\ holders' = holders
<1>1. CASE Free
  BY <1>1 DEF TakeOrWait
<1>2. CASE ~Free
  <2>1. waiters' = Append(waiters, r) /\ holders' = holders
    BY <1>2 DEF TakeOrWait
  <2>2. /\ Range(Append(waiters, r)) = Range(waiters) \cup {r}
        /\ IsInjective(Append(waiters, r))
    BY AppendRange
  <2> QED BY <1>2, <2>1, <2>2
<1> QED BY <1>1, <1>2

(***************************************************************************)
(* What a step of each kind does to who waits and who holds.  These are    *)
(* the facts OnePlace and the refinement rest on.                          *)
(***************************************************************************)
LEMMA AcquirePlaces ==
  ASSUME TypeOK, OnePlace, NEW r \in Requests, Acquire(r)
  PROVE  /\ OnePlace'
         /\ r \notin Waiting \cup holders
         /\ \/ Free /\ Waiting' = Waiting /\ holders' = holders \cup {r}
            \/ ~Free /\ Waiting' = Waiting \cup {r} /\ holders' = holders
<1>1. r \notin Waiting /\ r \notin holders /\ woken' = woken
  BY WaitingCalled DEF Acquire, TypeOK
<1>2. waiters \in Seq(called \cup {r})
  <2>1. called \subseteq called \cup {r}
    OBVIOUS
  <2> QED BY <2>1, SeqMonotonic, Zenon DEF TypeOK
<1>3. /\ IsInjective(waiters')
      /\ \/ Free /\ Range(waiters') = Range(waiters) /\ holders' = holders \cup {r}
         \/ ~Free /\ Range(waiters') = Range(waiters) \cup {r} /\ holders' = holders
  BY <1>1, <1>2, TakeOrWaitPlace DEF Acquire, OnePlace, Waiting
<1> QED BY <1>1, <1>3 DEF OnePlace, Waiting

LEMMA ResumePlaces ==
  ASSUME TypeOK, OnePlace, Resume
  PROVE  /\ OnePlace'
         /\ Head(woken) \in Waiting /\ Head(woken) \notin holders
         /\ \/ Free /\ Waiting' = Waiting \ {Head(woken)} /\ holders' = holders \cup {Head(woken)}
            \/ ~Free /\ Waiting' = Waiting /\ holders' = holders
<1> DEFINE h == Head(woken)
<1>1. /\ Range(Tail(woken)) = Range(woken) \ {h}
      /\ IsInjective(Tail(woken)) /\ h \in Range(woken) /\ h \in called
  BY TailRange DEF Resume, TypeOK, OnePlace
<1>2. h \notin Range(waiters) /\ h \notin holders
  BY <1>1 DEF OnePlace, Waiting
<1>3. /\ IsInjective(waiters')
      /\ \/ Free /\ Range(waiters') = Range(waiters) /\ holders' = holders \cup {h}
         \/ ~Free /\ Range(waiters') = Range(waiters) \cup {h} /\ holders' = holders
  BY <1>1, <1>2, TakeOrWaitPlace DEF Resume, OnePlace, TypeOK
<1>4. woken' = Tail(woken)
  BY DEF Resume
<1> HIDE DEF h
<1>5. Waiting = Range(waiters) \cup Range(woken)
      /\ Waiting' = Range(waiters') \cup (Range(woken) \ {h})
  BY <1>1, <1>4 DEF Waiting
<1>6. OnePlace'
  BY <1>1, <1>2, <1>3, <1>4, <1>5 DEF OnePlace
<1> QED BY <1>1, <1>2, <1>3, <1>5, <1>6 DEF OnePlace, h

LEMMA LeaveWaitPlaces ==
  ASSUME TypeOK, OnePlace, NEW r \in Requests, LeaveWait(r)
  PROVE  /\ OnePlace'
         /\ r \in Waiting /\ Waiting' = Waiting \ {r}
         /\ Range(waiters') \subseteq Range(waiters)
<1>1. CASE \E i \in DOMAIN waiters : /\ waiters[i] = r
                                     /\ waiters' = RemoveAt(waiters, i)
                                     /\ woken' = woken
  <2>1. /\ Range(waiters') = Range(waiters) \ {r} /\ IsInjective(waiters')
        /\ r \in Range(waiters)
    <3>1. PICK i \in DOMAIN waiters : waiters[i] = r /\ waiters' = RemoveAt(waiters, i)
      BY <1>1
    <3>2. waiters \in Seq(called) /\ IsInjective(waiters)
      BY DEF TypeOK, OnePlace
    <3>3. /\ Range(RemoveAt(waiters, i)) = Range(waiters) \ {waiters[i]}
          /\ IsInjective(RemoveAt(waiters, i))
      BY <3>2, RemoveAtRange
    <3> QED BY <3>1, <3>3 DEF Range
  <2> QED BY <1>1, <2>1 DEF OnePlace, Waiting, LeaveWait
<1>2. CASE \E i \in DOMAIN woken : /\ woken[i] = r
                                   /\ woken' = RemoveAt(woken, i)
                                   /\ waiters' = waiters
  <2>1. /\ Range(woken') = Range(woken) \ {r} /\ IsInjective(woken')
        /\ r \in Range(woken)
    <3>1. PICK i \in DOMAIN woken : woken[i] = r /\ woken' = RemoveAt(woken, i)
      BY <1>2
    <3>2. woken \in Seq(called) /\ IsInjective(woken)
      BY DEF TypeOK, OnePlace
    <3>3. /\ Range(RemoveAt(woken, i)) = Range(woken) \ {woken[i]}
          /\ IsInjective(RemoveAt(woken, i))
      BY <3>2, RemoveAtRange
    <3> QED BY <3>1, <3>3 DEF Range
  <2> QED BY <1>2, <2>1 DEF OnePlace, Waiting, LeaveWait
<1> QED BY <1>1, <1>2 DEF LeaveWait

LEMMA ReleasePlaces ==
  ASSUME TypeOK, OnePlace, NEW r \in Requests, Release(r)
  PROVE  /\ OnePlace'
         /\ Waiting' = Waiting /\ holders' = holders \ {r} /\ r \in holders
<1>1. /\ Range(woken \o waiters) = Range(woken) \cup Range(waiters)
      /\ IsInjective(woken \o waiters)
  <2>1. Range(woken \o waiters) = Range(woken) \cup Range(waiters)
    BY RangeConcatenation DEF TypeOK
  <2>2. IsInjective(woken \o waiters)
    <3>1. ASSUME NEW a \in DOMAIN (woken \o waiters), NEW b \in DOMAIN (woken \o waiters),
                 (woken \o waiters)[a] = (woken \o waiters)[b]
          PROVE  a = b
      <4> DEFINE n == Len(woken)
                 m == Len(waiters)
      <4>1. /\ DOMAIN (woken \o waiters) = 1 .. n + m /\ n \in Nat /\ m \in Nat
            /\ DOMAIN woken = 1 .. n /\ DOMAIN waiters = 1 .. m
            /\ \A k \in 1 .. n + m : (woken \o waiters)[k] = IF k <= n THEN woken[k] ELSE waiters[k - n]
        BY ConcatProperties DEF TypeOK
      <4>2. \A k \in 1 .. n, l \in 1 .. m : woken[k] # waiters[l]
        BY <4>1 DEF OnePlace, Range
      <4>3. /\ \A k, l \in 1 .. n : woken[k] = woken[l] => k = l
            /\ \A k, l \in 1 .. m : waiters[k] = waiters[l] => k = l
        BY <4>1 DEF OnePlace, IsInjective
      <4>4. a \in 1 .. n + m /\ b \in 1 .. n + m
        BY <4>1
      <4> HIDE DEF n, m
      <4>5. CASE a <= n /\ b <= n
        BY <3>1, <4>1, <4>3, <4>4, <4>5
      <4>6. CASE a > n /\ b > n
        <5>1. a - n \in 1 .. m /\ b - n \in 1 .. m
          BY <4>1, <4>4, <4>6
        <5>2. waiters[a - n] = waiters[b - n]
          BY <3>1, <4>1, <4>4, <4>6
        <5> QED BY <4>1, <4>3, <4>4, <5>1, <5>2
      <4>7. CASE a <= n /\ b > n
        <5>1. a \in 1 .. n /\ b - n \in 1 .. m
          BY <4>1, <4>4, <4>7
        <5> QED BY <3>1, <4>1, <4>2, <4>4, <4>7, <5>1
      <4>8. CASE a > n /\ b <= n
        <5>1. b \in 1 .. n /\ a - n \in 1 .. m
          BY <4>1, <4>4, <4>8
        <5> QED BY <3>1, <4>1, <4>2, <4>4, <4>8, <5>1
      <4> QED BY <4>1, <4>4, <4>5, <4>6, <4>7, <4>8
    <3> QED BY <3>1 DEF IsInjective
  <2> QED BY <2>1, <2>2
<1>2. Range(waiters') = {} /\ IsInjective(waiters') /\ woken' = woken \o waiters
  BY DEF Release, Range, IsInjective
<1> QED BY <1>1, <1>2 DEF Release, OnePlace, Waiting

(***************************************************************************)
(* OnePlace holds at the start and every step keeps it.                    *)
(***************************************************************************)
LEMMA PlaceInit == Init => OnePlace
  BY DEF Init, OnePlace, IsInjective, Range, Waiting

LEMMA PlaceStep == TypeOK /\ OnePlace /\ [Next]_vars => OnePlace'
<1> SUFFICES ASSUME TypeOK, OnePlace, [Next]_vars PROVE OnePlace'
  OBVIOUS
<1>1. CASE UNCHANGED vars
  BY <1>1 DEF vars, OnePlace, Waiting
<1> QED BY <1>1, AcquirePlaces, ResumePlaces, LeaveWaitPlaces, ReleasePlaces
        DEF Next, TimeOut, Abandon

(***************************************************************************)
(* A call of acquire() is in one place at a time, so that it is granted    *)
(* one slot at most (gate.py:121-158).                                     *)
(***************************************************************************)
THEOREM OnePlaceAlways == Spec => []OnePlace
<1>1. Init => TypeOK /\ OnePlace
  BY TypeInit, PlaceInit
<1>2. TypeOK /\ OnePlace /\ [Next]_vars => (TypeOK /\ OnePlace)'
  BY TypeStep, PlaceStep
<1> QED BY <1>1, <1>2, PTL DEF Spec

(***************************************************************************)
(* Preemption misses nobody: a background call can only be granted a slot  *)
(* after a release, a release wakes every turn that sleeps, and a turn     *)
(* tells the holders again before it sleeps again (gate.py:137-158).       *)
(***************************************************************************)
LEMMA ToldStep ==
  TypeOK /\ OnePlace /\ SlotInv /\ SleepingTurnHasTold /\ [Next]_vars => SleepingTurnHasTold'
<1> SUFFICES ASSUME TypeOK, OnePlace, SlotInv, SleepingTurnHasTold, [Next]_vars
             PROVE  SleepingTurnHasTold'
  OBVIOUS
<1>1. ASSUME NEW S, waiters \in Seq(S), NEW r \in S, r \notin Range(waiters),
             PreemptLower(r), TakeOrWait(r)
      PROVE  SleepingTurnHasTold'
  <2>1. CASE Free
    <3>1. waiters = <<>> /\ waiters' = waiters
      BY <1>1, <2>1 DEF SlotInv, NoSleeperBesideFreeSlot, TakeOrWait
    <3>2. Range(waiters') = {}
      BY <3>1 DEF Range
    <3> QED BY <3>2 DEF SleepingTurnHasTold
  <2>2. CASE ~Free
    <3>1. Range(waiters') = Range(waiters) \cup {r} /\ holders' = holders
      BY <1>1, <2>2, TakeOrWaitPlace DEF OnePlace
    <3>2. CASE r \in UserTurns
      BY <1>1, <3>1, <3>2 DEF SleepingTurnHasTold, PreemptLower
    <3>3. CASE r \notin UserTurns
      BY <1>1, <3>1, <3>3 DEF SleepingTurnHasTold, PreemptLower
    <3> QED BY <3>2, <3>3
  <2> QED BY <2>1, <2>2
<1>2. ASSUME NEW r \in Requests, Acquire(r) PROVE SleepingTurnHasTold'
  <2>1. waiters \in Seq(called \cup {r})
    <3>1. called \subseteq called \cup {r}
      OBVIOUS
    <3> QED BY <3>1, SeqMonotonic, Zenon DEF TypeOK
  <2>2. r \notin Range(waiters)
    BY <1>2, AcquirePlaces DEF Waiting
  <2> QED BY <1>1, <1>2, <2>1, <2>2 DEF Acquire
<1>3. ASSUME Resume PROVE SleepingTurnHasTold'
  <2>1. Head(woken) \in called /\ Head(woken) \in Range(woken)
    BY <1>3, TailRange DEF Resume, TypeOK, OnePlace
  <2>2. Head(woken) \notin Range(waiters)
    BY <2>1 DEF OnePlace
  <2> QED BY <1>1, <1>3, <2>1, <2>2 DEF Resume, TypeOK
<1>4. ASSUME NEW r \in Requests, LeaveWait(r) PROVE SleepingTurnHasTold'
  BY <1>4, LeaveWaitPlaces DEF LeaveWait, SleepingTurnHasTold
<1>5. ASSUME NEW r \in Requests, Release(r) PROVE SleepingTurnHasTold'
  BY <1>5 DEF Release, SleepingTurnHasTold, Range
<1>6. CASE UNCHANGED vars
  BY <1>6 DEF vars, SleepingTurnHasTold
<1> QED BY <1>2, <1>3, <1>4, <1>5, <1>6 DEF Next, TimeOut, Abandon

\* Everything above at once.
GateInv == TypeOK /\ OnePlace /\ SlotInv /\ SleepingTurnHasTold

(***************************************************************************)
(* The inductive invariant of the gate: the bound on the holders needs     *)
(* TypeOK, and what a sleeping turn has told needs that nobody sleeps      *)
(* beside a free slot and that a call is in one place.                     *)
(***************************************************************************)
LEMMA GateInvariant == Spec => []GateInv
<1>1. Init => GateInv
  BY TypeInit, PlaceInit, SlotInit DEF GateInv, Init, SleepingTurnHasTold, Range
<1>2. GateInv /\ [Next]_vars => GateInv'
  BY TypeStep, PlaceStep, SlotStep, ToldStep DEF GateInv
<1> QED BY <1>1, <1>2, PTL DEF Spec

(***************************************************************************)
(* While a user turn sleeps, every background holder has been told         *)
(* (gate.py:137-158).                                                      *)
(***************************************************************************)
THEOREM SleepingTurnAlwaysTold == Spec => []SleepingTurnHasTold
  BY GateInvariant, PTL DEF GateInv

(***************************************************************************)
(* INSTANCE gives the pool a Cardinality of its own; it is the same one.   *)
(***************************************************************************)
LEMMA PoolCardinality == \A S : Pool!Cardinality(S) = Cardinality(S)
  BY DEF Cardinality, Pool!Cardinality

(***************************************************************************)
(* The gate implements the pool: every step of the gate is a step of the   *)
(* pool or leaves it alone (gate.py:109-188).                              *)
(***************************************************************************)
LEMMA PoolStep == GateInv /\ [Next]_vars => [Pool!PoolNext]_(Pool!poolVars)
<1> SUFFICES ASSUME GateInv, [Next]_vars PROVE [Pool!PoolNext]_(Pool!poolVars)
  OBVIOUS
<1> USE DEF GateInv
<1> DEFINE Over == called \ (Waiting \cup holders)
<1>0. Requests = Pool!Clients
  BY DEF Requests, Pool!Clients
<1>1. ASSUME NEW r \in Requests, Acquire(r) PROVE Pool!PoolNext
  <2>1. IF r \in UserTurns THEN Pool!MayTell ELSE cancelled' = cancelled
    BY <1>1 DEF Acquire, PreemptLower, Pool!MayTell
  <2>2. r \notin Waiting \cup holders /\ r \notin called /\ called' = called \cup {r}
    BY <1>1, AcquirePlaces DEF Acquire
  <2>3. CASE Free
    <3>1. Waiting' = Waiting /\ holders' = holders \cup {r}
      BY <1>1, <2>3, AcquirePlaces
    <3>2. Over' = Over
      BY <2>2, <3>1
    <3>3. Pool!Grant(r)
      BY <2>1, <2>2, <2>3, <3>1, <3>2, PoolCardinality DEF Pool!Grant, Free
    <3> QED BY <1>0, <3>3 DEF Pool!PoolNext
  <2>4. CASE ~Free
    <3>1. Waiting' = Waiting \cup {r} /\ holders' = holders
      BY <1>1, <2>4, AcquirePlaces
    <3>2. Over' = Over
      BY <2>2, <3>1
    <3>3. Pool!Ask(r)
      BY <2>1, <2>2, <3>1, <3>2 DEF Pool!Ask
    <3> QED BY <1>0, <3>3 DEF Pool!PoolNext
  <2> QED BY <2>3, <2>4
<1>2. ASSUME Resume PROVE [Pool!PoolNext]_(Pool!poolVars)
  <2> DEFINE h == Head(woken)
  <2>1. h \in Waiting /\ h \notin holders /\ h \in Requests /\ called' = called
    BY <1>2, ResumePlaces, WaitingCalled DEF Resume, TypeOK
  <2>2. IF h \in UserTurns THEN Pool!MayTell ELSE cancelled' = cancelled
    BY <1>2 DEF Resume, PreemptLower, Pool!MayTell
  <2>3. CASE Free
    <3>1. Waiting' = Waiting \ {h} /\ holders' = holders \cup {h}
      BY <1>2, <2>3, ResumePlaces
    <3>2. Over' = Over /\ h \notin Over
      BY <2>1, <3>1
    <3> HIDE DEF h
    <3>3. Pool!Grant(h)
      BY <2>1, <2>2, <2>3, <3>1, <3>2, PoolCardinality DEF Pool!Grant, Free
    <3> QED BY <1>0, <2>1, <3>3 DEF Pool!PoolNext
  <2>4. CASE ~Free
    <3>1. Waiting' = Waiting /\ holders' = holders
      BY <1>2, <2>4, ResumePlaces
    <3>2. Over' = Over
      BY <2>1, <3>1
    <3> HIDE DEF h
    <3>3. CASE h \in UserTurns
      <4>1. Pool!Remind(h)
        BY <2>1, <2>2, <3>1, <3>2, <3>3 DEF Pool!Remind
      <4> QED BY <1>0, <2>1, <4>1 DEF Pool!PoolNext
    <3>4. CASE h \notin UserTurns
      BY <2>2, <3>1, <3>2, <3>4 DEF Pool!poolVars
    <3> QED BY <3>3, <3>4
  <2> QED BY <2>3, <2>4
<1>3. ASSUME NEW r \in Requests, LeaveWait(r) PROVE Pool!PoolNext
  <2>1. /\ r \in Waiting /\ Waiting' = Waiting \ {r} /\ r \notin holders /\ r \in called
        /\ UNCHANGED <<called, holders, cancelled>>
    BY <1>3, LeaveWaitPlaces, WaitingCalled DEF LeaveWait, OnePlace
  <2>2. Over' = Over \cup {r}
    BY <2>1
  <2>3. Pool!GiveUp(r)
    BY <2>1, <2>2 DEF Pool!GiveUp
  <2> QED BY <1>0, <2>3 DEF Pool!PoolNext
<1>4. ASSUME NEW r \in Requests, Release(r) PROVE Pool!PoolNext
  <2>1. /\ r \in holders /\ holders' = holders \ {r} /\ Waiting' = Waiting
        /\ r \notin Waiting /\ r \in called /\ UNCHANGED <<called, cancelled>>
    BY <1>4, ReleasePlaces DEF Release, OnePlace, TypeOK
  <2>2. Over' = Over \cup {r}
    BY <2>1
  <2>3. Pool!GiveBack(r)
    BY <2>1, <2>2 DEF Pool!GiveBack
  <2> QED BY <1>0, <2>3 DEF Pool!PoolNext
<1>5. CASE UNCHANGED vars
  BY <1>5 DEF vars, Waiting, Pool!poolVars
<1> QED BY <1>1, <1>2, <1>3, <1>4, <1>5 DEF Next, TimeOut, Abandon

(***************************************************************************)
(* The gate keeps the pool's promise for every set of turns and jobs.      *)
(***************************************************************************)
THEOREM GateImplementsPool == Spec => ImplementsPool
<1>1. Init => Pool!PoolInit
  BY DEF Init, Pool!PoolInit, Waiting, Range
<1>2. GateInv /\ [Next]_vars => [Pool!PoolNext]_(Pool!poolVars)
  BY PoolStep
<1> QED BY <1>1, <1>2, GateInvariant, PTL DEF Spec, ImplementsPool, Pool!PoolSpec
=============================================================================
