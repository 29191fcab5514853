---------------------------- MODULE Conversation ----------------------------
(***************************************************************************)
(* One conversation of the web door: the session object the manager holds  *)
(* in memory, its file, the user turns that write it under a lease, and    *)
(* the compactions they leave behind (core/sessions/session_manager.py,    *)
(* core/sessions/compactor.py, the steps of turn_adapters.py that touch    *)
(* the session).                                                           *)
(*                                                                         *)
(* A turn is split where the code awaits.  A message is its role and its   *)
(* turn; a summary is the set of messages it covers.  A compaction is      *)
(* named by the turn that queued it; its queue is PostCommitQueue seen     *)
(* from one session and one step: one pending job, one running job on each *)
(* side, and other sessions that delay or preempt a job at any time.       *)
(***************************************************************************)
EXTENDS Naturals, Sequences, FiniteSets

CONSTANTS Turns,         \* user turns of the conversation
          Engines,       \* the engines asked: a subset of {"local", "cloud"}
          Keep,          \* ChatSession.COMPACT_KEEP
          MaxAttempts,   \* post_commit.MAX_ATTEMPTS
          MaxTakeovers,  \* bound: leases forced or expired
          MaxDeletes,    \* bound: deletions of the conversation
          MaxRestarts,   \* bound: restarts of the server
          SavesFail,     \* may the file fail to be written or removed?
          None

ASSUME EnginesAssumption == Engines \subseteq {"local", "cloud"}
ASSUME KeepAssumption == Keep \in Nat /\ MaxAttempts \in Nat \ {0}
ASSUME BoundsAssumption == MaxTakeovers \in Nat /\ MaxDeletes \in Nat /\ MaxRestarts \in Nat
ASSUME SavesFailAssumption == SavesFail \in BOOLEAN

Messages == {"user", "assistant"} \X Turns
Objects == 1 .. 1 + MaxDeletes + MaxRestarts
Files == [msgs : Seq(Messages), covered : SUBSET Messages]
Records == [msgs : Seq(Messages), covered : SUBSET Messages, said : SUBSET Messages]

ASSUME NoneAssumption == None \notin Turns /\ None \notin Nat /\ None \notin Files \cup Records

VARIABLES current,    \* _sessions[id]: the object the manager holds, or None
          made,       \* objects made so far
          msgs,       \* ChatSession.messages
          covered,    \* the messages context_summary stands for
          lease,      \* ChatSession.lease: the turn that holds it, or None
          expired,    \* objects whose lease has passed its TTL
          consent,    \* objects that remember the consent to the hosted engine
          disk,       \* the file: what it holds, or None
          filed,      \* history: what was added to the object last written there
          behind,     \* history: the last write or removal of the file failed
          pc,         \* where each turn is
          obj,        \* ctx.session
          engine,     \* the engine a turn asks for
          asks,       \* turns whose request carries the consent itself
          waiting,    \* the pending compaction of the session, or None
          running,    \* the compaction each worker has taken, or None
          slot,       \* sides whose running compaction holds its gate's slot
          cancelled, attempts, snap, seen,   \* of a compaction
          overtaken,  \* history: turns whose lease was forced or expired
          deletedUnder, \* history: the conversation was deleted under a turn
          overlap,    \* history: two compactions have run at once
          written,    \* history: what was added to each object
          deletes, restarts

fileVars == <<disk, filed, behind>>
sessionVars == <<current, made, msgs, covered, written, fileVars>>
leaseVars == <<lease, expired, consent, overtaken>>
turnVars == <<pc, obj, engine, asks>>
jobVars == <<waiting, running, slot, cancelled, attempts, snap, seen, overlap>>
faultVars == <<deletedUnder, deletes, restarts>>
vars == <<sessionVars, leaseVars, turnVars, jobVars, faultVars>>

Elems(s) == {s[i] : i \in 1 .. Len(s)}
Image(o) == [msgs |-> msgs[o], covered |-> covered[o]]
Active == {t \in Turns : pc[t] \in {"held", "asked", "ready", "serving", "answered", "told"}}
Abandoned == {t \in Turns : pc[t] = "unread"}

Init ==
  /\ current = None /\ made = 0
  /\ disk = None /\ filed = {} /\ behind = FALSE
  /\ msgs = [o \in Objects |-> <<>>] /\ covered = [o \in Objects |-> {}]
  /\ written = [o \in Objects |-> {}]
  /\ lease = [o \in Objects |-> None] /\ expired = {} /\ consent = {} /\ overtaken = {}
  /\ pc = [t \in Turns |-> "new"] /\ obj = [t \in Turns |-> None]
  /\ engine = [t \in Turns |-> None] /\ asks = {}
  /\ waiting = None /\ running = [q \in Engines |-> None] /\ slot = {}
  /\ cancelled = {} /\ attempts = [t \in Turns |-> 0]
  /\ snap = [t \in Turns |-> 0] /\ seen = [t \in Turns |-> {}]
  /\ overlap = FALSE /\ deletedUnder = FALSE /\ deletes = 0 /\ restarts = 0

-----------------------------------------------------------------------------
(* The file.                                                               *)

\* _save_session_to_disk: the object, whether it is the manager's or not.  The
\* write is atomic; one that fails is logged, and the file stays as it was.
Save(o) ==
  \/ /\ disk' = [msgs |-> msgs'[o], covered |-> covered'[o]]
     /\ filed' = written'[o] /\ behind' = FALSE
  \/ SavesFail /\ behind' = TRUE /\ UNCHANGED <<disk, filed>>

\* Bug: the background job saves its object like a turn does.
SaveAlways(o) == Save(o)

\* save_session_if_live: only if it is still the manager's.
SaveIfLive(o) == IF current = o THEN Save(o) ELSE UNCHANGED fileVars

\* _delete_session_from_disk: a removal that fails is logged too.
Unlink ==
  \/ disk' = None /\ filed' = {} /\ behind' = FALSE
  \/ SavesFail /\ disk # None /\ behind' = TRUE /\ UNCHANGED <<disk, filed>>

-----------------------------------------------------------------------------
(* The session step: get_or_create_session, the cloud gate, the lease, the *)
(* preemption of the session's background work.                            *)

\* get_or_create_session: the object, which is made and saved if there is none.
Opened == IF current = None THEN made + 1 ELSE current

GetOrCreate ==
  IF current # None THEN UNCHANGED sessionVars
  ELSE /\ made' = made + 1
       /\ current' = made + 1
       /\ UNCHANGED <<msgs, covered, written>>
       /\ Save(made + 1)

\* _cloud_gate: may the turn go to a provider?  A local one takes the consent away.
CloudRefused(t, o) == engine'[t] = "cloud" /\ t \notin asks' /\ o \notin consent

ConsentAfter(t, o) ==
  IF engine'[t] = "local" THEN consent \ {o}
  ELSE IF CloudRefused(t, o) THEN consent ELSE consent \cup {o}

\* acquire_lease: another turn's live lease refuses, unless it is forced.
LeaseRefuses(t, o) == lease[o] \notin {None, t} /\ o \notin expired

\* PostCommitQueue.preempt, called if a compaction of the session is running.
Signalled ==
  LET run == {running[q] : q \in Engines} \ {None} IN
  IF run = {} THEN {} ELSE run \cup ({waiting} \ {None})

OpenTurn(t, q) ==
  /\ pc[t] = "new"
  /\ engine' = [engine EXCEPT ![t] = q]
  /\ asks' \in {asks, asks \cup {t}}
  /\ obj' = [obj EXCEPT ![t] = Opened]
  /\ GetOrCreate
  /\ consent' = ConsentAfter(t, Opened)

\* The turn is refused: 403 by the cloud gate, or 409 by the lease.
SessionRefused(t, q) ==
  /\ OpenTurn(t, q)
  /\ CloudRefused(t, Opened) \/ LeaseRefuses(t, Opened)
  /\ pc' = [pc EXCEPT ![t] = "done"]
  /\ UNCHANGED <<lease, expired, overtaken, jobVars, faultVars>>

\* The lease is granted; a forced takeover or an expired lease leaves its
\* former holder without one.
SessionGranted(t, q, force) ==
  /\ OpenTurn(t, q)
  /\ ~CloudRefused(t, Opened)
  /\ force \/ ~LeaseRefuses(t, Opened)
  /\ force => LeaseRefuses(t, Opened) /\ Cardinality(overtaken) < MaxTakeovers
  /\ overtaken' = IF force \/ Opened \in expired
                  THEN overtaken \cup ({lease[Opened]} \cap Active) ELSE overtaken
  /\ lease' = [lease EXCEPT ![Opened] = t]
  /\ expired' = expired \ {Opened}
  /\ pc' = [pc EXCEPT ![t] = "held"]
  /\ cancelled' = cancelled \cup Signalled
  /\ UNCHANGED <<waiting, running, slot, attempts, snap, seen, overlap, faultVars>>

-----------------------------------------------------------------------------
(* The steps that write.                                                   *)

Add(o, role, t) ==
  /\ msgs' = [msgs EXCEPT ![o] = Append(@, <<role, t>>)]
  /\ written' = [written EXCEPT ![o] = @ \cup {<<role, t>>}]
  /\ UNCHANGED <<current, made, covered>>

\* Bug: the lease is cleared whoever holds it.
ReleaseAny(t) ==
  /\ lease' = IF current # None THEN [lease EXCEPT ![current] = None] ELSE lease
  /\ expired' = expired \ {current}
  /\ UNCHANGED overtaken

\* release_lease: the manager's object under the id, and only this turn's.
Release(t) ==
  /\ lease' = IF current # None /\ lease[current] = t THEN [lease EXCEPT ![current] = None] ELSE lease
  /\ expired' = IF current # None /\ lease[current] = t THEN expired \ {current} ELSE expired
  /\ UNCHANGED overtaken

\* persist_user_turn
PersistUser(t) ==
  /\ pc[t] = "held"
  /\ Add(obj[t], "user", t)
  /\ Save(obj[t])
  /\ pc' = [pc EXCEPT ![t] = "asked"]
  /\ UNCHANGED <<leaseVars, obj, engine, asks, jobVars, faultVars>>

\* The engine step asks the cloud gate again; a refusal ends the turn.
EngineStep(t) ==
  /\ pc[t] = "asked"
  /\ UNCHANGED <<engine, asks, obj>>
  /\ consent' = ConsentAfter(t, obj[t])
  /\ IF CloudRefused(t, obj[t])
     THEN pc' = [pc EXCEPT ![t] = "refused"] /\ Release(t)
     ELSE pc' = [pc EXCEPT ![t] = "ready"] /\ UNCHANGED <<lease, expired, overtaken>>
  /\ UNCHANGED <<sessionVars, jobVars, faultVars>>

\* Any step may fail, or the client leave before the first word or after the
\* answer is saved: the door gives the lease back (core/turn/lease.py).
Fail(t) ==
  /\ t \in Active
  /\ pc' = [pc EXCEPT ![t] = "done"]
  /\ Release(t)
  /\ UNCHANGED <<sessionVars, consent, obj, engine, asks, jobVars, faultVars>>

\* The turn is granted its gate's slot; the hosted gate has room for both, and
\* the job beside it is told to stop.
Serve(t) ==
  /\ pc[t] = "ready"
  /\ engine[t] = "local" => "local" \notin slot
  /\ pc' = [pc EXCEPT ![t] = "serving"]
  /\ cancelled' = IF engine[t] \in slot THEN cancelled \cup {running[engine[t]]} ELSE cancelled
  /\ UNCHANGED <<sessionVars, leaseVars, obj, engine, asks, waiting, running, slot, attempts, snap, seen, overlap, faultVars>>

\* The response is let go before its body is ever asked for: none of the body's
\* code runs, and nobody gives the lease back before its TTL.
Unread(t) ==
  /\ pc[t] = "ready"
  /\ pc' = [pc EXCEPT ![t] = "unread"]
  /\ UNCHANGED <<sessionVars, leaseVars, obj, engine, asks, jobVars, faultVars>>

\* persist_assistant_turn, of a whole answer.
Answer(t) ==
  /\ pc[t] = "serving"
  /\ Add(obj[t], "assistant", t)
  /\ Save(obj[t])
  /\ pc' = [pc EXCEPT ![t] = "answered"]
  /\ UNCHANGED <<leaseVars, obj, engine, asks, jobVars, faultVars>>

\* A memory command answers the turn by itself: the answer is saved.
ShortCircuit(t) ==
  /\ pc[t] = "asked"
  /\ Add(obj[t], "assistant", t)
  /\ Save(obj[t])
  /\ pc' = [pc EXCEPT ![t] = "told"]
  /\ UNCHANGED <<leaseVars, obj, engine, asks, jobVars, faultVars>>

\* Bug (#1106): what a cut turn had said is kept in memory only.
CutUnsaved(t) ==
  /\ pc[t] = "serving"
  /\ Add(obj[t], "assistant", t)
  /\ UNCHANGED fileVars
  /\ Release(t)
  /\ pc' = [pc EXCEPT ![t] = "done"]
  /\ UNCHANGED <<consent, obj, engine, asks, jobVars, faultVars>>

\* persist_assistant_turn, of a turn cut by its client or by its engine: what it
\* had said is saved and the lease given back; no compaction is queued.
Cut(t) ==
  /\ pc[t] = "serving"
  /\ Add(obj[t], "assistant", t)
  /\ Save(obj[t])
  /\ Release(t)
  /\ pc' = [pc EXCEPT ![t] = "done"]
  /\ UNCHANGED <<consent, obj, engine, asks, jobVars, faultVars>>

\* emit: the lease is given back, and with no await between the compaction is
\* the pending one of the session.
Emit(t) ==
  /\ pc[t] = "answered"
  /\ Release(t)
  /\ waiting' = t
  /\ pc' = [pc EXCEPT ![t] = "done"]
  /\ UNCHANGED <<sessionVars, consent, obj, engine, asks, running, slot, cancelled, attempts, snap, seen, overlap, faultVars>>

\* emit, after a memory command: no compaction is queued.
EmitShort(t) ==
  /\ pc[t] = "told"
  /\ Release(t)
  /\ pc' = [pc EXCEPT ![t] = "done"]
  /\ UNCHANGED <<sessionVars, consent, obj, engine, asks, jobVars, faultVars>>

-----------------------------------------------------------------------------
(* The compaction of a turn.                                               *)

JobTake(q) ==
  /\ waiting # None /\ running[q] = None
  /\ engine[waiting] = q
  /\ running' = [running EXCEPT ![q] = waiting]
  /\ waiting' = None
  /\ UNCHANGED <<sessionVars, leaseVars, turnVars, slot, cancelled, attempts, snap, seen, overlap, faultVars>>

\* The job holds the slot: what it is to summarise is measured now.  Nothing, if
\* the history is short or still fits, the consent to the hosted engine is gone,
\* or a hosted job was told to stop before it started.
JobStart(q) ==
  /\ running[q] # None /\ q \notin slot
  /\ q = "local" => \A t \in Turns : pc[t] = "serving" => engine[t] # "local"
  /\ slot' = slot \cup {q}
  /\ overlap' = (overlap \/ slot # {})
  /\ LET t == running[q]
         o == obj[t]
         old == Len(msgs[o]) - Keep IN
       /\ cancelled' = IF attempts[t] > 0 THEN cancelled \ {t} ELSE cancelled
       /\ \/ snap' = [snap EXCEPT ![t] = 0] /\ UNCHANGED seen
          \/ /\ Len(msgs[o]) > Keep
             /\ q = "cloud" => o \in consent /\ t \notin cancelled'
             /\ snap' = [snap EXCEPT ![t] = old]
             /\ seen' = [seen EXCEPT ![t] = covered[o] \cup Elems(SubSeq(msgs[o], 1, old))]
  /\ UNCHANGED <<sessionVars, leaseVars, turnVars, waiting, running, attempts, faultVars>>

\* A user turn of another session wants the slot.
GateSignal(q) ==
  /\ q \in slot
  /\ cancelled' = cancelled \cup {running[q]}
  /\ UNCHANGED <<sessionVars, leaseVars, turnVars, waiting, running, slot, attempts, snap, seen, overlap, faultVars>>

\* apply_compaction: what follows the summarised slice is kept, from its first
\* user message on.
FromUser(s) ==
  LET firsts == {i \in 1 .. Len(s) : s[i][1] = "user" /\ \A j \in 1 .. i - 1 : s[j][1] # "user"} IN
  IF firsts = {} THEN <<>> ELSE SubSeq(s, CHOOSE i \in firsts : TRUE, Len(s))

\* Bug (before C2.2): the last messages at the time it is applied.
KeptByTail(s, n) == FromUser(SubSeq(s, Len(s) - Keep + 1, Len(s)))

Kept(s, n) == FromUser(SubSeq(s, n + 1, Len(s)))

Apply(t) ==
  LET o == obj[t] IN
  /\ msgs' = [msgs EXCEPT ![o] = Kept(@, snap[t])]
  /\ covered' = [covered EXCEPT ![o] = seen[t]]
  /\ UNCHANGED <<current, made, written>>
  /\ SaveIfLive(o)

\* The run ends: the slot is released and what the run had measured goes with it.
JobFree(q) ==
  /\ running' = [running EXCEPT ![q] = None] /\ slot' = slot \ {q}
  /\ snap' = [snap EXCEPT ![running[q]] = 0] /\ seen' = [seen EXCEPT ![running[q]] = {}]

\* The summary is written, and applied unless the job was told to stop.
JobDone(q) ==
  /\ q \in slot /\ running[q] \notin cancelled
  /\ \/ snap[running[q]] > 0 /\ Apply(running[q])
     \/ UNCHANGED sessionVars
  /\ JobFree(q)
  /\ UNCHANGED <<leaseVars, turnVars, waiting, cancelled, attempts, overlap, faultVars>>

\* A job told to stop is queued again while it has attempts left.
JobPreempted(q) ==
  /\ q \in slot /\ running[q] \in cancelled
  /\ IF attempts[running[q]] + 1 < MaxAttempts
     THEN waiting' = running[q] /\ attempts' = [attempts EXCEPT ![running[q]] = @ + 1]
     ELSE UNCHANGED <<waiting, attempts>>
  /\ JobFree(q)
  /\ UNCHANGED <<sessionVars, leaseVars, turnVars, cancelled, overlap, faultVars>>

-----------------------------------------------------------------------------
(* What happens to the session.                                            *)

\* The TTL of the lease passes; nobody renews a lease.
Expire ==
  /\ current # None /\ lease[current] # None /\ current \notin expired
  /\ Cardinality(overtaken) < MaxTakeovers
  /\ expired' = expired \cup {current}
  /\ UNCHANGED <<sessionVars, lease, consent, overtaken, turnVars, jobVars, faultVars>>

\* delete_session, or cleanup_inactive for a conversation kept too long.
Delete ==
  /\ deletes < MaxDeletes
  /\ deletes' = deletes + 1
  /\ current # None
  /\ deletedUnder' = (deletedUnder \/ \E t \in Active : obj[t] = current)
  /\ current' = None /\ Unlink
  /\ UNCHANGED <<made, msgs, covered, written, leaseVars, turnVars, jobVars, restarts>>

\* The server stops at any moment and starts again: _load_sessions reads the
\* file into a new object, without lease or consent.
Restart ==
  /\ restarts < MaxRestarts
  /\ restarts' = restarts + 1
  /\ pc' = [t \in Turns |-> IF pc[t] = "new" THEN "new" ELSE "done"]
  /\ IF disk = None
     THEN current' = None /\ UNCHANGED <<made, msgs, covered, written>>
     ELSE /\ made' = made + 1 /\ current' = made + 1
          /\ msgs' = [msgs EXCEPT ![made + 1] = disk.msgs]
          /\ covered' = [covered EXCEPT ![made + 1] = disk.covered]
          /\ written' = [written EXCEPT ![made + 1] = filed]
  /\ behind' = FALSE
  /\ waiting' = None /\ running' = [q \in Engines |-> None] /\ slot' = {}
  /\ snap' = [t \in Turns |-> 0] /\ seen' = [t \in Turns |-> {}]
  /\ UNCHANGED <<disk, filed, leaseVars, obj, engine, asks, cancelled, attempts, overlap, deletedUnder, deletes>>

Next ==
  \/ \E t \in Turns :
       \/ \E q \in Engines : SessionRefused(t, q) \/ \E force \in BOOLEAN : SessionGranted(t, q, force)
       \/ PersistUser(t) \/ EngineStep(t) \/ Fail(t) \/ Serve(t) \/ Unread(t) \/ Answer(t) \/ Cut(t)
       \/ Emit(t) \/ ShortCircuit(t) \/ EmitShort(t)
  \/ \E q \in Engines : JobTake(q) \/ JobStart(q) \/ GateSignal(q) \/ JobDone(q) \/ JobPreempted(q)
  \/ Expire \/ Delete \/ Restart

Spec == Init /\ [][Next]_vars

-----------------------------------------------------------------------------
SessionTypes ==
  /\ current \in Objects \cup {None} /\ made \in Objects \cup {0}
  /\ msgs \in [Objects -> Seq(Messages)] /\ covered \in [Objects -> SUBSET Messages]
  /\ written \in [Objects -> SUBSET Messages]
  /\ disk \in Files \cup {None} /\ filed \subseteq Messages

LeaseTypes ==
  /\ lease \in [Objects -> Turns \cup {None}]
  /\ expired \subseteq Objects /\ consent \subseteq Objects /\ overtaken \subseteq Turns

Places == {"new", "held", "asked", "ready", "serving", "answered", "told", "refused", "unread", "done"}

TurnTypes ==
  /\ pc \in [Turns -> Places]
  /\ obj \in [Turns -> Objects \cup {None}]
  /\ engine \in [Turns -> Engines \cup {None}] /\ asks \subseteq Turns

JobTypes ==
  /\ waiting \in Turns \cup {None} /\ running \in [Engines -> Turns \cup {None}]
  /\ slot \subseteq {q \in Engines : running[q] # None}
  /\ cancelled \subseteq Turns /\ attempts \in [Turns -> 0 .. MaxAttempts - 1]
  /\ snap \in [Turns -> Nat] /\ seen \in [Turns -> SUBSET Messages]

FaultTypes == deletes \in 0 .. MaxDeletes /\ restarts \in 0 .. MaxRestarts

FlagTypes == overlap \in BOOLEAN /\ deletedUnder \in BOOLEAN /\ behind \in BOOLEAN

TypeOK == SessionTypes /\ LeaseTypes /\ TurnTypes /\ JobTypes /\ FaultTypes /\ FlagTypes

\* A turn that ends (answer, refusal, failure, a client that leaves, a restart)
\* leaves the conversation leased to nobody, or to the turn that took it over
\* (core/turn/lease.py, #1105).  Only a body the server never pulls keeps the
\* lease, until its TTL or a forced takeover.
LeaseEndsWithTurn ==
  current # None /\ lease[current] # None =>
    lease[current] \in Active \cup Abandoned

\* A turn under way whose lease was neither forced nor expired still holds it:
\* no other turn takes it, or gives it back in its place
\* (session_manager.py:733-744).
HolderHolds == \A t \in Active \ overtaken : lease[obj[t]] = t

\* "One live writer per session" (session_manager.py:692), takeovers apart.
OneWriter == \A t, u \in Active \ overtaken : obj[t] = obj[u] => t = u

\* Unless the last attempt to write it failed, the file holds what the manager
\* shows, whoever wrote it last (a turn, a cut, a compaction): a restart then loses
\* nothing, and one good save repairs what failed ones left out
\* (session_manager.py:528-585).  A conversation deleted under a turn is excepted:
\* the turn writes its own object over the file.
FileIsCurrent == current # None /\ ~deletedUnder /\ ~behind => disk = Image(current)

\* A compaction never brings back the file of a deleted conversation: only a
\* turn creates one (session_manager.py:659-671).
JobsBringNothingBack == [][current = None /\ disk = None /\ disk' # None => pc' # pc]_vars

Remembered(o, m) == m \in Elems(msgs[o]) \cup covered[o]

\* compactor.py:162-164: a user turn "must not lose its own message" to a
\* compaction: it is in the history or the summary covers it, and after a restart
\* so is every one that was said when the file was last written.
UserMessagesKept ==
  current # None /\ ~deletedUnder =>
    \A m \in written[current] : m[1] = "user" => Remembered(current, m)

\* The same, as long as the two sides never compact the conversation at once.
OneCompactionKeepsUserMessages == ~overlap => UserMessagesKept

-----------------------------------------------------------------------------
\* The record the manager shows, and the one on file, with what was said in them.
Shown == IF current = None THEN None
         ELSE [msgs |-> msgs[current], covered |-> covered[current], said |-> written[current]]
OnFile == IF disk = None THEN None
          ELSE [msgs |-> disk.msgs, covered |-> disk.covered, said |-> filed]

Record == INSTANCE Transcript
            WITH shown <- Shown, file <- OnFile, void <- deletedUnder \/ overlap

\* The conversation is a Transcript, through takeovers, crossing turns, compactions
\* of a history that grows under them, saves that fail, and restarts: what is said
\* is added at its end, once, each answer after its question; only a summary that
\* covers it, or a deletion, takes any of it away; the file follows each change or,
\* when its write fails, stays at an earlier one, and that is what a restart shows
\* (session_manager.py:262-290, 528-585, compactor.py:162-164).
ImplementsTranscript == Record!TranscriptSpec

=============================================================================
