---------------------------- MODULE MemoryStore ----------------------------
(***************************************************************************)
(* memory/memory: what the server remembers about one user.  remember()    *)
(* writes a profile value or an episodic memory at once and always a       *)
(* staging row; the dreaming cycle (one task, every quarter of an hour)    *)
(* takes the oldest staging rows again, one by one, into the stores, keeps *)
(* the vector index in step and lets the collector archive what weighs     *)
(* least; forget_everything() wipes the user.                              *)
(*                                                                         *)
(* Every commit is a step, because the process may stop between two of     *)
(* them or the next one may fail; but the handlers have no await inside,   *)
(* so another handler runs only where the cycle yields to the loop         *)
(* (LoopFree).  A statement stands for its text: equal statements have one *)
(* content hash and one embedding.  The profile has one attribute, a gate  *)
(* and an extractor have accepted the text, every caller in the code is    *)
(* untrusted, scores and evidence counts are left out, and so are          *)
(* tombstones of more than ninety days.  update_profile(), forget() and    *)
(* delete_profile() have no caller in the code and are not here.           *)
(***************************************************************************)
EXTENDS Naturals, Sequences, FiniteSets

CONSTANTS Statements,   \* what the user says: records of a kind and a value
          Nothing,      \* the profile attribute is not set
          BatchSize,    \* rows a cycle takes (LIMIT 10)
          MaxSaid,      \* bound: staging rows of one behaviour
          MaxFaults,    \* bound: database and index errors, and stops of the server
          MaxArchived,  \* bound: memories the collector archives
          MaxWipes      \* bound: calls of forget_everything()

Kinds == {"claim", "correction", "health", "episode"}

ASSUME StatementsAssumption ==
  \A s \in Statements : s.kind \in Kinds /\ s.value # Nothing
ASSUME BoundsAssumption ==
  /\ BatchSize \in Nat \ {0}
  /\ MaxSaid \in Nat /\ MaxFaults \in Nat /\ MaxArchived \in Nat /\ MaxWipes \in Nat

Values == {s.value : s \in Statements}
ASSUME NothingAssumption == Nothing \notin [value : Values, said : Nat]
Decisions == {"upsert_profile", "promote_episodic", "stage_only"}
Unprocessed == {"pending", "leased", "stale"}   \* stale: leased five minutes ago or more
CycleSteps == {"lease", "store", "mark", "turn", "sync", "synced", "expire",
               "archive", "unindex", "bury"}

VARIABLES profile,     \* the attribute's row
          memories,    \* the episodic table, in the order of insertion
          staging,     \* the staging table, in the order of creation
          index,       \* memories that have a point in the vector index
          tombstones,  \* texts with a tombstone
          at,          \* where the dreaming cycle is
          batch,       \* rows it has selected and not looked at yet, and the one at work
          doomed,      \* memories the collector is archiving
          wiping,      \* forget_everything() has deleted the points, not yet the rows
          faults, wipes,
          told,        \* history: the profile value last accepted, with those whose staging failed since
          late,        \* history: leased rows a cycle passed over
          snatched,    \* history: rows a cycle held while they were wiped
          torn,        \* history: rows staged before a wipe that broke off
          lost         \* history: memories whose point a wipe deleted

tables == <<profile, memories, staging, tombstones>>
cycle == <<at, batch, doomed>>
counters == <<faults, wipes>>
history == <<told, late, snatched, torn, lost>>
vars == <<tables, index, cycle, wiping, counters, history>>

Rows == 1 .. Len(staging)
Stored == 1 .. Len(memories)
Active == {m \in Stored : memories[m].state = "active"}

Init ==
  /\ profile = Nothing /\ memories = <<>> /\ staging = <<>>
  /\ index = {} /\ tombstones = {}
  /\ at = "boot" /\ batch = {} /\ doomed = {} /\ wiping = FALSE
  /\ faults = 0 /\ wipes = 0
  /\ told = {Nothing} /\ late = {} /\ snatched = {} /\ torn = {} /\ lost = {}

\* Where the loop may run another handler: before, between and after cycles, and
\* after each row (await asyncio.sleep(0)).
LoopFree == at \in {"boot", "idle", "turn"} /\ ~wiping

Fault == faults < MaxFaults /\ faults' = faults + 1

NewMemory(text, row, said) ==
  [text |-> text, of |-> row, said |-> said, state |-> "active", synced |-> FALSE]
NewRow(text, decision) ==
  [text |-> text, decision |-> decision, said |-> wipes, status |-> "pending", old |-> FALSE,
   lapsed |-> 0]

\* Validator: a known value is rejected, one that contradicts the profile is only
\* staged unless it is a correction, health facts are only staged, and what has
\* no attribute is an episode.
Known(s) == s.kind \in {"claim", "correction"} /\ profile # Nothing /\ profile.value = s.value
Decision(s) ==
  CASE s.kind = "episode" -> "promote_episodic"
    [] s.kind = "health" -> "stage_only"
    [] s.kind = "claim" /\ profile # Nothing -> "stage_only"
    [] OTHER -> "upsert_profile"

\* MemoryService._remember_store_fact().
StoreFact(s) ==
  LET d == Decision(s) IN
  /\ profile' = IF d = "upsert_profile" THEN [value |-> s.value, said |-> wipes] ELSE profile
  /\ memories' = IF d = "promote_episodic" THEN Append(memories, NewMemory(s, 0, wipes)) ELSE memories

\* remember(): the fact is stored, and the row staged unless the insert fails.
Remember(s) ==
  /\ LoopFree /\ Len(staging) < MaxSaid /\ ~Known(s)
  /\ StoreFact(s)
  /\ \/ /\ staging' = Append(staging, NewRow(s, Decision(s)))
        /\ told' = IF Decision(s) = "upsert_profile" THEN {s.value} ELSE told
        /\ UNCHANGED faults
     \/ /\ Fault
        /\ told' = IF Decision(s) = "upsert_profile" THEN told \cup {s.value} ELSE told
        /\ UNCHANGED staging
  /\ UNCHANGED <<index, tombstones, cycle, wiping, wipes, late, snatched, torn, lost>>

(***************************************************************************)
(* The dreaming cycle.                                                     *)
(***************************************************************************)

\* Mutant of Recovered: leases are never recovered.
NotRecovered == staging

\* _recover_stuck_leases(): leases of five minutes or more are taken back.  Between
\* two cycles fifteen minutes pass, so every lease left behind counts.
Recovered ==
  LET lapsed == {"stale"} \cup (IF at = "idle" THEN {"leased"} ELSE {}) IN
  [r \in Rows |-> IF staging[r].status \in lapsed
                  THEN [staging[r] EXCEPT !.status = "pending", !.lapsed = @ + 1]
                  ELSE staging[r]]

\* Mutant of Oldest: ORDER BY created_at DESC.
Newest(P) == {r \in P : Cardinality({q \in P : q > r}) < BatchSize}

\* ORDER BY created_at ASC LIMIT n.
Oldest(P) == {r \in P : Cardinality({q \in P : q < r}) < BatchSize}

\* run_cycle(): recover the leases, or fail to, select the batch and go to its first
\* row.
BeginCycle ==
  /\ at \in {"boot", "idle"} /\ ~wiping
  /\ \/ staging' = Recovered /\ UNCHANGED faults
     \/ Fault /\ UNCHANGED staging
  /\ batch' = Oldest({r \in Rows : staging'[r].status = "pending"})
  /\ at' = IF batch' = {} THEN "sync" ELSE "lease"
  /\ late' = late \cup {r \in Rows : staging'[r].status \in {"leased", "stale"} /\ \E q \in batch' : q > r}
  /\ UNCHANGED <<profile, memories, tombstones, index, doomed, wiping, wipes, told, snatched, torn, lost>>

Row == CHOOSE r \in batch : \A q \in batch : r <= q
SetStatus(status) ==
  staging' = [staging EXCEPT ![Row].status = IF @ = "wiped" THEN "wiped" ELSE status]

\* Mutant of Lease: the row is marked as processed when it is taken.
LeaseDone ==
  /\ at = "lease"
  /\ SetStatus("processed")
  /\ at' = "store"
  /\ UNCHANGED <<profile, memories, tombstones, index, batch, doomed, wiping, counters, history>>

\* _process_one(): the lease.  A row that is gone by now matches nothing.
Lease ==
  /\ at = "lease"
  /\ SetStatus("leased")
  /\ at' = "store"
  /\ UNCHANGED <<profile, memories, tombstones, index, batch, doomed, wiping, counters, history>>

\* _process_upsert_profile().
Upsert ==
  /\ at = "store" /\ staging[Row].decision = "upsert_profile"
  /\ profile' = [value |-> staging[Row].text.value, said |-> staging[Row].said]
  /\ at' = "mark"
  /\ UNCHANGED <<memories, staging, tombstones, index, batch, doomed, wiping, counters, history>>

Episodic == at = "store" /\ staging[Row].decision # "upsert_profile"
Buried == staging[Row].text \in tombstones
Duplicate == \E m \in index : memories[m].text = staging[Row].text

\* _process_episodic(): a text with a tombstone, or whose like is in the index, is
\* marked and not stored; the id the index gives is not looked for in the table.
Skip ==
  /\ Episodic /\ (Buried \/ Duplicate)
  /\ SetStatus("processed")
  /\ at' = "turn" /\ batch' = batch \ {Row}
  /\ UNCHANGED <<profile, memories, tombstones, index, doomed, wiping, counters, history>>

\* _process_episodic(): a new memory, also when the search for duplicates fails.
Insert ==
  /\ Episodic /\ ~Buried
  /\ IF Duplicate THEN Fault ELSE UNCHANGED faults
  /\ memories' = Append(memories, NewMemory(staging[Row].text, Row, staging[Row].said))
  /\ at' = "mark"
  /\ UNCHANGED <<profile, staging, tombstones, index, batch, doomed, wiping, wipes, history>>

\* Mutant of Mark: the row goes back to the pending ones.
MarkPending ==
  /\ at = "mark"
  /\ SetStatus("pending")
  /\ at' = "turn" /\ batch' = batch \ {Row}
  /\ UNCHANGED <<profile, memories, tombstones, index, doomed, wiping, counters, history>>

Mark ==
  /\ at = "mark"
  /\ SetStatus("processed")
  /\ at' = "turn" /\ batch' = batch \ {Row}
  /\ UNCHANGED <<profile, memories, tombstones, index, doomed, wiping, counters, history>>

\* A row that raises.  _process_one() has closed the connection the handler marks
\* the row with: the handler raises too, the row stays as it is and the rest of
\* the batch is left for another cycle.
EntryFails ==
  /\ at \in {"lease", "store", "mark"}
  /\ Fault
  /\ at' = "sync" /\ batch' = {}
  /\ UNCHANGED <<tables, index, doomed, wiping, wipes, history>>

NextEntry ==
  /\ at = "turn" /\ ~wiping
  /\ at' = IF batch = {} THEN "sync" ELSE "lease"
  /\ UNCHANGED <<tables, index, batch, doomed, wiping, counters, history>>

\* _sync_vector_index(): points for the rows that have none, then the mark.  The
\* search for rows, the embedder and the index may fail before the first point.
Unsynced == {m \in Active : ~memories[m].synced}
\* Mutant of SyncIndex: rows are marked also when the index refused them.
SyncAnyway ==
  /\ at = "sync"
  /\ IF Unsynced = {}
     THEN UNCHANGED <<index, faults>> /\ at' = "expire"
     ELSE \/ index' = index \cup Unsynced /\ at' = "synced" /\ UNCHANGED faults
          \/ Fault /\ at' = "synced" /\ UNCHANGED index
  /\ UNCHANGED <<tables, batch, doomed, wiping, wipes, history>>

SyncIndex ==
  /\ at = "sync"
  /\ IF Unsynced = {}
     THEN UNCHANGED <<index, faults>> /\ at' = "expire"
     ELSE \/ index' = index \cup Unsynced /\ at' = "synced" /\ UNCHANGED faults
          \/ Fault /\ at' = "expire" /\ UNCHANGED index
  /\ UNCHANGED <<tables, batch, doomed, wiping, wipes, history>>

SyncMark ==
  /\ at = "synced"
  /\ \/ /\ memories' = [m \in Stored |-> IF m \in Unsynced THEN [memories[m] EXCEPT !.synced = TRUE] ELSE memories[m]]
        /\ UNCHANGED faults
     \/ Fault /\ UNCHANGED memories
  /\ at' = "expire"
  /\ UNCHANGED <<profile, staging, tombstones, index, batch, doomed, wiping, wipes, history>>

\* _gc_lightweight(): staging rows of more than two days that nobody processed.
Expire ==
  /\ at = "expire"
  /\ \/ /\ staging' = [r \in Rows |-> IF staging[r].old /\ staging[r].status \in Unprocessed
                                      THEN [staging[r] EXCEPT !.status = "expired"]
                                      ELSE staging[r]]
        /\ UNCHANGED faults
     \/ Fault /\ UNCHANGED staging
  /\ at' = "archive"
  /\ UNCHANGED <<profile, memories, tombstones, index, batch, doomed, wiping, wipes, history>>

\* GCDaemon._gc_delete_entries(): archive, then drop the points, then the
\* tombstones; an error of the last two is swallowed.
Archived == {m \in Stored : memories[m].state = "archived"}
Archive ==
  /\ at = "archive"
  /\ \E D \in SUBSET Active :
       /\ Cardinality(D \cup Archived) <= MaxArchived
       /\ doomed' = D
       /\ memories' = [m \in Stored |-> IF m \in D THEN [memories[m] EXCEPT !.state = "archived"] ELSE memories[m]]
       /\ at' = IF D = {} THEN "idle" ELSE "unindex"
  /\ UNCHANGED <<profile, staging, tombstones, index, batch, wiping, counters, history>>

Unindex ==
  /\ at = "unindex"
  /\ \/ index' = index \ doomed /\ UNCHANGED faults
     \/ Fault /\ UNCHANGED index
  /\ at' = "bury"
  /\ UNCHANGED <<tables, batch, doomed, wiping, wipes, history>>

Bury ==
  /\ at = "bury"
  /\ \/ tombstones' = tombstones \cup {memories[m].text : m \in doomed} /\ UNCHANGED faults
     \/ Fault /\ UNCHANGED tombstones
  /\ at' = "idle" /\ doomed' = {}
  /\ UNCHANGED <<profile, memories, staging, index, batch, wiping, wipes, history>>

CycleStep ==
  \/ BeginCycle \/ Lease \/ Upsert \/ Skip \/ Insert \/ Mark \/ NextEntry
  \/ SyncIndex \/ SyncMark \/ Expire \/ Archive \/ Unindex \/ Bury

(***************************************************************************)
(* forget_everything(): the points first, then every row in one commit.    *)
(***************************************************************************)

WipeIndex ==
  /\ LoopFree /\ wipes < MaxWipes
  /\ wiping' = TRUE
  /\ LET mine == {m \in Stored : memories[m].state # "gone"} IN
       \/ index' = index \ mine /\ lost' = lost \cup mine /\ UNCHANGED faults
       \/ Fault /\ UNCHANGED <<index, lost>>
  /\ UNCHANGED <<tables, cycle, wipes, told, late, snatched, torn>>

\* The tables, in the order they are cleared: of those in "cleared", every row goes.
Cleared(cleared) ==
  /\ memories' = IF "episodic" \in cleared THEN [m \in Stored |-> [memories[m] EXCEPT !.state = "gone"]] ELSE memories
  /\ staging' = IF "staging" \in cleared THEN [r \in Rows |-> [staging[r] EXCEPT !.status = "wiped"]] ELSE staging
  /\ profile' = IF "profile" \in cleared THEN Nothing ELSE profile
  /\ tombstones' = IF "tombstones" \in cleared THEN {} ELSE tombstones

\* Mutant of ClearUser: the staging table is not one of the user's.
ClearUserButStaging == Cleared({"episodic", "profile", "tombstones"})

\* SQLiteStore.clear_user().
ClearUser == Cleared({"episodic", "staging", "profile", "tombstones"})

WipeStore ==
  /\ wiping
  /\ ClearUser
  /\ wiping' = FALSE /\ wipes' = wipes + 1
  /\ told' = {Nothing} /\ snatched' = snatched \cup batch
  /\ UNCHANGED <<index, cycle, faults, late, torn, lost>>

\* The database refuses one of the tables, or the commit: the caller is told, the
\* points are gone.  Nothing rolls back, so what was deleted by then is committed
\* with the next write, or comes back if the connection is closed before.
WipeFails ==
  /\ wiping /\ Fault
  /\ \E cleared \in {{}, {"episodic"}, {"episodic", "staging"}, {"episodic", "staging", "profile"},
                      {"episodic", "staging", "profile", "tombstones"}} :
       /\ Cleared(cleared)
       /\ snatched' = IF "staging" \in cleared THEN snatched \cup batch ELSE snatched
       /\ torn' = IF cleared # {} THEN torn \cup Rows ELSE torn
  /\ told' = told \cup {Nothing} \cup (IF profile = Nothing THEN {} ELSE {profile.value})
  /\ wiping' = FALSE
  /\ UNCHANGED <<index, cycle, wipes, late, lost>>

(***************************************************************************)
(* The server stops, between two commits or at a yield (shutdown), and is  *)
(* started again: at once, after five minutes or more, after two days or   *)
(* more.                                                                   *)
(***************************************************************************)
Stop ==
  /\ at # "down"
  /\ Fault
  /\ at' = "down" /\ batch' = {} /\ doomed' = {} /\ wiping' = FALSE
  /\ UNCHANGED <<tables, index, wipes, history>>

Start(after) ==
  /\ at = "down"
  /\ at' = "boot"
  /\ staging' = [r \in Rows |-> [staging[r] EXCEPT
                    !.old = @ \/ after = "days",
                    !.status = IF @ = "leased" /\ after # "at once" THEN "stale" ELSE @]]
  /\ UNCHANGED <<profile, memories, tombstones, index, batch, doomed, wiping, counters, history>>

Restart == \E after \in {"at once", "minutes", "days"} : Start(after)

Next ==
  \/ \E s \in Statements : Remember(s)
  \/ BeginCycle \/ Lease \/ Upsert \/ Skip \/ Insert \/ Mark \/ EntryFails \/ NextEntry
  \/ SyncIndex \/ SyncMark \/ Expire \/ Archive \/ Unindex \/ Bury
  \/ WipeIndex \/ WipeStore \/ WipeFails
  \/ Stop \/ Restart

Spec == Init /\ [][Next]_vars

\* The loop runs the cycle and a wipe once begun, and a stopped server is started.
FairSpec ==
  /\ Spec
  /\ WF_vars(CycleStep)
  /\ WF_vars(WipeStore \/ WipeFails)
  /\ WF_vars(Restart)

----------------------------------------------------------------------------
Memory == [text : Statements, of : Nat, said : Nat, synced : BOOLEAN,
           state : {"active", "archived", "gone"}]
StagingRow == [text : Statements, decision : Decisions, said : Nat, old : BOOLEAN, lapsed : Nat,
               status : Unprocessed \cup {"processed", "expired", "wiped"}]

TypeOK ==
  /\ profile \in {Nothing} \cup [value : Values, said : Nat]
  /\ memories \in Seq(Memory)
  /\ staging \in Seq(StagingRow) /\ Len(staging) <= MaxSaid
  /\ index \subseteq Stored /\ tombstones \subseteq Statements
  /\ at \in CycleSteps \cup {"down", "boot", "idle"}
  /\ batch \subseteq Rows /\ (at \in {"lease", "store", "mark"} => batch # {})
  /\ doomed \subseteq Stored /\ (doomed # {} => at \in {"unindex", "bury"})
  /\ wiping \in BOOLEAN /\ (wiping => at \in {"boot", "idle", "turn"} /\ wipes < MaxWipes)
  /\ faults \in 0 .. MaxFaults /\ wipes \in 0 .. MaxWipes
  /\ told \subseteq Values \cup {Nothing} /\ told # {}
  /\ late \subseteq Rows /\ snatched \subseteq Rows /\ torn \subseteq Rows /\ lost \subseteq Stored

\* A memory recall() may still show and that is marked as synced is in the index
\* wherever the server stopped and whichever store failed, except the memories
\* whose points a wipe deleted before the database refused it (_sync_vector_index,
\* _gc_delete_entries, forget_everything).
SyncedIsIndexed == \A m \in Active : memories[m].synced => m \in index \cup lost

\* A staging row becomes a memory a second time only after a try that was
\* interrupted between the insert and the mark, so never more often than its
\* lease lapsed (_process_one, _recover_stuck_leases).
StoredOncePerTry ==
  \A r \in Rows : Cardinality({m \in Stored : memories[m].of = r}) <= 1 + staging[r].lapsed

\* No text is marked as processed and kept nowhere, whatever stops or fails between
\* the insert, the mark and the collector: there is a memory of it, shown or archived,
\* or a tombstone.  Two losses are left out: the index answers for it with a point
\* that outlived its memory when a wipe could not reach the index, and a wipe that
\* broke off has deleted the memory and not the row (_process_episodic, clear_user).
Ghost(text) == \E m \in index : memories[m].text = text /\ memories[m].state = "gone"
ProcessedIsKept ==
  \A r \in Rows :
    staging[r].status = "processed" /\ staging[r].decision # "upsert_profile" /\ r \notin torn =>
      \/ \E m \in Stored : memories[m].text = staging[r].text /\ memories[m].state # "gone"
      \/ staging[r].text \in tombstones
      \/ Ghost(staging[r].text)

\* When the cycle has applied every profile row again, the profile says what was
\* said last: rows are replayed in the order they were said, also after errors.
\* Not so when a cycle passes over a leased row (a restart within five minutes, or
\* leases it failed to recover), when old rows expire with the last word among them,
\* or when a cycle still holds rows a wipe deleted; and a wipe that broke off may
\* leave the value it found.
Upserts == {r \in Rows : staging[r].decision = "upsert_profile"}
LastWordStands ==
  /\ \A r \in Upserts : staging[r].status \in {"processed", "wiped"}
  /\ Upserts \cap (late \cup snatched) = {}
  => (IF profile = Nothing THEN Nothing ELSE profile.value) \in told

\* After forget_everything() nothing said before it is in the stores...
WipedStaysWiped ==
  /\ profile # Nothing => profile.said = wipes
  /\ \A m \in Stored : memories[m].state # "gone" => memories[m].said = wipes

\* ...unless a cycle held its row while it was wiped: what was processed, queued
\* or leased by a cycle that had stopped does not come back.
WipedBetweenRows ==
  /\ profile # Nothing /\ profile.said # wipes => Upserts \cap snatched # {}
  /\ \A m \in Stored : memories[m].state # "gone" /\ memories[m].said # wipes => memories[m].of \in snatched

\* Every row is processed, expires or is wiped, whatever fails and wherever the
\* server stops, if it is started again.
Waiting(r) == r \in Rows /\ staging[r].status \in Unprocessed
EveryRowLeaves == \A r \in 1 .. MaxSaid : Waiting(r) ~> ~Waiting(r)
=============================================================================
