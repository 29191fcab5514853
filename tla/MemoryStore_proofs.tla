------------------------- MODULE MemoryStore_proofs -------------------------
(***************************************************************************)
(* Proofs about MemoryStore for every set of statements, every batch size  *)
(* and every bound on rows, faults, archived memories and wipes.           *)
(***************************************************************************)
EXTENDS MemoryStore, FiniteSetTheorems, WellFoundedInduction, TLAPS

(***************************************************************************)
(* A table rewritten row by row is a table of the same length.             *)
(***************************************************************************)
LEMMA Rewritten ==
  ASSUME NEW S, NEW s \in Seq(S), NEW f, f = [i \in 1 .. Len(s) |-> f[i]],
         \A i \in 1 .. Len(s) : f[i] \in S
  PROVE  f \in Seq(S) /\ Len(f) = Len(s)
  OBVIOUS

\* The row at work is the first of the batch.
LEMMA RowLeast == TypeOK /\ batch # {} => Row \in batch /\ \A q \in batch : Row <= q
<1> SUFFICES ASSUME TypeOK, batch # {} PROVE Row \in batch /\ \A q \in batch : Row <= q
  OBVIOUS
<1>1. batch \subseteq Nat
  BY DEF TypeOK, Rows
<1>2. PICK r \in batch : \A q \in batch : <<q, r>> \notin OpToRel(<, Nat)
  BY <1>1, WFMin, NatLessThanWellFounded, Zenon
<1>3. \A q \in batch : r <= q
  <2>1. \A q \in batch : ~(q < r)
    BY <1>1, <1>2, Zenon DEF OpToRel
  <2> QED BY <1>1, <2>1
<1> QED BY <1>3 DEF Row

LEMMA RowOfBatch == TypeOK /\ batch # {} => Row \in batch
  BY RowLeast

(***************************************************************************)
(* What a step does to the rows: they stay the rows they are, and a wiped  *)
(* one stays wiped.                                                        *)
(***************************************************************************)
Statuses == Unprocessed \cup {"processed", "expired", "wiped"}

SameRow(a, b) ==
  /\ a \in StagingRow
  /\ a.text = b.text /\ a.decision = b.decision /\ a.said = b.said
  /\ b.status = "wiped" => a.status = "wiped"

RowsKept ==
  /\ staging' \in Seq(StagingRow) /\ Len(staging') = Len(staging)
  /\ \A r \in Rows : SameRow(staging'[r], staging[r])

\* A row that only changes its status, its age and how often its lease lapsed.
RowWith(row, status, old, lapsed) ==
  [text |-> row.text, decision |-> row.decision, said |-> row.said,
   status |-> status, old |-> old, lapsed |-> lapsed]
Touched(new, row, status) == \E old \in BOOLEAN, lapsed \in Nat : new = RowWith(row, status, old, lapsed)

LEMMA TouchedIsSame ==
  ASSUME NEW row \in StagingRow, NEW new, NEW status \in Statuses, Touched(new, row, status),
         row.status = "wiped" => status = "wiped"
  PROVE  SameRow(new, row) /\ new.status = status
  BY DEF SameRow, StagingRow, Statuses, Touched, RowWith

LEMMA AgedSet ==
  ASSUME NEW row \in StagingRow, NEW status, NEW yes \in BOOLEAN
  PROVE  [row EXCEPT !.old = yes, !.status = status] = RowWith(row, status, yes, row.lapsed)
<1> DEFINE aged == RowWith(row, row.status, yes, row.lapsed)
<1>1. [row EXCEPT !.old = yes] = aged
  BY DEF StagingRow, RowWith
<1>2. [aged EXCEPT !.status = status] = RowWith(row, status, yes, row.lapsed)
  BY DEF RowWith
<1>3. [row EXCEPT !.old = yes, !.status = status] = [aged EXCEPT !.status = status]
  BY <1>1
<1> QED BY <1>2, <1>3

LEMMA RowSet ==
  ASSUME NEW row \in StagingRow, NEW status
  PROVE  /\ [row EXCEPT !.status = status] = RowWith(row, status, row.old, row.lapsed)
         /\ [row EXCEPT !.status = status, !.lapsed = @ + 1] = RowWith(row, status, row.old, row.lapsed + 1)
<1> DEFINE set == RowWith(row, status, row.old, row.lapsed)
<1>1. [row EXCEPT !.status = status] = set
  BY DEF StagingRow, RowWith
<1>2. [row EXCEPT !.status = status, !.lapsed = @ + 1] = RowWith(row, status, row.old, row.lapsed + 1)
  <2>1. [set EXCEPT !.lapsed = row.lapsed + 1] = RowWith(row, status, row.old, row.lapsed + 1)
    BY DEF RowWith
  <2>2. [row EXCEPT !.status = status, !.lapsed = @ + 1] = [set EXCEPT !.lapsed = row.lapsed + 1]
    BY <1>1
  <2> QED BY <2>1, <2>2
<1> QED BY <1>1, <1>2

LEMMA StatusSet ==
  ASSUME NEW row \in StagingRow, NEW status \in Statuses, NEW new,
         \/ new = [row EXCEPT !.status = status]
         \/ new = [row EXCEPT !.status = status, !.lapsed = @ + 1]
  PROVE  Touched(new, row, status)
<1>1. row.old \in BOOLEAN /\ row.lapsed \in Nat /\ row.lapsed + 1 \in Nat
  BY DEF StagingRow
<1>2. CASE new = [row EXCEPT !.status = status]
  <2>1. new = RowWith(row, status, row.old, row.lapsed)
    BY <1>2, RowSet, Zenon
  <2> QED BY <1>1, <2>1 DEF Touched
<1>3. CASE new = [row EXCEPT !.status = status, !.lapsed = @ + 1]
  <2>1. new = RowWith(row, status, row.old, row.lapsed + 1)
    BY <1>3, RowSet, Zenon
  <2> QED BY <1>1, <2>1 DEF Touched
<1> QED BY <1>2, <1>3

LEMMA Untouched == ASSUME NEW row \in StagingRow PROVE SameRow(row, row)
  BY DEF SameRow

LEMMA RowsRewritten ==
  ASSUME TypeOK, staging' = [r \in Rows |-> staging'[r]],
         \A r \in Rows : SameRow(staging'[r], staging[r])
  PROVE  RowsKept
<1>1. staging \in Seq(StagingRow)
  BY DEF TypeOK
<1>2. \A r \in 1 .. Len(staging) : staging'[r] \in StagingRow
  BY DEF Rows, SameRow
<1>3. staging' = [r \in 1 .. Len(staging) |-> staging'[r]]
  BY DEF Rows
<1>4. staging' \in Seq(StagingRow) /\ Len(staging') = Len(staging)
  BY <1>1, <1>2, <1>3, Rewritten
<1> QED BY <1>4 DEF RowsKept

LEMMA StatusKeepsRows ==
  ASSUME TypeOK, NEW status \in Unprocessed \cup {"processed"}, SetStatus(status)
  PROVE  RowsKept
<1> DEFINE kept(r) == IF staging[r].status = "wiped" THEN "wiped" ELSE status
<1>1. staging \in [Rows -> StagingRow] /\ staging = [r \in Rows |-> staging[r]]
  BY DEF TypeOK, Rows
<1>2. staging' = [r \in Rows |-> IF r = Row THEN [staging[r] EXCEPT !.status = kept(r)] ELSE staging[r]]
  BY <1>1 DEF SetStatus
<1>3. ASSUME NEW r \in Rows PROVE SameRow(staging'[r], staging[r])
  <2>1. staging[r] \in StagingRow /\ kept(r) \in Statuses /\ staging[r].status \in Statuses
    BY <1>1 DEF Statuses, StagingRow
  <2>2. CASE r = Row
    <3>1. staging'[r] = [staging[r] EXCEPT !.status = kept(r)]
      BY <1>2, <2>2
    <3>2. Touched(staging'[r], staging[r], kept(r))
      BY <2>1, <3>1, StatusSet
    <3> QED BY <2>1, <3>2, TouchedIsSame
  <2>3. CASE r # Row
    BY <1>2, <2>1, <2>3, Untouched
  <2> QED BY <2>2, <2>3
<1>4. staging' = [r \in Rows |-> staging'[r]]
  BY <1>2
<1> QED BY <1>3, <1>4, RowsRewritten

LEMMA RecoveredKeepsRows == TypeOK /\ staging' = Recovered => RowsKept
<1> SUFFICES ASSUME TypeOK, staging' = Recovered PROVE RowsKept
  OBVIOUS
<1>1. ASSUME NEW r \in Rows PROVE SameRow(staging'[r], staging[r])
  <2>1. staging[r] \in StagingRow
    BY DEF TypeOK, Rows
  <2>2. CASE staging[r].status \in {"stale", "leased"}
    <3>1. "pending" \in Statuses
      BY DEF Statuses, Unprocessed
    <3>2. CASE staging'[r] = [staging[r] EXCEPT !.status = "pending", !.lapsed = @ + 1]
      <4>1. Touched(staging'[r], staging[r], "pending")
        BY <2>1, <3>1, <3>2, StatusSet
      <4> QED BY <2>1, <2>2, <3>1, <4>1, TouchedIsSame
    <3>3. CASE staging'[r] = staging[r]
      BY <2>1, <3>3, Untouched
    <3> QED BY <3>2, <3>3 DEF Recovered
  <2>3. CASE staging[r].status \notin {"stale", "leased"}
    <3>1. staging'[r] = staging[r]
      BY <2>3 DEF Recovered
    <3> QED BY <2>1, <3>1, Untouched
  <2> QED BY <2>2, <2>3
<1>2. staging' = [r \in Rows |-> staging'[r]]
  BY DEF Recovered
<1> QED BY <1>1, <1>2, RowsRewritten

LEMMA RowsStay == TypeOK /\ UNCHANGED staging => RowsKept
<1> SUFFICES ASSUME TypeOK, UNCHANGED staging PROVE RowsKept
  OBVIOUS
<1>1. staging \in Seq(StagingRow) /\ \A r \in Rows : staging[r] \in StagingRow
  BY DEF TypeOK, Rows
<1> QED BY <1>1, Untouched DEF RowsKept

\* The expiry, when it does not fail.
ExpiredRow(r) ==
  IF staging[r].old /\ staging[r].status \in Unprocessed
  THEN [staging[r] EXCEPT !.status = "expired"]
  ELSE staging[r]

LEMMA ExpireKeepsRows ==
  ASSUME TypeOK, Expire
  PROVE  RowsKept
<1>0. SUFFICES ASSUME staging' = [r \in Rows |-> ExpiredRow(r)] PROVE RowsKept
  BY RowsStay DEF Expire, ExpiredRow
<1>1. ASSUME NEW r \in Rows PROVE SameRow(staging'[r], staging[r])
  <2>1. staging[r] \in StagingRow
    BY DEF TypeOK, Rows
  <2>2. CASE staging[r].status \in Unprocessed /\ staging'[r] = [staging[r] EXCEPT !.status = "expired"]
    <3>1. "expired" \in Statuses /\ "wiped" \notin Unprocessed
      BY DEF Statuses, Unprocessed
    <3>2. Touched(staging'[r], staging[r], "expired")
      BY <2>1, <2>2, <3>1, StatusSet
    <3> QED BY <2>1, <2>2, <3>1, <3>2, TouchedIsSame
  <2>3. CASE staging'[r] = staging[r]
    BY <2>1, <2>3, Untouched
  <2> QED BY <1>0, <2>2, <2>3 DEF ExpiredRow
<1>2. staging' = [r \in Rows |-> staging'[r]]
  BY <1>0
<1> QED BY <1>1, <1>2, RowsRewritten

\* A row as a restart finds it.
LEMMA StartSets ==
  ASSUME TypeOK, NEW after, Start(after), NEW r \in Rows
  PROVE  \E aged \in BOOLEAN, status \in Statuses :
           /\ staging'[r] = RowWith(staging[r], status, aged, staging[r].lapsed)
           /\ status = staging[r].status \/ (staging[r].status = "leased" /\ status = "stale")
<1> DEFINE row == staging[r]
           aged == row.old \/ after = "days"
           now == IF row.status = "leased" /\ after # "at once" THEN "stale" ELSE row.status
<1>1. row \in StagingRow
  BY DEF TypeOK, Rows
<1>2. aged \in BOOLEAN
  OBVIOUS
<1>3. now \in Statuses /\ (now = row.status \/ (row.status = "leased" /\ now = "stale"))
  BY <1>1 DEF Statuses, Unprocessed, StagingRow
<1>4. staging'[r] = [row EXCEPT !.old = aged, !.status = now]
  BY DEF Start
<1>5. staging'[r] = RowWith(row, now, aged, row.lapsed)
  BY <1>1, <1>2, <1>4, AgedSet, Zenon
<1> QED BY <1>2, <1>3, <1>5, Zenon

LEMMA StartKeepsRows ==
  ASSUME TypeOK, NEW after, Start(after)
  PROVE  RowsKept
<1>1. ASSUME NEW r \in Rows PROVE SameRow(staging'[r], staging[r])
  <2>1. staging[r] \in StagingRow /\ staging[r].lapsed \in Nat
    <3>1. staging[r] \in StagingRow
      BY DEF TypeOK, Rows
    <3> QED BY <3>1 DEF StagingRow
  <2>2. PICK status \in Statuses :
          /\ Touched(staging'[r], staging[r], status)
          /\ status = staging[r].status \/ (staging[r].status = "leased" /\ status = "stale")
    BY <2>1, StartSets, Zenon DEF Touched
  <2> QED BY <2>1, <2>2, TouchedIsSame
<1>2. staging' = [r \in Rows |-> staging'[r]]
  BY DEF Start
<1> QED BY <1>1, <1>2, RowsRewritten

\* The tables a wipe clears: their rows stay, wiped, or nothing changes.
LEMMA ClearKeepsRows ==
  ASSUME TypeOK, NEW cleared, Cleared(cleared)
  PROVE  /\ RowsKept
         /\ "staging" \in cleared => \A r \in Rows : staging'[r].status = "wiped"
         /\ "staging" \notin cleared => UNCHANGED staging
<1>1. CASE "staging" \in cleared
  <2>1. ASSUME NEW r \in Rows PROVE SameRow(staging'[r], staging[r]) /\ staging'[r].status = "wiped"
    <3>1. staging[r] \in StagingRow
      BY DEF TypeOK, Rows
    <3>2. staging'[r] = [staging[r] EXCEPT !.status = "wiped"]
      BY <1>1 DEF Cleared
    <3>3. "wiped" \in Statuses
      BY DEF Statuses
    <3>4. Touched(staging'[r], staging[r], "wiped")
      BY <3>1, <3>2, <3>3, StatusSet
    <3> QED BY <3>1, <3>3, <3>4, TouchedIsSame
  <2>2. staging' = [r \in Rows |-> staging'[r]]
    BY <1>1 DEF Cleared
  <2> QED BY <1>1, <2>1, <2>2, RowsRewritten
<1>2. CASE "staging" \notin cleared
  BY <1>2, RowsStay DEF Cleared
<1> QED BY <1>1, <1>2

\* The memories stay the memories they are, and only lose their standing.
MemoriesKept ==
  /\ memories' \in Seq(Memory) /\ Len(memories') = Len(memories)
  /\ \A m \in Stored :
       /\ memories'[m].of = memories[m].of /\ memories'[m].said = memories[m].said
       /\ memories'[m].text = memories[m].text
       /\ memories'[m].state = "active" => memories[m].state = "active"
       /\ memories[m].state = "gone" => memories'[m].state = "gone"

LEMMA MemoriesRewritten ==
  ASSUME TypeOK, memories' = [m \in Stored |-> memories'[m]],
         \A m \in Stored : \/ memories'[m] = memories[m]
                            \/ memories'[m] = [memories[m] EXCEPT !.synced = TRUE]
                            \/ \E state \in {"archived", "gone"} :
                                 /\ memories'[m] = [memories[m] EXCEPT !.state = state]
                                 /\ memories[m].state = "gone" => state = "gone"
  PROVE  MemoriesKept
<1>1. memories \in Seq(Memory)
  BY DEF TypeOK
<1>2. ASSUME NEW m \in Stored
      PROVE  /\ memories'[m] \in Memory
             /\ memories'[m].of = memories[m].of /\ memories'[m].said = memories[m].said
             /\ memories'[m].text = memories[m].text
             /\ memories'[m].state = "active" => memories[m].state = "active"
             /\ memories[m].state = "gone" => memories'[m].state = "gone"
  <2>1. memories[m] \in Memory
    BY <1>1 DEF Stored
  <2>2. CASE memories'[m] = memories[m]
    BY <2>1, <2>2
  <2>3. CASE memories'[m] = [memories[m] EXCEPT !.synced = TRUE]
    BY <2>1, <2>3 DEF Memory
  <2>4. CASE \E state \in {"archived", "gone"} :
               /\ memories'[m] = [memories[m] EXCEPT !.state = state]
               /\ memories[m].state = "gone" => state = "gone"
    BY <2>1, <2>4 DEF Memory
  <2> QED BY <2>2, <2>3, <2>4
<1>3. memories' \in Seq(Memory) /\ Len(memories') = Len(memories)
  BY <1>1, <1>2, Rewritten DEF Stored
<1> QED BY <1>2, <1>3 DEF MemoriesKept

LEMMA MemoriesStay == TypeOK /\ UNCHANGED memories => MemoriesKept
  BY DEF TypeOK, MemoriesKept

\* The mark of a sync, when it does not fail.
Synced == [m \in Stored |-> IF m \in Unsynced THEN [memories[m] EXCEPT !.synced = TRUE] ELSE memories[m]]

LEMMA SyncKeepsMemories == TypeOK /\ SyncMark => MemoriesKept
<1> SUFFICES ASSUME TypeOK, memories' = Synced PROVE MemoriesKept
  BY MemoriesStay DEF SyncMark, Synced
<1>1. memories' = [m \in Stored |-> memories'[m]]
  BY DEF Synced
<1>2. \A m \in Stored : memories'[m] = memories[m] \/ memories'[m] = [memories[m] EXCEPT !.synced = TRUE]
  BY DEF Synced
<1> QED BY <1>1, <1>2, MemoriesRewritten

LEMMA ArchiveKeepsMemories == TypeOK /\ Archive => MemoriesKept
<1> SUFFICES ASSUME TypeOK, Archive PROVE MemoriesKept
  OBVIOUS
<1>1. PICK D \in SUBSET Active :
        memories' = [m \in Stored |-> IF m \in D THEN [memories[m] EXCEPT !.state = "archived"] ELSE memories[m]]
  BY DEF Archive
<1>2. memories' = [m \in Stored |-> memories'[m]]
  BY <1>1
<1>3. ASSUME NEW m \in Stored
      PROVE  \/ memories'[m] = memories[m]
             \/ \E state \in {"archived", "gone"} :
                  /\ memories'[m] = [memories[m] EXCEPT !.state = state]
                  /\ memories[m].state = "gone" => state = "gone"
  <2>1. CASE m \in D
    <3>1. memories'[m] = [memories[m] EXCEPT !.state = "archived"] /\ memories[m].state # "gone"
      BY <1>1, <2>1 DEF Active
    <3> QED BY <3>1
  <2>2. CASE m \notin D
    BY <1>1, <2>2
  <2> QED BY <2>1, <2>2
<1> QED BY <1>2, <1>3, MemoriesRewritten

LEMMA ClearKeepsMemories ==
  ASSUME TypeOK, NEW cleared, Cleared(cleared)
  PROVE  /\ MemoriesKept
         /\ "episodic" \in cleared => \A m \in Stored : memories'[m].state = "gone"
         /\ "episodic" \notin cleared => UNCHANGED memories
<1>1. CASE "episodic" \in cleared
  <2>1. memories' = [m \in Stored |-> memories'[m]]
    BY <1>1 DEF Cleared
  <2>2. \A m \in Stored : memories'[m] = [memories[m] EXCEPT !.state = "gone"]
    BY <1>1 DEF Cleared
  <2>3. MemoriesKept
    BY <2>1, <2>2, MemoriesRewritten
  <2>4. \A m \in Stored : memories[m] \in Memory
    BY DEF TypeOK, Stored
  <2> QED BY <1>1, <2>2, <2>3, <2>4 DEF Memory
<1>2. CASE "episodic" \notin cleared
  BY <1>2, MemoriesStay DEF Cleared
<1> QED BY <1>1, <1>2

\* A wipe, whole or broken off.
LEMMA WipeClears ==
  ASSUME WipeStore \/ WipeFails
  PROVE  /\ wiping /\ UNCHANGED <<index, cycle, late, lost>>
         /\ \E cleared : /\ Cleared(cleared)
                         /\ WipeStore => cleared = {"episodic", "staging", "profile", "tombstones"}
                         /\ "profile" \in cleared => "staging" \in cleared
                         /\ "tombstones" \in cleared => "staging" \in cleared
                         /\ snatched' = IF "staging" \in cleared THEN snatched \cup batch ELSE snatched
                         /\ torn' = torn \/ (torn' = torn \cup Rows /\ cleared # {})
                         /\ ~WipeStore /\ cleared # {} => torn' = torn \cup Rows
<1>1. CASE WipeStore
  <2>1. Cleared({"episodic", "staging", "profile", "tombstones"})
    BY <1>1 DEF WipeStore, ClearUser
  <2> QED BY <1>1, <2>1 DEF WipeStore
<1>2. CASE WipeFails /\ ~WipeStore
  <2>1. PICK cleared \in {{}, {"episodic"}, {"episodic", "staging"}, {"episodic", "staging", "profile"},
                          {"episodic", "staging", "profile", "tombstones"}} :
          /\ Cleared(cleared)
          /\ snatched' = IF "staging" \in cleared THEN snatched \cup batch ELSE snatched
          /\ torn' = IF cleared # {} THEN torn \cup Rows ELSE torn
    BY <1>2 DEF WipeFails
  <2>2. /\ "profile" \in cleared => "staging" \in cleared
        /\ "tombstones" \in cleared => "staging" \in cleared
    BY <2>1
  <2>3. wiping /\ UNCHANGED <<index, cycle, late, lost>>
    BY <1>2 DEF WipeFails
  <2> QED BY <1>2, <2>1, <2>2, <2>3, Zenon
<1> QED BY <1>1, <1>2

LEMMA MemoryAppended ==
  ASSUME TypeOK, NEW text \in Statements, NEW row \in Nat, NEW said \in Nat,
         memories' = Append(memories, NewMemory(text, row, said))
  PROVE  /\ memories' \in Seq(Memory) /\ Len(memories') = Len(memories) + 1
         /\ \A m \in Stored : memories'[m] = memories[m]
         /\ memories'[Len(memories) + 1] = NewMemory(text, row, said)
<1>1. NewMemory(text, row, said) \in Memory
  BY DEF NewMemory, Memory
<1> QED BY <1>1 DEF TypeOK, Stored

LEMMA RowAppended ==
  ASSUME TypeOK, NEW text \in Statements, NEW decision \in Decisions,
         staging' = Append(staging, NewRow(text, decision))
  PROVE  /\ staging' \in Seq(StagingRow) /\ Len(staging') = Len(staging) + 1
         /\ \A r \in Rows : staging'[r] = staging[r]
         /\ staging'[Len(staging) + 1] = NewRow(text, decision)
<1>1. NewRow(text, decision) \in StagingRow
  BY DEF TypeOK, NewRow, StagingRow, Unprocessed
<1> QED BY <1>1 DEF TypeOK, Rows

LEMMA DecisionType == \A s \in Statements : Decision(s) \in Decisions
  BY DEF Decision, Decisions

\* What a row of the staging table is.
LEMMA RowType == TypeOK => \A r \in Rows : staging[r] \in StagingRow
  BY DEF TypeOK, Rows

(***************************************************************************)
(* The tables only grow: what indexes them stays in range.                 *)
(***************************************************************************)
TablesGrow ==
  /\ memories' \in Seq(Memory) /\ Len(memories') >= Len(memories)
  /\ staging' \in Seq(StagingRow) /\ Len(staging') >= Len(staging) /\ Len(staging') <= MaxSaid

LEMMA RangesGrow == TypeOK /\ TablesGrow => Rows \subseteq Rows' /\ Stored \subseteq Stored'
  BY DEF TypeOK, TablesGrow, Rows, Stored

LEMMA RememberGrows ==
  ASSUME TypeOK, NEW s \in Statements, Remember(s)
  PROVE  TablesGrow
<1>1. /\ memories \in Seq(Memory) /\ staging \in Seq(StagingRow)
      /\ Len(staging) <= MaxSaid /\ wipes \in Nat /\ MaxSaid \in Nat
  BY BoundsAssumption DEF TypeOK
<1>2. memories' \in Seq(Memory) /\ Len(memories') >= Len(memories)
  <2>1. CASE memories' = Append(memories, NewMemory(s, 0, wipes))
    BY <1>1, <2>1, MemoryAppended
  <2>2. CASE memories' = memories
    BY <1>1, <2>2
  <2> QED BY <2>1, <2>2 DEF Remember, StoreFact
<1>3. staging' \in Seq(StagingRow) /\ Len(staging') >= Len(staging) /\ Len(staging') <= MaxSaid
  <2>1. CASE staging' = Append(staging, NewRow(s, Decision(s)))
    BY <1>1, <2>1, DecisionType, RowAppended DEF Remember
  <2>2. CASE staging' = staging
    BY <1>1, <2>2
  <2> QED BY <2>1, <2>2 DEF Remember
<1> QED BY <1>2, <1>3 DEF TablesGrow

LEMMA InsertGrows == TypeOK /\ Insert => TablesGrow
<1> SUFFICES ASSUME TypeOK, Insert PROVE TablesGrow
  OBVIOUS
<1>1. /\ memories \in Seq(Memory) /\ staging \in Seq(StagingRow) /\ Len(staging) <= MaxSaid
      /\ MaxSaid \in Nat
  BY BoundsAssumption DEF TypeOK
<1>2. Row \in Rows
  BY RowOfBatch DEF TypeOK, Insert, Episodic
<1>3. staging[Row].text \in Statements /\ staging[Row].said \in Nat /\ Row \in Nat
  BY <1>2, RowType DEF StagingRow, Rows
<1>4. memories' \in Seq(Memory) /\ Len(memories') = Len(memories) + 1
  BY <1>3, MemoryAppended DEF Insert
<1> QED BY <1>1, <1>4 DEF TablesGrow, Insert

LEMMA CycleGrows ==
  ASSUME TypeOK, CycleStep \/ EntryFails
  PROVE  TablesGrow
<1>1. /\ memories \in Seq(Memory) /\ staging \in Seq(StagingRow) /\ Len(staging) <= MaxSaid
      /\ MaxSaid \in Nat
  BY BoundsAssumption DEF TypeOK
<1>2. ASSUME UNCHANGED memories, UNCHANGED staging \/ RowsKept PROVE TablesGrow
  BY <1>1, <1>2 DEF TablesGrow, RowsKept
<1>3. ASSUME UNCHANGED staging, UNCHANGED memories \/ MemoriesKept PROVE TablesGrow
  BY <1>1, <1>3 DEF TablesGrow, MemoriesKept
<1>4. CASE BeginCycle
  BY <1>2, <1>4, RecoveredKeepsRows DEF BeginCycle
<1>5. CASE Lease
  BY <1>2, <1>5, StatusKeepsRows DEF Lease, Unprocessed
<1>6. CASE Skip
  BY <1>2, <1>6, StatusKeepsRows DEF Skip
<1>7. CASE Mark
  BY <1>2, <1>7, StatusKeepsRows DEF Mark
<1>8. CASE Expire
  BY <1>2, <1>8, ExpireKeepsRows DEF Expire
<1>9. CASE Upsert \/ NextEntry \/ SyncIndex \/ Unindex \/ Bury \/ EntryFails
  BY <1>2, <1>9 DEF Upsert, NextEntry, SyncIndex, Unindex, Bury, EntryFails, tables
<1>10. CASE SyncMark
  BY <1>3, <1>10, SyncKeepsMemories DEF SyncMark
<1>11. CASE Archive
  BY <1>3, <1>11, ArchiveKeepsMemories DEF Archive
<1> QED BY <1>4, <1>5, <1>6, <1>7, <1>8, <1>9, <1>10, <1>11, InsertGrows DEF CycleStep

LEMMA WipeGrows ==
  ASSUME TypeOK, WipeIndex \/ WipeStore \/ WipeFails \/ Stop \/ UNCHANGED vars
  PROVE  TablesGrow
<1>1. /\ memories \in Seq(Memory) /\ staging \in Seq(StagingRow) /\ Len(staging) <= MaxSaid
      /\ MaxSaid \in Nat
  BY BoundsAssumption DEF TypeOK
<1>2. CASE WipeStore \/ WipeFails
  <2>1. PICK cleared : Cleared(cleared)
    BY <1>2, WipeClears
  <2> QED BY <1>1, <2>1, ClearKeepsRows, ClearKeepsMemories DEF TablesGrow, RowsKept, MemoriesKept
<1>3. CASE WipeIndex \/ Stop \/ UNCHANGED vars
  BY <1>1, <1>3 DEF WipeIndex, Stop, vars, tables, TablesGrow
<1> QED BY <1>2, <1>3

LEMMA StartGrows ==
  ASSUME TypeOK, NEW after, Start(after)
  PROVE  TablesGrow
<1>1. /\ memories \in Seq(Memory) /\ Len(staging) <= MaxSaid /\ staging \in Seq(StagingRow)
      /\ MaxSaid \in Nat
  BY BoundsAssumption DEF TypeOK
<1>2. UNCHANGED memories
  BY DEF Start
<1>3. RowsKept
  BY StartKeepsRows
<1> QED BY <1>1, <1>2, <1>3 DEF TablesGrow, RowsKept

LEMMA StepGrows == TypeOK /\ [Next]_vars => TablesGrow
  BY RememberGrows, CycleGrows, WipeGrows, StartGrows DEF Next, CycleStep, Restart

(***************************************************************************)
(* What makes the typing inductive: the row at work is one of the batch,  *)
(* the batch is rows that exist, and a wipe is under way only where the    *)
(* cycle has yielded to the loop.                                          *)
(***************************************************************************)
LEMMA TypeInit == Init => TypeOK
<1> SUFFICES ASSUME Init PROVE TypeOK
  OBVIOUS
<1>1. /\ memories \in Seq(Memory) /\ staging \in Seq(StagingRow) /\ Len(staging) = 0 /\ 0 <= MaxSaid
      /\ 0 \in 0 .. MaxFaults /\ 0 \in 0 .. MaxWipes
  BY BoundsAssumption DEF Init
<1> QED BY <1>1 DEF Init, TypeOK

LEMMA FaultBounded == TypeOK /\ Fault => faults' \in 0 .. MaxFaults
  BY BoundsAssumption DEF TypeOK, Fault

LEMMA TypeStep == TypeOK /\ [Next]_vars => TypeOK'
<1> SUFFICES ASSUME TypeOK, [Next]_vars PROVE TypeOK'
  OBVIOUS
<1>0. /\ TablesGrow /\ Rows \subseteq Rows' /\ Stored \subseteq Stored'
      /\ memories' \in Seq(Memory) /\ staging' \in Seq(StagingRow) /\ Len(staging') <= MaxSaid
      /\ MaxFaults \in Nat /\ MaxWipes \in Nat
  BY StepGrows, RangesGrow, BoundsAssumption DEF TablesGrow
<1>1. ASSUME NEW s \in Statements, Remember(s) PROVE TypeOK'
  <2>1. s.value \in Values
    BY DEF Values
  <2>2. profile' \in {Nothing} \cup [value : Values, said : Nat]
    BY <1>1, <2>1 DEF TypeOK, Remember, StoreFact
  <2>3. told' \subseteq Values \cup {Nothing} /\ told' # {}
    <3>1. told' = {s.value} \/ told' = told \/ told' = told \cup {s.value}
      BY <1>1 DEF Remember
    <3> QED BY <2>1, <3>1 DEF TypeOK
  <2>4. faults' \in 0 .. MaxFaults
    BY <1>0, <1>1, FaultBounded DEF TypeOK, Remember
  <2> QED BY <1>0, <1>1, <2>2, <2>3, <2>4 DEF TypeOK, Remember, cycle
<1>2. CASE BeginCycle
  <2>1. faults' \in 0 .. MaxFaults
    BY <1>2, FaultBounded DEF TypeOK, BeginCycle
  <2>2. batch' \subseteq Rows'
    BY <1>0, <1>2 DEF BeginCycle, Oldest
  <2> QED BY <1>0, <1>2, <2>1, <2>2 DEF TypeOK, BeginCycle, CycleSteps
<1>3. ASSUME Lease \/ NextEntry PROVE TypeOK'
  BY <1>0, <1>3 DEF TypeOK, Lease, NextEntry, tables, counters, history, CycleSteps
<1>4. CASE Upsert
  <2>1. staging[Row].text \in Statements /\ staging[Row].said \in Nat
    BY <1>4, RowOfBatch, RowType DEF TypeOK, Upsert, StagingRow
  <2>2. staging[Row].text.value \in Values
    BY <2>1 DEF Values
  <2> QED BY <1>0, <1>4, <2>1, <2>2 DEF TypeOK, Upsert, counters, history, CycleSteps
<1>5. ASSUME Skip \/ Mark PROVE TypeOK'
  BY <1>0, <1>5 DEF TypeOK, Skip, Mark, Episodic, counters, history, CycleSteps
<1>6. CASE Insert
  BY <1>0, <1>6 DEF TypeOK, Insert, Episodic, Fault, history, CycleSteps
<1>7. CASE EntryFails
  BY <1>0, <1>7 DEF TypeOK, EntryFails, Fault, tables, history, CycleSteps
<1>8. CASE SyncIndex
  BY <1>0, <1>8 DEF TypeOK, SyncIndex, Unsynced, Active, Fault, tables, history, CycleSteps
<1>9. ASSUME SyncMark \/ Expire PROVE TypeOK'
  <2>1. faults' \in 0 .. MaxFaults
    BY <1>9, FaultBounded DEF TypeOK, SyncMark, Expire
  <2> QED BY <1>0, <1>9, <2>1 DEF TypeOK, SyncMark, Expire, history, CycleSteps
<1>10. CASE Archive
  BY <1>0, <1>10 DEF TypeOK, Archive, Active, counters, history, CycleSteps
<1>11. CASE Unindex
  BY <1>0, <1>11 DEF TypeOK, Unindex, Fault, tables, history, CycleSteps
<1>12. CASE Bury
  <2>1. {memories[m].text : m \in doomed} \subseteq Statements
    <3>1. \A m \in Stored : memories[m] \in Memory
      BY DEF TypeOK, Stored
    <3> QED BY <3>1 DEF TypeOK, Memory
  <2> QED BY <1>0, <1>12, <2>1 DEF TypeOK, Bury, Fault, history
<1>13. CASE WipeIndex
  BY <1>0, <1>13 DEF TypeOK, WipeIndex, LoopFree, Fault, tables, cycle
<1>14. CASE WipeStore
  <2>1. /\ profile' = Nothing /\ tombstones' = {} /\ told' = {Nothing} /\ wiping' = FALSE
        /\ UNCHANGED <<index, cycle, faults, late, torn, lost>>
    BY <1>14 DEF WipeStore, ClearUser, Cleared
  <2>2. wipes' \in 0 .. MaxWipes
    BY <1>0, <1>14 DEF TypeOK, WipeStore
  <2>3. snatched' \subseteq Rows'
    BY <1>0, <1>14 DEF TypeOK, WipeStore
  <2> QED BY <1>0, <2>1, <2>2, <2>3 DEF TypeOK, cycle
<1>15. CASE WipeFails
  <2>1. profile' \in {profile, Nothing} /\ tombstones' \in {tombstones, {}}
    BY <1>15 DEF WipeFails, Cleared
  <2>2. snatched' \subseteq Rows' /\ torn' \subseteq Rows'
    BY <1>0, <1>15 DEF TypeOK, WipeFails
  <2>3. told' \subseteq Values \cup {Nothing} /\ told' # {}
    <3>1. profile # Nothing => profile.value \in Values
      BY DEF TypeOK
    <3> QED BY <1>15, <3>1 DEF TypeOK, WipeFails
  <2>4. faults' \in 0 .. MaxFaults
    BY <1>15, FaultBounded DEF WipeFails
  <2>5. wiping' = FALSE /\ UNCHANGED <<index, cycle, wipes, late, lost>>
    BY <1>15 DEF WipeFails
  <2> QED BY <1>0, <2>1, <2>2, <2>3, <2>4, <2>5 DEF TypeOK, cycle
<1>16. CASE Stop
  BY <1>0, <1>16, FaultBounded DEF TypeOK, Stop, tables, history
<1>17. ASSUME NEW after, Start(after) PROVE TypeOK'
  BY <1>0, <1>17 DEF TypeOK, Start, counters, history
<1>18. CASE UNCHANGED vars
  BY <1>0, <1>18 DEF TypeOK, vars, tables, cycle, counters, history
<1> QED BY <1>1, <1>2, <1>3, <1>4, <1>5, <1>6, <1>7, <1>8, <1>9, <1>10, <1>11, <1>12, <1>13,
           <1>14, <1>15, <1>16, <1>17, <1>18 DEF Next, Restart

(***************************************************************************)
(* The tables, the index and the dreaming cycle are well typed, whatever   *)
(* is said, fails, is archived or wiped (dreaming_cycle.py:105-139).       *)
(***************************************************************************)
THEOREM TypeCorrect == Spec => []TypeOK
BY TypeInit, TypeStep, PTL DEF Spec

(***************************************************************************)
(* The index.  A synced memory that is active has its point, or a wipe     *)
(* took it; between the points and the marks of a sync the unsynced ones   *)
(* are in the index; what the collector is about to drop from the index is *)
(* archived.                                                               *)
(***************************************************************************)
IndexInv ==
  /\ SyncedIsIndexed
  /\ at = "synced" => Unsynced \subseteq index
  /\ doomed \cap Active = {}

LEMMA IndexInit == Init => IndexInv
  BY DEF Init, IndexInv, SyncedIsIndexed, Active, Stored

LEMMA IndexKept ==
  ASSUME IndexInv, UNCHANGED memories, index \subseteq index', lost \subseteq lost', doomed' \subseteq doomed,
         at' = "synced" => at = "synced"
  PROVE  IndexInv'
  BY DEF IndexInv, SyncedIsIndexed, Unsynced, Active, Stored

\* A new memory has no point yet, and is not marked.
LEMMA IndexAppended ==
  ASSUME TypeOK, IndexInv, NEW text \in Statements, NEW row \in Nat, NEW said \in Nat,
         memories' = Append(memories, NewMemory(text, row, said)),
         UNCHANGED <<index, lost, doomed>>, at' # "synced"
  PROVE  IndexInv'
<1>1. /\ memories \in Seq(Memory) /\ doomed \subseteq Stored
      /\ Len(memories') = Len(memories) + 1 /\ \A m \in Stored : memories'[m] = memories[m]
      /\ ~memories'[Len(memories) + 1].synced
  <2>1. ~NewMemory(text, row, said).synced
    BY DEF NewMemory
  <2>2. memories'[Len(memories) + 1] = NewMemory(text, row, said)
    BY MemoryAppended
  <2> QED BY <2>1, <2>2, MemoryAppended DEF TypeOK
<1>2. Stored' = Stored \cup {Len(memories) + 1} /\ Len(memories) + 1 \notin Stored
  BY <1>1 DEF Stored
<1>3. Active' \subseteq Active \cup {Len(memories) + 1}
  BY <1>1, <1>2 DEF Active
<1>4. SyncedIsIndexed'
  <2>1. ASSUME NEW m \in Active', memories'[m].synced PROVE m \in index' \cup lost'
    <3>1. m \in Active /\ m \in Stored
      BY <1>1, <1>3, <2>1 DEF Active
    <3> QED BY <1>1, <2>1, <3>1 DEF IndexInv, SyncedIsIndexed
  <2> QED BY <2>1 DEF SyncedIsIndexed
<1> QED BY <1>1, <1>2, <1>3, <1>4 DEF IndexInv

LEMMA IndexStep == TypeOK /\ IndexInv /\ [Next]_vars => IndexInv'
<1> SUFFICES ASSUME TypeOK, IndexInv, [Next]_vars PROVE IndexInv'
  OBVIOUS
<1>1. ASSUME NEW s \in Statements, Remember(s) PROVE IndexInv'
  <2>1. UNCHANGED <<index, lost, doomed, at>> /\ at # "synced" /\ wipes \in Nat
    BY <1>1, BoundsAssumption DEF Remember, LoopFree, cycle, TypeOK
  <2>2. CASE memories' = Append(memories, NewMemory(s, 0, wipes))
    BY <2>1, <2>2, IndexAppended
  <2>3. CASE UNCHANGED memories
    BY <2>1, <2>3, IndexKept
  <2> QED BY <1>1, <2>2, <2>3 DEF Remember, StoreFact
<1>2. ASSUME BeginCycle \/ Lease \/ Upsert \/ Skip \/ Mark \/ NextEntry PROVE IndexInv'
  BY <1>2, IndexKept DEF BeginCycle, Lease, Upsert, Skip, Mark, NextEntry, tables, history
<1>3. CASE Insert
  <2>1. Row \in Rows
    BY <1>3, RowOfBatch DEF Insert, Episodic, TypeOK
  <2>2. staging[Row].text \in Statements /\ staging[Row].said \in Nat /\ Row \in Nat
    BY <2>1, RowType DEF StagingRow, Rows
  <2> QED BY <1>3, <2>2, IndexAppended DEF Insert, history
<1>4. ASSUME EntryFails \/ Expire \/ Bury PROVE IndexInv'
  BY <1>4, IndexKept DEF EntryFails, Expire, Bury, tables, history
<1>5. CASE SyncIndex
  <2>1. UNCHANGED <<memories, doomed, lost>> /\ index \subseteq index'
    BY <1>5 DEF SyncIndex, tables, history
  <2>2. at' = "synced" => Unsynced \subseteq index'
    BY <1>5 DEF SyncIndex
  <2> QED BY <2>1, <2>2 DEF IndexInv, SyncedIsIndexed, Unsynced, Active, Stored
<1>6. CASE SyncMark
  <2>0. CASE UNCHANGED memories
    BY <1>6, <2>0, IndexKept DEF SyncMark, history
  <2> SUFFICES ASSUME memories' = Synced PROVE IndexInv'
    BY <1>6, <2>0 DEF SyncMark, Synced
  <2>1. \A m \in Stored : memories[m] \in Memory
    BY DEF TypeOK, Stored
  <2>2. Stored' = Stored
    BY <1>6, SyncKeepsMemories DEF MemoriesKept, Stored
  <2>3. \A m \in Stored : memories'[m].state = memories[m].state /\ (m \notin Unsynced => memories'[m] = memories[m])
    BY <2>1 DEF Synced, Memory
  <2>4. Active' = Active
    BY <2>2, <2>3 DEF Active
  <2>5. \A m \in Active : m \in Unsynced => m \in index
    BY <1>6 DEF SyncMark, IndexInv
  <2> QED BY <1>6, <2>3, <2>4, <2>5 DEF SyncMark, IndexInv, SyncedIsIndexed, Active, history
<1>7. CASE Archive
  <2>1. \A m \in Stored : memories[m] \in Memory
    BY DEF TypeOK, Stored
  <2>2. Stored' = Stored
    BY <1>7, ArchiveKeepsMemories DEF MemoriesKept, Stored
  <2>3. PICK D \in SUBSET Active :
          /\ doomed' = D
          /\ memories' = [m \in Stored |-> IF m \in D THEN [memories[m] EXCEPT !.state = "archived"] ELSE memories[m]]
    BY <1>7 DEF Archive
  <2>4. \A m \in Stored : memories'[m].synced = memories[m].synced /\ (m \in D => memories'[m].state = "archived")
                         /\ (m \notin D => memories'[m] = memories[m])
    BY <2>1, <2>3 DEF Memory
  <2>5. Active' = Active \ D
    BY <2>2, <2>4 DEF Active
  <2> QED BY <1>7, <2>3, <2>4, <2>5 DEF Archive, IndexInv, SyncedIsIndexed, Active, history
<1>8. CASE Unindex
  <2>1. UNCHANGED <<memories, doomed, lost>> /\ index \ doomed \subseteq index' /\ at' = "bury"
    BY <1>8 DEF Unindex, tables, history
  <2> QED BY <2>1 DEF IndexInv, SyncedIsIndexed, Active, Stored
<1>9. CASE WipeIndex
  <2>1. UNCHANGED <<memories, doomed, at>> /\ at # "synced" /\ lost \subseteq lost' /\ index \subseteq index' \cup lost'
    BY <1>9 DEF WipeIndex, LoopFree, tables, cycle
  <2> QED BY <2>1 DEF IndexInv, SyncedIsIndexed, Active, Stored
<1>10. ASSUME WipeStore \/ WipeFails PROVE IndexInv'
  <2>1. PICK cleared : Cleared(cleared) /\ UNCHANGED <<index, cycle, lost>> /\ wiping
    BY <1>10, WipeClears
  <2>2. UNCHANGED at /\ at # "synced"
    BY <2>1 DEF cycle, TypeOK
  <2>3. CASE "episodic" \in cleared
    <3>1. Active' = {}
      BY <2>1, <2>3, ClearKeepsMemories DEF MemoriesKept, Active, Stored
    <3> QED BY <2>2, <3>1 DEF IndexInv, SyncedIsIndexed
  <2>4. CASE "episodic" \notin cleared
    <3>1. UNCHANGED memories
      BY <2>1, <2>4, ClearKeepsMemories
    <3> QED BY <2>1, <2>2, <3>1, IndexKept DEF cycle
  <2> QED BY <2>3, <2>4
<1>11. ASSUME Stop \/ UNCHANGED vars PROVE IndexInv'
  BY <1>11, IndexKept DEF Stop, vars, tables, cycle, history
<1>12. ASSUME NEW after, Start(after) PROVE IndexInv'
  BY <1>12, IndexKept DEF Start, history
<1> QED BY <1>1, <1>2, <1>3, <1>4, <1>5, <1>6, <1>7, <1>8, <1>9, <1>10, <1>11, <1>12 DEF Next, Restart

(***************************************************************************)
(* A memory recall() may show and that is marked as synced has its point   *)
(* in the index, or lost it to a wipe the database then refused            *)
(* (dreaming_cycle.py:416-446, gc_daemon.py:149-166).                      *)
(***************************************************************************)
THEOREM SyncedAlwaysIndexed == Spec => []SyncedIsIndexed
<1>1. IndexInv => SyncedIsIndexed
  BY DEF IndexInv
<1> QED BY <1>1, TypeInit, TypeStep, IndexInit, IndexStep, PTL DEF Spec

(***************************************************************************)
(* The wipe.  A row that was not wiped was said after the last wipe, and   *)
(* so was a row of the batch unless a wipe caught it there.                *)
(***************************************************************************)
WipedInv ==
  /\ \A r \in Rows : staging[r].status # "wiped" => staging[r].said = wipes
  /\ \A r \in batch : staging[r].said = wipes \/ r \in snatched
  /\ WipedBetweenRows

LEMMA WipedInit == Init => WipedInv
  BY DEF Init, WipedInv, WipedBetweenRows, Rows, Stored

LEMMA UpsertsKept ==
  ASSUME TypeOK, RowsKept
  PROVE  Rows' = Rows /\ Upserts' = Upserts /\ \A r \in Rows : staging'[r].said = staging[r].said
  BY DEF RowsKept, SameRow, Upserts, Rows

LEMMA WipedKept ==
  ASSUME TypeOK, WipedInv, RowsKept, MemoriesKept, UNCHANGED wipes, profile' \in {profile, Nothing},
         snatched \subseteq snatched', batch' \subseteq batch
  PROVE  WipedInv'
<1>1. Rows' = Rows /\ Upserts' = Upserts /\ \A r \in Rows : staging'[r].said = staging[r].said
  BY UpsertsKept
<1>2. \A r \in Rows' : staging'[r].status # "wiped" => staging'[r].said = wipes'
  BY <1>1 DEF WipedInv, RowsKept, SameRow
<1>3. \A r \in batch' : staging'[r].said = wipes' \/ r \in snatched'
  BY <1>1 DEF WipedInv, TypeOK
<1>4. WipedBetweenRows'
  <2>1. profile' # Nothing /\ profile'.said # wipes' => Upserts' \cap snatched' # {}
    BY <1>1 DEF WipedInv, WipedBetweenRows
  <2>2. \A m \in Stored' : memories'[m].state # "gone" /\ memories'[m].said # wipes' => memories'[m].of \in snatched'
    BY DEF WipedInv, WipedBetweenRows, MemoriesKept, Stored
  <2> QED BY <2>1, <2>2 DEF WipedBetweenRows
<1> QED BY <1>2, <1>3, <1>4 DEF WipedInv

LEMMA WipedStep == TypeOK /\ WipedInv /\ [Next]_vars => WipedInv'
<1> SUFFICES ASSUME TypeOK, WipedInv, [Next]_vars PROVE WipedInv'
  OBVIOUS
<1>1. ASSUME NEW s \in Statements, Remember(s) PROVE WipedInv'
  <2>0. /\ UNCHANGED <<wipes, batch, snatched>> /\ wipes \in Nat /\ batch \subseteq Rows
        /\ snatched \subseteq Rows
    BY <1>1, BoundsAssumption DEF Remember, cycle, TypeOK
  <2>1. /\ Rows \subseteq Rows' /\ \A r \in Rows : staging'[r] = staging[r]
        /\ \A r \in Rows' \ Rows : staging'[r].said = wipes
    <3>1. CASE staging' = Append(staging, NewRow(s, Decision(s)))
      <4>1. /\ Len(staging') = Len(staging) + 1 /\ \A r \in Rows : staging'[r] = staging[r]
            /\ staging'[Len(staging) + 1] = NewRow(s, Decision(s)) /\ staging \in Seq(StagingRow)
        BY <3>1, DecisionType, RowAppended DEF TypeOK
      <4>2. NewRow(s, Decision(s)).said = wipes
        BY DEF NewRow
      <4> QED BY <4>1, <4>2 DEF Rows
    <3>2. CASE UNCHANGED staging
      BY <3>2 DEF Rows
    <3> QED BY <1>1, <3>1, <3>2 DEF Remember
  <2>2. Upserts \subseteq Upserts'
    BY <2>1 DEF Upserts
  <2>3. profile' = profile \/ (profile' = [value |-> s.value, said |-> wipes])
    BY <1>1 DEF Remember, StoreFact
  <2>4. profile' # Nothing /\ profile'.said # wipes' => Upserts' \cap snatched' # {}
    BY <2>0, <2>2, <2>3 DEF WipedInv, WipedBetweenRows
  <2>5. ASSUME NEW m \in Stored', memories'[m].state # "gone", memories'[m].said # wipes'
        PROVE  memories'[m].of \in snatched'
    <3>1. CASE memories' = Append(memories, NewMemory(s, 0, wipes))
      <4>1. /\ Len(memories') = Len(memories) + 1 /\ \A n \in Stored : memories'[n] = memories[n]
            /\ memories'[Len(memories) + 1] = NewMemory(s, 0, wipes) /\ memories \in Seq(Memory)
        BY <2>0, <3>1, MemoryAppended DEF TypeOK
      <4>2. NewMemory(s, 0, wipes).said = wipes
        BY DEF NewMemory
      <4>3. m \in Stored \/ m = Len(memories) + 1
        BY <4>1 DEF Stored
      <4> QED BY <2>0, <2>5, <4>1, <4>2, <4>3 DEF WipedInv, WipedBetweenRows
    <3>2. CASE UNCHANGED memories
      BY <2>0, <2>5, <3>2 DEF WipedInv, WipedBetweenRows, Stored
    <3> QED BY <1>1, <3>1, <3>2 DEF Remember, StoreFact
  <2> QED BY <2>0, <2>1, <2>4, <2>5 DEF WipedInv, WipedBetweenRows
<1>2. CASE BeginCycle
  <2>1. RowsKept /\ MemoriesKept
    BY <1>2, RecoveredKeepsRows, RowsStay, MemoriesStay DEF BeginCycle
  <2>2. Rows' = Rows /\ Upserts' = Upserts /\ \A r \in Rows : staging'[r].said = staging[r].said
    BY <2>1, UpsertsKept
  <2>3. UNCHANGED <<profile, memories, wipes, snatched>>
    BY <1>2 DEF BeginCycle
  <2>4. \A r \in Rows : staging'[r].status # "wiped" => staging'[r].said = wipes
    BY <2>1, <2>2 DEF WipedInv, RowsKept, SameRow
  <2>5. \A r \in batch' : r \in Rows /\ staging'[r].status = "pending"
    BY <1>2 DEF BeginCycle, Oldest
  <2> QED BY <2>2, <2>3, <2>4, <2>5 DEF WipedInv, WipedBetweenRows, Stored
<1>3. ASSUME Lease \/ Skip \/ Mark PROVE WipedInv'
  <2>1. RowsKept /\ MemoriesKept
    BY <1>3, StatusKeepsRows, MemoriesStay DEF Lease, Skip, Mark, Unprocessed
  <2>2. UNCHANGED <<profile, wipes, snatched>> /\ batch' \subseteq batch
    BY <1>3 DEF Lease, Skip, Mark, counters, history
  <2> QED BY <2>1, <2>2, WipedKept
<1>4. CASE Upsert
  <2>1. Row \in Upserts /\ (staging[Row].said = wipes \/ Row \in snatched)
    BY <1>4, RowOfBatch DEF Upsert, TypeOK, Upserts, WipedInv
  <2>2. UNCHANGED <<memories, staging, batch, wipes, snatched>> /\ profile'.said = staging[Row].said
    BY <1>4 DEF Upsert, counters, history
  <2> QED BY <2>1, <2>2 DEF WipedInv, WipedBetweenRows, Upserts, Rows, Stored
<1>5. CASE Insert
  <2>1. Row \in Rows /\ (staging[Row].said = wipes \/ Row \in snatched)
    BY <1>5, RowOfBatch DEF Insert, Episodic, TypeOK, WipedInv
  <2>2. staging[Row].text \in Statements /\ staging[Row].said \in Nat /\ Row \in Nat
    BY <2>1, RowType DEF StagingRow, Rows
  <2>3. UNCHANGED <<profile, staging, batch, wipes, snatched>>
    BY <1>5 DEF Insert, history
  <2> DEFINE new == NewMemory(staging[Row].text, Row, staging[Row].said)
  <2>4. /\ Len(memories') = Len(memories) + 1 /\ \A n \in Stored : memories'[n] = memories[n]
        /\ memories'[Len(memories) + 1] = new /\ memories \in Seq(Memory)
    BY <1>5, <2>2, MemoryAppended DEF Insert, TypeOK
  <2>5. new.said = staging[Row].said /\ new.of = Row
    BY DEF NewMemory
  <2>6. ASSUME NEW m \in Stored', memories'[m].state # "gone", memories'[m].said # wipes'
        PROVE  memories'[m].of \in snatched'
    <3>1. m \in Stored \/ m = Len(memories) + 1
      BY <2>4 DEF Stored
    <3> QED BY <2>1, <2>3, <2>4, <2>5, <2>6, <3>1 DEF WipedInv, WipedBetweenRows
  <2> QED BY <2>3, <2>6 DEF WipedInv, WipedBetweenRows, Upserts, Rows
<1>6. ASSUME EntryFails \/ NextEntry \/ SyncIndex \/ Unindex \/ Bury PROVE WipedInv'
  <2>1. RowsKept /\ MemoriesKept
    BY <1>6, RowsStay, MemoriesStay DEF EntryFails, NextEntry, SyncIndex, Unindex, Bury, tables
  <2>2. UNCHANGED <<profile, wipes, snatched>> /\ batch' \subseteq batch
    BY <1>6 DEF EntryFails, NextEntry, SyncIndex, Unindex, Bury, tables, counters, history
  <2> QED BY <2>1, <2>2, WipedKept
<1>7. ASSUME SyncMark \/ Expire \/ Archive PROVE WipedInv'
  <2>1. RowsKept /\ MemoriesKept
    BY <1>7, RowsStay, MemoriesStay, SyncKeepsMemories, ExpireKeepsRows, ArchiveKeepsMemories
       DEF SyncMark, Expire, Archive
  <2>2. UNCHANGED <<profile, wipes, snatched>> /\ batch' \subseteq batch
    BY <1>7 DEF SyncMark, Expire, Archive, counters, history
  <2> QED BY <2>1, <2>2, WipedKept
<1>8. ASSUME WipeIndex \/ Stop \/ UNCHANGED vars PROVE WipedInv'
  <2>1. RowsKept /\ MemoriesKept
    BY <1>8, RowsStay, MemoriesStay DEF WipeIndex, Stop, vars, tables
  <2>2. UNCHANGED <<profile, wipes, snatched>> /\ batch' \subseteq batch
    BY <1>8 DEF WipeIndex, Stop, vars, tables, cycle, counters, history
  <2> QED BY <2>1, <2>2, WipedKept
<1>9. CASE WipeStore
  <2>1. Cleared({"episodic", "staging", "profile", "tombstones"})
    BY <1>9 DEF WipeStore, ClearUser
  <2>2. RowsKept /\ \A r \in Rows : staging'[r].status = "wiped"
    BY <2>1, ClearKeepsRows
  <2>3. MemoriesKept /\ \A m \in Stored : memories'[m].state = "gone"
    BY <2>1, ClearKeepsMemories
  <2>4. profile' = Nothing /\ batch' = batch /\ snatched' = snatched \cup batch
    BY <1>9, <2>1 DEF WipeStore, Cleared, cycle
  <2> QED BY <2>2, <2>3, <2>4, UpsertsKept DEF WipedInv, WipedBetweenRows, MemoriesKept, Stored
<1>11. CASE WipeFails
  <2>1. PICK cleared : Cleared(cleared) /\ snatched \subseteq snatched'
    BY <1>11, WipeClears
  <2>2. RowsKept /\ MemoriesKept /\ UNCHANGED <<wipes, batch>> /\ profile' \in {profile, Nothing}
    BY <1>11, <2>1, ClearKeepsRows, ClearKeepsMemories DEF WipeFails, Cleared, cycle
  <2> QED BY <2>1, <2>2, WipedKept
<1>10. ASSUME NEW after, Start(after) PROVE WipedInv'
  <2>1. RowsKept /\ MemoriesKept
    BY <1>10, StartKeepsRows, MemoriesStay DEF Start
  <2>2. UNCHANGED <<profile, wipes, snatched>> /\ batch' \subseteq batch
    BY <1>10 DEF Start, counters, history
  <2> QED BY <2>1, <2>2, WipedKept
<1> QED BY <1>1, <1>2, <1>3, <1>4, <1>5, <1>6, <1>7, <1>8, <1>9, <1>10, <1>11 DEF Next, Restart

(***************************************************************************)
(* What was said before a wipe is in the stores again only if a cycle held *)
(* its row while it was wiped (dreaming_cycle.py:239,                      *)
(* memory_service.py:467-504).                                             *)
(***************************************************************************)
THEOREM WipedUnlessHeld == Spec => []WipedBetweenRows
<1>1. WipedInv => WipedBetweenRows
  BY DEF WipedInv
<1> QED BY <1>1, TypeInit, TypeStep, WipedInit, WipedStep, PTL DEF Spec

(***************************************************************************)
(* What a step does to one row: it keeps its text and its decision, and    *)
(* says which status it has now and how often its lease lapsed.            *)
(***************************************************************************)
Moved(r, status, by) ==
  /\ staging'[r].text = staging[r].text /\ staging'[r].decision = staging[r].decision
  /\ staging'[r].status = status /\ staging'[r].lapsed = staging[r].lapsed + by
Stays(r) == Moved(r, staging[r].status, 0)

LEMMA SameStays ==
  ASSUME TypeOK, NEW r \in Rows, staging'[r] = staging[r]
  PROVE  Stays(r)
<1>1. staging[r].lapsed \in Nat
  BY RowType DEF StagingRow
<1> QED BY <1>1 DEF Stays, Moved

\* The status set by the row at work.
StatusNow(r, status) ==
  IF r = Row /\ staging[r].status # "wiped" THEN status ELSE staging[r].status

LEMMA StatusMoves ==
  ASSUME TypeOK, NEW status, SetStatus(status)
  PROVE  Rows' = Rows /\ \A r \in Rows : Moved(r, StatusNow(r, status), 0)
<1>1. staging \in [Rows -> StagingRow] /\ staging = [r \in Rows |-> staging[r]]
  BY DEF TypeOK, Rows
<1> DEFINE kept(r) == IF staging[r].status = "wiped" THEN "wiped" ELSE status
<1>2. staging' = [r \in Rows |-> IF r = Row THEN [staging[r] EXCEPT !.status = kept(r)] ELSE staging[r]]
  BY <1>1 DEF SetStatus
<1>3. ASSUME NEW r \in Rows PROVE Moved(r, StatusNow(r, status), 0)
  <2>1. staging[r] \in StagingRow /\ staging[r].lapsed \in Nat
    BY <1>1 DEF StagingRow
  <2>2. CASE r = Row
    <3>1. staging'[r] = RowWith(staging[r], kept(r), staging[r].old, staging[r].lapsed)
      BY <1>2, <2>1, <2>2, RowSet
    <3> QED BY <2>1, <2>2, <3>1 DEF RowWith, Moved, StatusNow
  <2>3. CASE r # Row
    BY <1>2, <2>1, <2>3, SameStays DEF Stays, StatusNow
  <2> QED BY <2>2, <2>3
<1>4. Len(staging') = Len(staging)
  BY DEF TypeOK, SetStatus
<1> QED BY <1>3, <1>4 DEF Rows

LEMMA RowsMove ==
  ASSUME TypeOK, UNCHANGED staging
  PROVE  Rows' = Rows /\ \A r \in Rows : Stays(r)
  BY SameStays DEF Rows

\* The recovery takes a lease back, or fails and leaves every row.
LEMMA BeginMoves ==
  ASSUME TypeOK, BeginCycle
  PROVE  /\ Rows' = Rows
         /\ \A r \in Rows : Stays(r) \/ (staging[r].status \in {"leased", "stale"} /\ Moved(r, "pending", 1))
<1>0. SUFFICES ASSUME staging' = Recovered
               PROVE  /\ Rows' = Rows
                      /\ \A r \in Rows : \/ Stays(r)
                                         \/ staging[r].status \in {"leased", "stale"} /\ Moved(r, "pending", 1)
  BY RowsMove DEF BeginCycle
<1>1. ASSUME NEW r \in Rows
      PROVE  Stays(r) \/ (staging[r].status \in {"leased", "stale"} /\ Moved(r, "pending", 1))
  <2>1. staging[r] \in StagingRow
    BY RowType
  <2>2. CASE /\ staging[r].status \in {"leased", "stale"}
             /\ staging'[r] = [staging[r] EXCEPT !.status = "pending", !.lapsed = @ + 1]
    <3>1. staging'[r] = RowWith(staging[r], "pending", staging[r].old, staging[r].lapsed + 1)
      BY <2>1, <2>2, RowSet
    <3> QED BY <2>2, <3>1 DEF RowWith, Moved
  <2>3. CASE staging'[r] = staging[r]
    BY <2>3, SameStays
  <2> QED BY <1>0, <2>2, <2>3 DEF Recovered
<1> QED BY <1>0, <1>1, RecoveredKeepsRows DEF RowsKept, Rows

LEMMA ExpireMoves ==
  ASSUME TypeOK, Expire
  PROVE  /\ Rows' = Rows
         /\ \A r \in Rows : Stays(r) \/ (staging[r].status \in Unprocessed /\ Moved(r, "expired", 0))
<1>0. SUFFICES ASSUME staging' = [r \in Rows |-> ExpiredRow(r)]
               PROVE  /\ Rows' = Rows
                      /\ \A r \in Rows : Stays(r) \/ (staging[r].status \in Unprocessed /\ Moved(r, "expired", 0))
  BY RowsMove DEF Expire, ExpiredRow
<1>1. ASSUME NEW r \in Rows
      PROVE  Stays(r) \/ (staging[r].status \in Unprocessed /\ Moved(r, "expired", 0))
  <2>1. staging[r] \in StagingRow /\ staging[r].lapsed \in Nat
    BY RowType DEF StagingRow
  <2>2. CASE staging[r].status \in Unprocessed /\ staging'[r] = [staging[r] EXCEPT !.status = "expired"]
    <3>1. staging'[r] = RowWith(staging[r], "expired", staging[r].old, staging[r].lapsed)
      BY <2>1, <2>2, RowSet
    <3> QED BY <2>1, <2>2, <3>1 DEF RowWith, Moved
  <2>3. CASE staging'[r] = staging[r]
    BY <2>3, SameStays
  <2> QED BY <1>0, <2>2, <2>3 DEF ExpiredRow
<1> QED BY <1>1, ExpireKeepsRows DEF RowsKept, Rows

LEMMA StartMoves ==
  ASSUME TypeOK, NEW after, Start(after)
  PROVE  /\ Rows' = Rows
         /\ \A r \in Rows : Stays(r) \/ (staging[r].status = "leased" /\ Moved(r, "stale", 0))
<1>1. ASSUME NEW r \in Rows
      PROVE  Stays(r) \/ (staging[r].status = "leased" /\ Moved(r, "stale", 0))
  <2>1. staging[r].lapsed \in Nat
    BY RowType DEF StagingRow
  <2>2. PICK aged \in BOOLEAN, status \in Statuses :
           /\ staging'[r] = RowWith(staging[r], status, aged, staging[r].lapsed)
           /\ status = staging[r].status \/ (staging[r].status = "leased" /\ status = "stale")
    BY StartSets, Zenon
  <2> QED BY <2>1, <2>2 DEF RowWith, Moved, Stays
<1> QED BY <1>1, StartKeepsRows DEF RowsKept, Rows

LEMMA RestartMoves ==
  ASSUME TypeOK, Restart
  PROVE  /\ Rows' = Rows
         /\ \A r \in Rows : Stays(r) \/ (staging[r].status = "leased" /\ Moved(r, "stale", 0))
  BY StartMoves DEF Restart

LEMMA ClearMoves ==
  ASSUME TypeOK, NEW cleared, Cleared(cleared)
  PROVE  Rows' = Rows /\ \A r \in Rows : IF "staging" \in cleared THEN Moved(r, "wiped", 0) ELSE Stays(r)
<1>1. CASE "staging" \in cleared
  <2>1. ASSUME NEW r \in Rows PROVE Moved(r, "wiped", 0)
    <3>1. staging[r] \in StagingRow /\ staging[r].lapsed \in Nat
      BY RowType DEF StagingRow
    <3>2. staging'[r] = [staging[r] EXCEPT !.status = "wiped"]
      BY <1>1 DEF Cleared
    <3>3. staging'[r] = RowWith(staging[r], "wiped", staging[r].old, staging[r].lapsed)
      BY <3>1, <3>2, RowSet
    <3> QED BY <3>1, <3>3 DEF RowWith, Moved
  <2> QED BY <1>1, <2>1, ClearKeepsRows DEF RowsKept, Rows
<1>2. CASE "staging" \notin cleared
  BY <1>2, RowsMove DEF Cleared
<1> QED BY <1>1, <1>2

\* What remember() does to the rows: none, or one more, pending.
LEMMA RememberMoves ==
  ASSUME TypeOK, NEW s \in Statements, Remember(s)
  PROVE  /\ \A r \in Rows : Stays(r)
         /\ \/ UNCHANGED staging /\ Rows' = Rows
            \/ /\ Rows' = Rows \cup {Len(staging) + 1} /\ \A r \in Rows : r < Len(staging) + 1
               /\ staging'[Len(staging) + 1] = NewRow(s, Decision(s))
               /\ Len(staging) + 1 \in Nat \ {0}
               /\ told' = IF Decision(s) = "upsert_profile" THEN {s.value} ELSE told
<1>1. CASE /\ staging' = Append(staging, NewRow(s, Decision(s)))
           /\ told' = IF Decision(s) = "upsert_profile" THEN {s.value} ELSE told
  <2>1. /\ Len(staging') = Len(staging) + 1 /\ \A r \in Rows : staging'[r] = staging[r]
        /\ staging'[Len(staging) + 1] = NewRow(s, Decision(s))
    BY <1>1, RowAppended, DecisionType
  <2>2. Len(staging) \in Nat
    BY DEF TypeOK
  <2> QED BY <1>1, <2>1, <2>2, SameStays DEF Rows
<1>2. CASE UNCHANGED staging
  BY <1>2, RowsMove
<1> QED BY <1>1, <1>2 DEF Remember

(***************************************************************************)
(* The batch.  Its rows are pending but for the one at work, or a wipe     *)
(* caught them there; outside a batch it is empty.                         *)
(***************************************************************************)
AtWork(r) == at \in {"store", "mark"} /\ r = Row
BatchInv ==
  /\ batch # {} => at \in {"lease", "store", "mark", "turn"}
  /\ \A r \in batch : \/ staging[r].status = "pending" /\ ~AtWork(r)
                      \/ staging[r].status = "leased" /\ AtWork(r)
                      \/ staging[r].status = "wiped" /\ r \in snatched

LEMMA BatchInit == Init => BatchInv
  BY DEF Init, BatchInv

LEMMA BatchStep == TypeOK /\ BatchInv /\ [Next]_vars => BatchInv'
<1> SUFFICES ASSUME TypeOK, BatchInv, [Next]_vars PROVE BatchInv'
  OBVIOUS
<1>0. batch \subseteq Rows
  BY DEF TypeOK
<1>1. ASSUME NEW s \in Statements, Remember(s) PROVE BatchInv'
  <2>1. UNCHANGED <<batch, at, snatched>> /\ at \notin {"store", "mark"}
    BY <1>1 DEF Remember, LoopFree, cycle
  <2> QED BY <1>0, <1>1, <2>1, RememberMoves DEF BatchInv, AtWork, Stays, Moved
<1>2. CASE BeginCycle
  BY <1>2 DEF BeginCycle, BatchInv, Oldest, AtWork
<1>3. CASE Lease
  <2>1. UNCHANGED <<batch, snatched>> /\ at = "lease" /\ at' = "store" /\ Row' = Row
    BY <1>3 DEF Lease, history, Row
  <2>2. \A r \in Rows : Moved(r, StatusNow(r, "leased"), 0)
    BY <1>3, StatusMoves DEF Lease
  <2> QED BY <1>0, <2>1, <2>2 DEF BatchInv, AtWork, StatusNow, Moved
<1>4. ASSUME Upsert \/ Insert PROVE BatchInv'
  <2>1. UNCHANGED <<batch, staging, snatched>> /\ at = "store" /\ at' = "mark" /\ Row' = Row
    BY <1>4 DEF Upsert, Insert, Episodic, history, Row
  <2> QED BY <2>1 DEF BatchInv, AtWork
<1>5. ASSUME Skip \/ Mark PROVE BatchInv'
  <2>1. batch' = batch \ {Row} /\ at' = "turn" /\ UNCHANGED snatched
    BY <1>5 DEF Skip, Mark, history
  <2>2. \A r \in Rows : Moved(r, StatusNow(r, "processed"), 0)
    BY <1>5, StatusMoves DEF Skip, Mark
  <2> QED BY <1>0, <2>1, <2>2 DEF BatchInv, AtWork, StatusNow, Moved
<1>6. ASSUME EntryFails \/ Stop PROVE BatchInv'
  BY <1>6 DEF EntryFails, Stop, BatchInv
<1>7. CASE NextEntry
  <2>1. UNCHANGED <<batch, staging, snatched>> /\ at = "turn" /\ at' = IF batch = {} THEN "sync" ELSE "lease"
    BY <1>7 DEF NextEntry, tables, history
  <2> QED BY <2>1 DEF BatchInv, AtWork
<1>8. ASSUME SyncIndex \/ SyncMark \/ Expire \/ Archive \/ Unindex \/ Bury PROVE BatchInv'
  <2>1. batch = {} /\ batch' = batch
    BY <1>8 DEF BatchInv, SyncIndex, SyncMark, Expire, Archive, Unindex, Bury
  <2> QED BY <2>1 DEF BatchInv
<1>9. ASSUME WipeIndex \/ UNCHANGED vars PROVE BatchInv'
  <2>1. UNCHANGED <<batch, staging, snatched, at>> /\ Row' = Row
    BY <1>9 DEF WipeIndex, vars, tables, cycle, history, Row
  <2> QED BY <2>1 DEF BatchInv, AtWork
<1>10. ASSUME WipeStore \/ WipeFails PROVE BatchInv'
  <2>1. PICK cleared : /\ Cleared(cleared) /\ UNCHANGED cycle
                       /\ snatched' = IF "staging" \in cleared THEN snatched \cup batch ELSE snatched
    BY <1>10, WipeClears
  <2>2. UNCHANGED <<batch, at>> /\ Row' = Row
    BY <2>1 DEF cycle, Row
  <2>3. CASE "staging" \in cleared
    <3>1. \A r \in Rows : staging'[r].status = "wiped"
      BY <2>1, <2>3, ClearKeepsRows
    <3> QED BY <1>0, <2>1, <2>2, <2>3, <3>1 DEF BatchInv
  <2>4. CASE "staging" \notin cleared
    <3>1. UNCHANGED <<staging, snatched>>
      BY <2>1, <2>4, ClearKeepsRows
    <3> QED BY <2>2, <3>1 DEF BatchInv, AtWork
  <2> QED BY <2>3, <2>4
<1>11. ASSUME NEW after, Start(after) PROVE BatchInv'
  <2>1. batch = {} /\ batch' = batch
    BY <1>11 DEF BatchInv, Start
  <2> QED BY <2>1 DEF BatchInv
<1> QED BY <1>1, <1>2, <1>3, <1>4, <1>5, <1>6, <1>7, <1>8, <1>9, <1>10, <1>11 DEF Next, Restart

(***************************************************************************)
(* What was processed is kept.  A text that stands in the table, is        *)
(* buried or has a ghost in the index keeps one of the three until a wipe, *)
(* which takes its row too, or tears it from its memory.                   *)
(***************************************************************************)
Standing == {memories[m].text : m \in {n \in Stored : memories[n].state # "gone"}}
Ghosts == {memories[m].text : m \in {n \in index : memories[n].state = "gone"}}
KeptTexts == Standing \cup tombstones \cup Ghosts

RowKept(r) ==
  staging[r].status = "processed" /\ staging[r].decision # "upsert_profile" /\ r \notin torn =>
    staging[r].text \in KeptTexts
WorkKept ==
  at = "mark" /\ staging[Row].decision # "upsert_profile" => staging[Row].text \in Standing
DoomedStand == \A m \in doomed : memories[m].state # "gone"

KeptInv == (\A r \in Rows : RowKept(r)) /\ WorkKept /\ DoomedStand

TextsStay ==
  /\ Stored \subseteq Stored'
  /\ \A m \in Stored : /\ memories'[m].text = memories[m].text
                       /\ memories'[m].state = "gone" <=> memories[m].state = "gone"

LEMMA KeptInit == Init => KeptInv
  BY DEF Init, KeptInv, WorkKept, DoomedStand, Rows

LEMMA KeptIsKept == KeptInv => ProcessedIsKept
<1> SUFFICES ASSUME KeptInv, NEW r \in Rows,
                    staging[r].status = "processed", staging[r].decision # "upsert_profile", r \notin torn
             PROVE  \/ \E m \in Stored : memories[m].text = staging[r].text /\ memories[m].state # "gone"
                    \/ staging[r].text \in tombstones
                    \/ Ghost(staging[r].text)
  BY DEF ProcessedIsKept
<1>1. staging[r].text \in Standing \cup tombstones \cup Ghosts
  BY DEF KeptInv, RowKept, KeptTexts
<1> QED BY <1>1 DEF Standing, Ghosts, Ghost

LEMMA TextStaysKept ==
  ASSUME TypeOK, TextsStay, tombstones \subseteq tombstones',
         \A m \in index : memories[m].state = "gone" => m \in index'
  PROVE  Standing \subseteq Standing' /\ KeptTexts \subseteq KeptTexts'
<1>1. Standing \subseteq Standing'
  BY DEF Standing, TextsStay
<1>2. Ghosts \subseteq Ghosts'
  BY DEF Ghosts, TextsStay, TypeOK
<1> QED BY <1>1, <1>2 DEF KeptTexts

LEMMA TextsAppended ==
  ASSUME TypeOK, NEW text \in Statements, NEW row \in Nat, NEW said \in Nat,
         memories' = Append(memories, NewMemory(text, row, said))
  PROVE  TextsStay /\ text \in Standing'
<1>1. /\ Len(memories') = Len(memories) + 1 /\ \A m \in Stored : memories'[m] = memories[m]
      /\ memories'[Len(memories) + 1] = NewMemory(text, row, said) /\ memories \in Seq(Memory)
  BY MemoryAppended DEF TypeOK
<1>2. NewMemory(text, row, said).text = text /\ NewMemory(text, row, said).state = "active"
  BY DEF NewMemory
<1>3. Stored \subseteq Stored' /\ Len(memories) + 1 \in Stored'
  BY <1>1 DEF Stored
<1> QED BY <1>1, <1>2, <1>3 DEF TextsStay, Standing

LEMMA SyncKeepsTexts == TypeOK /\ SyncMark => TextsStay
<1> SUFFICES ASSUME TypeOK, memories' = Synced, MemoriesKept PROVE TextsStay
  BY SyncKeepsMemories DEF SyncMark, Synced, TextsStay, Stored
<1>1. \A m \in Stored : memories[m] \in Memory
  BY DEF TypeOK, Stored
<1>2. \A m \in Stored : memories'[m].state = memories[m].state /\ memories'[m].text = memories[m].text
  BY <1>1 DEF Synced, Memory
<1> QED BY <1>2 DEF TextsStay, MemoriesKept, Stored

LEMMA ArchiveKeepsTexts == TypeOK /\ Archive => TextsStay /\ DoomedStand'
<1> SUFFICES ASSUME TypeOK, Archive PROVE TextsStay /\ DoomedStand'
  OBVIOUS
<1>1. \A m \in Stored : memories[m] \in Memory
  BY DEF TypeOK, Stored
<1>2. PICK D \in SUBSET Active :
        /\ doomed' = D
        /\ memories' = [m \in Stored |-> IF m \in D THEN [memories[m] EXCEPT !.state = "archived"] ELSE memories[m]]
  BY DEF Archive
<1>3. \A m \in Stored : /\ memories'[m].text = memories[m].text
                        /\ m \in D => memories'[m].state = "archived" /\ memories[m].state = "active"
                        /\ m \notin D => memories'[m] = memories[m]
  BY <1>1, <1>2 DEF Memory, Active
<1>4. Stored' = Stored
  BY ArchiveKeepsMemories DEF MemoriesKept, Stored
<1> QED BY <1>2, <1>3, <1>4 DEF TextsStay, DoomedStand, Active

\* Every step but a wipe.
LEMMA TextsKept ==
  ASSUME TypeOK, KeptInv, [Next]_vars, ~WipeStore, ~WipeFails
  PROVE  TextsStay /\ DoomedStand' /\ Standing \subseteq Standing' /\ KeptTexts \subseteq KeptTexts'
<1>0. doomed \subseteq Stored
  BY DEF TypeOK
<1>1. TextsStay /\ DoomedStand'
  <2>1. ASSUME UNCHANGED memories, doomed' \subseteq doomed PROVE TextsStay /\ DoomedStand'
    BY <2>1 DEF TextsStay, Stored, KeptInv, DoomedStand
  <2>2. ASSUME TextsStay, UNCHANGED doomed PROVE DoomedStand'
    BY <1>0, <2>2 DEF TextsStay, KeptInv, DoomedStand
  <2>3. ASSUME NEW s \in Statements, Remember(s) PROVE TextsStay /\ DoomedStand'
    <3>1. UNCHANGED doomed /\ wipes \in Nat /\ 0 \in Nat
      BY <2>3, BoundsAssumption DEF Remember, cycle, TypeOK
    <3>2. CASE memories' = Append(memories, NewMemory(s, 0, wipes))
      BY <2>2, <3>1, <3>2, TextsAppended
    <3>3. CASE UNCHANGED memories
      BY <2>1, <3>1, <3>3
    <3> QED BY <2>3, <3>2, <3>3 DEF Remember, StoreFact
  <2>4. CASE Insert
    <3>1. Row \in Rows
      BY <2>4, RowOfBatch DEF Insert, Episodic, TypeOK
    <3>2. staging[Row].text \in Statements /\ staging[Row].said \in Nat /\ Row \in Nat
      BY <3>1, RowType DEF StagingRow, Rows
    <3> QED BY <2>2, <2>4, <3>2, TextsAppended DEF Insert
  <2>5. CASE SyncMark
    BY <2>2, <2>5, SyncKeepsTexts DEF SyncMark
  <2>6. CASE \/ BeginCycle \/ Lease \/ Upsert \/ Skip \/ Mark \/ EntryFails \/ NextEntry \/ SyncIndex
             \/ Expire \/ Unindex \/ Bury \/ WipeIndex \/ Stop \/ Restart \/ UNCHANGED vars
    BY <2>1, <2>6 DEF BeginCycle, Lease, Upsert, Skip, Mark, EntryFails, NextEntry, SyncIndex, Expire,
       Unindex, Bury, WipeIndex, Stop, Restart, Start, vars, tables, cycle
  <2> QED BY <2>3, <2>4, <2>5, <2>6, ArchiveKeepsTexts DEF Next
<1>2. tombstones \subseteq tombstones' /\ \A m \in index : memories[m].state = "gone" => m \in index'
  BY DEF Next, Remember, BeginCycle, Lease, Upsert, Skip, Insert, Mark, EntryFails, NextEntry,
     SyncIndex, SyncMark, Expire, Archive, Unindex, Bury, WipeIndex, Stop, Restart, Start, vars, tables,
     KeptInv, DoomedStand
<1> QED BY <1>1, <1>2, TextStaysKept

\* A row is processed by the step that takes it off the batch, or was before.
LEMMA ProcessedByMark ==
  ASSUME TypeOK, [Next]_vars, ~WipeStore, ~WipeFails, NEW r \in Rows', staging'[r].status = "processed"
  PROVE  /\ r \in Rows /\ staging'[r].text = staging[r].text /\ staging'[r].decision = staging[r].decision
         /\ staging[r].status = "processed" \/ ((Skip \/ Mark) /\ r = Row)
<1> USE DEF Stays, Moved
<1>1. ASSUME NEW s \in Statements, Remember(s) PROVE r \in Rows /\ Stays(r)
  <2>1. NewRow(s, Decision(s)).status = "pending"
    BY DEF NewRow
  <2> QED BY <1>1, <2>1, RememberMoves
<1>2. CASE BeginCycle \/ Expire \/ Restart
  BY <1>2, BeginMoves, ExpireMoves, RestartMoves
<1>3. CASE Lease
  BY <1>3, StatusMoves DEF Lease, StatusNow
<1>4. CASE Skip \/ Mark
  BY <1>4, StatusMoves DEF Skip, Mark, StatusNow
<1>5. CASE \/ Upsert \/ Insert \/ EntryFails \/ NextEntry \/ SyncIndex \/ SyncMark \/ Archive \/ Unindex
           \/ Bury \/ WipeIndex \/ Stop \/ UNCHANGED vars
  <2>1. UNCHANGED staging
    BY <1>5 DEF Upsert, Insert, EntryFails, NextEntry, SyncIndex, SyncMark, Archive, Unindex, Bury,
       WipeIndex, Stop, vars, tables
  <2> QED BY <2>1, RowsMove
<1> QED BY <1>1, <1>2, <1>3, <1>4, <1>5 DEF Next

\* The row at work has been looked at when the cycle comes to its mark.
LEMMA AtMark ==
  ASSUME [Next]_vars, at' = "mark"
  PROVE  Upsert \/ Insert \/ (at = "mark" /\ UNCHANGED <<staging, batch>>) \/ WipeStore \/ WipeFails
  BY DEF Next, Remember, LoopFree, BeginCycle, Lease, Upsert, Skip, Insert, Mark, EntryFails, NextEntry,
     SyncIndex, SyncMark, Expire, Archive, Unindex, Bury, WipeIndex, Stop, Restart, Start, vars, tables, cycle

LEMMA KeptStep == TypeOK /\ KeptInv /\ [Next]_vars => KeptInv'
<1> SUFFICES ASSUME TypeOK, KeptInv, [Next]_vars PROVE KeptInv'
  OBVIOUS
<1>1. CASE WipeStore \/ WipeFails
  <2>1. PICK cleared : /\ Cleared(cleared) /\ wiping /\ UNCHANGED <<index, cycle>>
                       /\ WipeStore => cleared = {"episodic", "staging", "profile", "tombstones"}
                       /\ torn \subseteq torn'
                       /\ ~WipeStore /\ cleared # {} => torn' = torn \cup Rows
    BY <1>1, WipeClears
  <2>2. at' # "mark" /\ doomed' = {}
    BY <2>1 DEF cycle, TypeOK
  <2>3. Rows' = Rows
    BY <2>1, ClearMoves
  <2>4. CASE WipeStore
    <3>1. \A r \in Rows : staging'[r].status = "wiped"
      BY <2>1, <2>4, ClearKeepsRows
    <3> QED BY <2>2, <2>3, <3>1 DEF KeptInv, RowKept, WorkKept, DoomedStand
  <2>5. CASE ~WipeStore /\ cleared # {}
    BY <2>1, <2>2, <2>3, <2>5 DEF KeptInv, RowKept, WorkKept, DoomedStand
  <2>6. CASE cleared = {}
    <3>1. UNCHANGED <<staging, memories, tombstones, index>>
      BY <2>1, <2>6 DEF Cleared
    <3>2. KeptTexts' = KeptTexts
      BY <3>1 DEF KeptTexts, Standing, Ghosts, Stored
    <3> QED BY <2>1, <2>2, <2>3, <3>1, <3>2 DEF KeptInv, RowKept, WorkKept, DoomedStand
  <2> QED BY <2>4, <2>5, <2>6
<1>2. CASE ~WipeStore /\ ~WipeFails
  <2>1. DoomedStand' /\ Standing \subseteq Standing' /\ KeptTexts \subseteq KeptTexts'
    BY <1>2, TextsKept
  <2>0. UNCHANGED torn
    BY <1>2 DEF Next, Remember, BeginCycle, Lease, Upsert, Skip, Insert, Mark, EntryFails, NextEntry, SyncIndex,
       SyncMark, Expire, Archive, Unindex, Bury, WipeIndex, Stop, Restart, Start, vars, history
  <2>2. ASSUME NEW r \in Rows', staging'[r].status = "processed", staging'[r].decision # "upsert_profile",
               r \notin torn'
        PROVE  staging'[r].text \in KeptTexts'
    <3>1. /\ r \in Rows /\ staging'[r].text = staging[r].text /\ staging[r].decision # "upsert_profile"
          /\ staging[r].status = "processed" \/ ((Skip \/ Mark) /\ r = Row)
      BY <1>2, <2>2, ProcessedByMark
    <3>2. CASE staging[r].status = "processed"
      BY <2>0, <2>1, <2>2, <3>1, <3>2 DEF KeptInv, RowKept
    <3>3. CASE Mark /\ r = Row
      BY <2>1, <3>1, <3>3 DEF Mark, KeptInv, WorkKept, KeptTexts
    <3>4. CASE Skip /\ r = Row
      <4>1. CASE Buried
        BY <2>1, <3>1, <3>4, <4>1 DEF Buried, KeptTexts
      <4>2. CASE Duplicate
        <5>1. staging[Row].text \in Standing \cup Ghosts
          BY <4>2 DEF Duplicate, Standing, Ghosts, TypeOK
        <5> QED BY <2>1, <3>1, <3>4, <5>1 DEF KeptTexts
      <4> QED BY <3>4, <4>1, <4>2 DEF Skip
    <3> QED BY <3>1, <3>2, <3>3, <3>4
  <2>3. WorkKept'
    <3>1. CASE Upsert
      <4>1. staging' = staging /\ Row' = Row /\ staging[Row].decision = "upsert_profile"
        BY <3>1 DEF Upsert, Row
      <4> QED BY <4>1 DEF WorkKept
    <3>2. CASE Insert
      <4>1. staging' = staging /\ Row' = Row
        BY <3>2 DEF Insert, Row
      <4>2. Row \in Rows
        BY <3>2, RowOfBatch DEF Insert, Episodic, TypeOK
      <4>3. staging[Row].text \in Statements /\ staging[Row].said \in Nat /\ Row \in Nat
        BY <4>2, RowType DEF StagingRow, Rows
      <4>4. staging[Row].text \in Standing'
        BY <3>2, <4>3, TextsAppended DEF Insert
      <4> QED BY <4>1, <4>4 DEF WorkKept
    <3>3. CASE at = "mark" /\ UNCHANGED <<staging, batch>>
      <4>1. Row' = Row
        BY <3>3 DEF Row
      <4> QED BY <2>1, <3>3, <4>1 DEF KeptInv, WorkKept
    <3>4. CASE at' # "mark"
      BY <3>4 DEF WorkKept
    <3> QED BY <1>2, <3>1, <3>2, <3>3, <3>4, AtMark
  <2> QED BY <2>1, <2>2, <2>3 DEF KeptInv, RowKept
<1> QED BY <1>1, <1>2

(***************************************************************************)
(* A text marked as processed has a memory, shown or archived, or a        *)
(* tombstone, or a point in the index that outlived its memory, unless its *)
(* row was staged before a wipe that broke off half-way.  The third is a   *)
(* loss when the text was said after the wipe that left the point; what is *)
(* excluded is that a stop or an error between the insert, the mark and    *)
(* the collector loses it (dreaming_cycle.py:299-379).                     *)
(***************************************************************************)
THEOREM ProcessedAlwaysKept == Spec => []ProcessedIsKept
BY KeptIsKept, TypeInit, TypeStep, KeptInit, KeptStep, PTL DEF Spec

(***************************************************************************)
(* A row becomes a memory once per try.  A row that is pending, or that    *)
(* the batch holds and the cycle has not stored yet, has no more copies    *)
(* than leases that lapsed.                                                *)
(***************************************************************************)
Copies(r) == {m \in Stored : memories[m].of = r}
Fresh(r) == staging[r].status = "pending" \/ (r \in batch /\ ~(at = "mark" /\ r = Row))
TriesInv ==
  /\ \A m \in Stored : memories[m].of \in {0} \cup Rows
  /\ \A r \in Rows : /\ Cardinality(Copies(r)) <= 1 + staging[r].lapsed
                     /\ Fresh(r) => Cardinality(Copies(r)) <= staging[r].lapsed

LEMMA TriesInit == Init => TriesInv
  BY DEF Init, TriesInv, Rows, Stored

LEMMA CopiesFinite == ASSUME TypeOK, NEW r PROVE IsFiniteSet(Copies(r)) /\ Cardinality(Copies(r)) \in Nat
<1>1. Len(memories) \in Nat
  BY DEF TypeOK
<1>2. IsFiniteSet(Stored)
  BY <1>1, FS_Interval DEF Stored
<1>3. Copies(r) \subseteq Stored
  BY DEF Copies
<1> QED BY <1>2, <1>3, FS_Subset, FS_CardinalityType

LEMMA CopiesStay == ASSUME MemoriesKept, NEW r PROVE Stored' = Stored /\ Copies(r)' = Copies(r)
<1>1. Stored' = Stored
  BY DEF MemoriesKept, Stored
<1> QED BY <1>1 DEF MemoriesKept, Copies

LEMMA CopiesAppended ==
  ASSUME TypeOK, NEW text \in Statements, NEW row \in Nat, NEW said \in Nat,
         memories' = Append(memories, NewMemory(text, row, said)), NEW r
  PROVE  /\ Copies(r)' = IF r = row THEN Copies(r) \cup {Len(memories) + 1} ELSE Copies(r)
         /\ Len(memories) + 1 \notin Copies(r)
         /\ TriesInv /\ row \in {0} \cup Rows => \A m \in Stored' : memories'[m].of \in {0} \cup Rows
<1>1. /\ Len(memories') = Len(memories) + 1 /\ \A m \in Stored : memories'[m] = memories[m]
      /\ memories'[Len(memories) + 1] = NewMemory(text, row, said) /\ memories \in Seq(Memory)
  BY MemoryAppended DEF TypeOK
<1>2. NewMemory(text, row, said).of = row
  BY DEF NewMemory
<1>3. Stored' = Stored \cup {Len(memories) + 1} /\ Len(memories) + 1 \notin Stored
  BY <1>1 DEF Stored
<1> QED BY <1>1, <1>2, <1>3 DEF Copies, TriesInv

\* A lease that lapses allows one copy more; otherwise nothing gets fresh again.
LEMMA TriesKept ==
  ASSUME TypeOK, TriesInv, MemoriesKept, Rows' = Rows,
         \A r \in Rows : \/ staging'[r].lapsed = staging[r].lapsed /\ (Fresh(r)' => Fresh(r))
                         \/ staging'[r].lapsed = staging[r].lapsed + 1
  PROVE  TriesInv'
<1>1. \A m \in Stored' : memories'[m].of \in {0} \cup Rows'
  BY CopiesStay DEF TriesInv, MemoriesKept
<1>2. ASSUME NEW r \in Rows
      PROVE  /\ Cardinality(Copies(r)') <= 1 + staging'[r].lapsed
             /\ Fresh(r)' => Cardinality(Copies(r)') <= staging'[r].lapsed
  <2>1. staging[r].lapsed \in Nat /\ Cardinality(Copies(r)) \in Nat
    BY RowType, CopiesFinite DEF StagingRow
  <2>2. Copies(r)' = Copies(r)
    BY CopiesStay
  <2> DEFINE n == Cardinality(Copies(r))
  <2>3. n <= 1 + staging[r].lapsed /\ (Fresh(r) => n <= staging[r].lapsed)
    BY DEF TriesInv
  <2>4. n <= 1 + staging'[r].lapsed /\ (Fresh(r)' => n <= staging'[r].lapsed)
    <3> HIDE DEF n
    <3> QED BY <2>1, <2>3 DEF n
  <2> QED BY <2>2, <2>4
<1> QED BY <1>1, <1>2 DEF TriesInv

LEMMA TriesStep == TypeOK /\ BatchInv /\ TriesInv /\ [Next]_vars => TriesInv'
<1> SUFFICES ASSUME TypeOK, BatchInv, TriesInv, [Next]_vars PROVE TriesInv'
  OBVIOUS
<1>0. batch \subseteq Rows /\ \A r \in Rows : staging[r].lapsed \in Nat /\ Cardinality(Copies(r)) \in Nat
  BY RowType, CopiesFinite DEF TypeOK, StagingRow
<1>1. ASSUME NEW s \in Statements, Remember(s) PROVE TriesInv'
  <2>1. UNCHANGED <<batch, at>> /\ at # "mark" /\ wipes \in Nat /\ Row' = Row
    BY <1>1, BoundsAssumption DEF Remember, LoopFree, cycle, TypeOK, Row
  <2>2. /\ \A r \in Nat \ {0} : Copies(r)' = Copies(r)
        /\ \A m \in Stored' : memories'[m].of \in {0} \cup Rows
    <3>1. CASE memories' = Append(memories, NewMemory(s, 0, wipes))
      BY <2>1, <3>1, CopiesAppended
    <3>2. CASE UNCHANGED memories
      BY <3>2 DEF Copies, Stored, TriesInv
    <3> QED BY <1>1, <3>1, <3>2 DEF Remember, StoreFact
  <2>3. Rows \subseteq Nat \ {0} /\ Rows \subseteq Rows'
    BY <1>1, RememberMoves DEF Rows
  <2>4. ASSUME NEW r \in Rows
        PROVE  /\ Cardinality(Copies(r)') <= 1 + staging'[r].lapsed
               /\ Fresh(r)' => Cardinality(Copies(r)') <= staging'[r].lapsed
    <3>1. Stays(r) /\ Copies(r)' = Copies(r)
      BY <1>1, <2>2, <2>3, RememberMoves
    <3>2. staging'[r].lapsed = staging[r].lapsed /\ (Fresh(r)' => Fresh(r))
      BY <1>0, <2>1, <3>1 DEF Stays, Moved, Fresh
    <3> QED BY <3>1, <3>2 DEF TriesInv
  <2>5. CASE UNCHANGED staging /\ Rows' = Rows
    BY <2>2, <2>4, <2>5 DEF TriesInv
  <2>6. ASSUME NEW n \in Nat \ {0}, n = Len(staging) + 1,
               Rows' = Rows \cup {n}, staging'[n] = NewRow(s, Decision(s))
        PROVE  TriesInv'
    <3>1. staging'[n].lapsed = 0
      BY <2>6 DEF NewRow
    <3>2. n \notin Rows
      BY <2>6 DEF Rows
    <3>3. Copies(n) = {}
      BY <3>2 DEF Copies, TriesInv
    <3>4. Cardinality(Copies(n)') = 0
      BY <2>2, <3>3, FS_EmptySet
    <3> QED BY <2>2, <2>4, <2>6, <3>1, <3>4 DEF TriesInv
  <2> QED BY <1>1, <2>5, <2>6, RememberMoves
<1>2. CASE BeginCycle
  <2>1. MemoriesKept /\ at' # "mark" /\ batch' \subseteq {r \in Rows : staging'[r].status = "pending"}
    BY <1>2, MemoriesStay DEF BeginCycle, Oldest
  <2> QED BY <1>0, <1>2, <2>1, BeginMoves, TriesKept DEF Stays, Moved, Fresh
<1>3. CASE Lease
  <2>1. MemoriesKept /\ at = "lease" /\ batch' = batch
    BY <1>3, MemoriesStay DEF Lease
  <2>2. Rows' = Rows /\ \A r \in Rows : Moved(r, StatusNow(r, "leased"), 0)
    BY <1>3, StatusMoves DEF Lease
  <2> QED BY <1>0, <2>1, <2>2, TriesKept DEF StatusNow, Moved, Fresh
<1>4. ASSUME Skip \/ Mark PROVE TriesInv'
  <2>1. MemoriesKept /\ batch' = batch \ {Row} /\ at' = "turn"
    BY <1>4, MemoriesStay DEF Skip, Mark
  <2>2. Rows' = Rows /\ \A r \in Rows : Moved(r, StatusNow(r, "processed"), 0)
    BY <1>4, StatusMoves DEF Skip, Mark
  <2> QED BY <1>0, <2>1, <2>2, TriesKept DEF StatusNow, Moved, Fresh
<1>5. CASE Upsert
  <2>1. MemoriesKept /\ Rows' = Rows /\ UNCHANGED <<batch, staging>> /\ at = "store" /\ Row' = Row
    BY <1>5, MemoriesStay DEF Upsert, Row, Rows
  <2> QED BY <2>1, TriesKept DEF Fresh
<1>6. CASE Insert
  <2>1. /\ UNCHANGED <<staging, batch>> /\ Row' = Row /\ Rows' = Rows /\ at = "store" /\ at' = "mark"
        /\ Row \in batch /\ Row \in Rows
    BY <1>0, <1>6, RowOfBatch DEF Insert, Episodic, Row, Rows, TypeOK
  <2>2. staging[Row].text \in Statements /\ staging[Row].said \in Nat /\ Row \in Nat
    BY <2>1, RowType DEF StagingRow, Rows
  <2>3. \A r : /\ Copies(r)' = IF r = Row THEN Copies(r) \cup {Len(memories) + 1} ELSE Copies(r)
               /\ Len(memories) + 1 \notin Copies(r)
    BY <1>6, <2>2, CopiesAppended DEF Insert
  <2>4. \A m \in Stored' : memories'[m].of \in {0} \cup Rows'
    BY <1>6, <2>1, <2>2, CopiesAppended DEF Insert
  <2>5. ASSUME NEW r \in Rows, r # Row
        PROVE  /\ Cardinality(Copies(r)') <= 1 + staging'[r].lapsed
               /\ Fresh(r)' => Cardinality(Copies(r)') <= staging'[r].lapsed
    BY <2>1, <2>3, <2>5 DEF TriesInv, Fresh
  <2>6. /\ Cardinality(Copies(Row)') <= 1 + staging'[Row].lapsed
        /\ ~(staging'[Row].status = "pending")
    <3>1. Cardinality(Copies(Row)) <= staging[Row].lapsed
      BY <2>1 DEF TriesInv, Fresh
    <3>2. Cardinality(Copies(Row) \cup {Len(memories) + 1}) = Cardinality(Copies(Row)) + 1
      BY <2>3, CopiesFinite, FS_AddElement
    <3>3. Cardinality(Copies(Row)) + 1 <= 1 + staging[Row].lapsed
      BY <1>0, <2>1, <3>1
    <3>4. staging[Row].status # "pending"
      BY <2>1 DEF BatchInv, AtWork
    <3> QED BY <2>1, <2>3, <3>2, <3>3, <3>4
  <2>7. \A r \in Rows : /\ Cardinality(Copies(r)') <= 1 + staging'[r].lapsed
                        /\ Fresh(r)' => Cardinality(Copies(r)') <= staging'[r].lapsed
    BY <2>1, <2>5, <2>6 DEF Fresh
  <2> QED BY <2>1, <2>4, <2>7 DEF TriesInv
<1>7. ASSUME EntryFails \/ Stop PROVE TriesInv'
  <2>1. MemoriesKept /\ UNCHANGED staging /\ batch' = {} /\ Rows' = Rows
    BY <1>7, MemoriesStay DEF EntryFails, Stop, tables, Rows
  <2> QED BY <2>1, TriesKept DEF Fresh
<1>8. ASSUME \/ NextEntry \/ SyncIndex \/ SyncMark \/ Archive \/ Unindex \/ Bury
             \/ WipeIndex \/ UNCHANGED vars
      PROVE  TriesInv'
  <2>1. MemoriesKept
    BY <1>8, MemoriesStay, SyncKeepsMemories, ArchiveKeepsMemories
       DEF NextEntry, SyncIndex, Unindex, Bury, WipeIndex, vars, tables
  <2>2. UNCHANGED <<staging, batch>> /\ Rows' = Rows /\ Row' = Row
    BY <1>8 DEF NextEntry, SyncIndex, SyncMark, Archive, Unindex, Bury, WipeIndex, vars, tables, cycle,
       Rows, Row
  <2>3. at = "mark" => at' = "mark"
    BY <1>8 DEF NextEntry, SyncIndex, SyncMark, Archive, Unindex, Bury, WipeIndex, vars, cycle
  <2> QED BY <2>1, <2>2, <2>3, TriesKept DEF Fresh
<1>9. ASSUME Expire \/ Restart PROVE TriesInv'
  <2>1. MemoriesKept /\ batch' = batch /\ batch = {}
    BY <1>9, MemoriesStay DEF Expire, Restart, Start, BatchInv
  <2> QED BY <1>0, <1>9, <2>1, ExpireMoves, RestartMoves, TriesKept DEF Stays, Moved, Fresh
<1>10. CASE WipeStore \/ WipeFails
  <2>1. PICK cleared : Cleared(cleared) /\ wiping /\ UNCHANGED cycle
    BY <1>10, WipeClears
  <2>2. MemoriesKept /\ batch' = batch /\ at # "mark" /\ at' = at
    BY <2>1, ClearKeepsMemories DEF cycle, TypeOK
  <2>3. Rows' = Rows /\ \A r \in Rows : Moved(r, "wiped", 0) \/ Stays(r)
    BY <2>1, ClearMoves
  <2> QED BY <1>0, <2>2, <2>3, TriesKept DEF Stays, Moved, Fresh
<1> QED BY <1>1, <1>2, <1>3, <1>4, <1>5, <1>6, <1>7, <1>8, <1>9, <1>10 DEF Next

(***************************************************************************)
(* A staging row becomes a memory a second time only after a try that was  *)
(* interrupted between the insert and the mark, so never more often than   *)
(* its lease lapsed (dreaming_cycle.py:173-199, 299-379).                  *)
(***************************************************************************)
THEOREM StoredOnceEachTry == Spec => []StoredOncePerTry
<1>1. TriesInv => StoredOncePerTry
  BY DEF TriesInv, Copies, StoredOncePerTry
<1> QED BY <1>1, TypeInit, TypeStep, BatchInit, BatchStep, TriesInit, TriesStep, PTL DEF Spec

(***************************************************************************)
(* The last word.  Rows of the profile are live until they are processed,  *)
(* expire or are wiped.  Those processed were said before those live, and  *)
(* a batch holds the oldest: the last live one carries a value the user    *)
(* was told, and with none live the profile shows one.                     *)
(***************************************************************************)
Live == {r \in Upserts : staging[r].status \in Unprocessed}
Done == {r \in Upserts : staging[r].status = "processed"}
Excused ==
  Upserts \cap (late \cup snatched) # {} \/ \E r \in Upserts : staging[r].status = "expired"
Shown == IF profile = Nothing THEN Nothing ELSE profile.value
Said(r) == staging[r].text.value

WorkShown == at = "mark" /\ Row \in Upserts => Shown = Said(Row)
InOrder ==
  \A q \in Live : /\ \A p \in Done : p < q
                  /\ q \notin batch => \A p \in batch : p < q
Told ==
  IF Live = {} THEN Shown \in told
               ELSE \E q \in Live : Said(q) \in told /\ \A r \in Live : r <= q
LastInv == WorkShown /\ (Excused \/ (InOrder /\ Told))

LEMMA LastInit == Init => LastInv
  BY DEF Init, LastInv, WorkShown, InOrder, Told, Live, Upserts, Rows, Shown

LEMMA LastIsTold == LastInv => LastWordStands
<1> SUFFICES ASSUME LastInv, \A r \in Upserts : staging[r].status \in {"processed", "wiped"},
                    Upserts \cap (late \cup snatched) = {}
             PROVE  Shown \in told
  BY DEF LastWordStands, Shown
<1>1. ~Excused /\ Live = {}
  BY DEF Excused, Live, Unprocessed
<1> QED BY <1>1 DEF LastInv, Told

\* The oldest of a set of rows were said before the others.
LEMMA OldestFirst ==
  ASSUME NEW n \in Nat, NEW P \in SUBSET (1 .. n), NEW p \in Oldest(P), NEW q \in P, q \notin Oldest(P)
  PROVE  p < q
<1> DEFINE before(x) == {y \in P : y < x}
<1>1. IsFiniteSet(P)
  <2>1. IsFiniteSet(1 .. n)
    BY FS_Interval
  <2> QED BY <2>1, FS_Subset
<1>2. \A x : IsFiniteSet(before(x)) /\ Cardinality(before(x)) \in Nat
  BY <1>1, FS_Subset, FS_CardinalityType
<1>3. Cardinality(before(p)) < BatchSize /\ ~(Cardinality(before(q)) < BatchSize) /\ p \in P
  BY DEF Oldest
<1>4. SUFFICES ASSUME q <= p PROVE FALSE
  BY <1>3
<1>5. before(q) \subseteq before(p)
  <2>1. P \subseteq Nat /\ p \in Nat /\ q \in Nat
    BY <1>3
  <2>2. \A y \in P : y < q => y < p
    BY <1>4, <2>1
  <2> QED BY <2>2
<1>6. Cardinality(before(q)) <= Cardinality(before(p))
  BY <1>2, <1>5, FS_Subset
<1> HIDE DEF before
<1> QED BY <1>2, <1>3, <1>6, BoundsAssumption

\* Steps that leave every row where it stands.
StandsStill == Upserts' = Upserts /\ Live' = Live /\ Done' = Done /\ \A r \in Rows : Said(r)' = Said(r)

LEMMA StandsIfStatus ==
  ASSUME Rows' = Rows,
         \A r \in Rows : /\ staging'[r].text = staging[r].text /\ staging'[r].decision = staging[r].decision
                         /\ staging'[r].status \in Unprocessed <=> staging[r].status \in Unprocessed
                         /\ staging'[r].status = "processed" <=> staging[r].status = "processed"
  PROVE  StandsStill
<1>1. Upserts' = Upserts
  BY DEF Upserts
<1> QED BY <1>1 DEF StandsStill, Live, Done, Upserts, Said

LEMMA Unmoved == TypeOK /\ UNCHANGED staging => StandsStill
<1> SUFFICES ASSUME TypeOK, UNCHANGED staging PROVE StandsStill
  OBVIOUS
<1> QED BY StandsIfStatus DEF Rows

LEMMA ToldStays ==
  ASSUME Told, StandsStill, Shown' = Shown \/ Live # {}, told \subseteq told'
  PROVE  Told'
<1>1. \A r \in Live : r \in Rows
  BY DEF Live, Upserts
<1> QED BY <1>1 DEF Told, StandsStill

LEMMA OrderStays ==
  ASSUME InOrder, StandsStill, batch' \subseteq batch,
         batch' = {} \/ \A q \in Live : q \in batch => q \in batch'
  PROVE  InOrder'
  BY DEF InOrder, StandsStill

\* An excuse stands until everything is wiped.
LEMMA ExcuseStays ==
  ASSUME TypeOK, BatchInv, [Next]_vars, ~WipeStore, ~WipeFails, Excused
  PROVE  Excused'
<1> USE DEF Moved, Stays
<1>1. late \subseteq late' /\ snatched \subseteq snatched'
  BY DEF Next, Remember, BeginCycle, Lease, Upsert, Skip, Insert, Mark, EntryFails, NextEntry,
     SyncIndex, SyncMark, Expire, Archive, Unindex, Bury, WipeIndex, Stop, Restart, Start, vars, history
<1>2. ASSUME NEW r \in Rows
      PROVE  /\ r \in Rows' /\ staging'[r].decision = staging[r].decision
             /\ staging[r].status = "expired" => staging'[r].status = "expired"
  <2>1. ASSUME NEW s \in Statements, Remember(s) PROVE r \in Rows' /\ Stays(r)
    BY <2>1, RememberMoves
  <2>2. ASSUME BeginCycle \/ Expire \/ Restart
        PROVE  /\ r \in Rows' /\ staging'[r].decision = staging[r].decision
               /\ staging[r].status = "expired" => staging'[r].status = "expired"
    BY <2>2, BeginMoves, ExpireMoves, RestartMoves
  <2>3. ASSUME Lease \/ Skip \/ Mark
        PROVE  /\ r \in Rows' /\ staging'[r].decision = staging[r].decision
               /\ staging[r].status = "expired" => staging'[r].status = "expired"
    <3>1. PICK status : SetStatus(status)
      BY <2>3 DEF Lease, Skip, Mark
    <3>2. Row \in batch
      BY <2>3, RowOfBatch DEF Lease, Skip, Mark, Episodic, TypeOK
    <3>3. staging[Row].status # "expired"
      BY <3>2 DEF BatchInv
    <3> QED BY <3>1, <3>3, StatusMoves DEF StatusNow
  <2>4. CASE \/ Upsert \/ Insert \/ EntryFails \/ NextEntry \/ SyncIndex \/ SyncMark \/ Archive \/ Unindex
             \/ Bury \/ WipeIndex \/ Stop \/ UNCHANGED vars
    <3>1. UNCHANGED staging
      BY <2>4 DEF Upsert, Insert, EntryFails, NextEntry, SyncIndex, SyncMark, Archive, Unindex, Bury,
         WipeIndex, Stop, vars, tables
    <3> QED BY <3>1, RowsMove
  <2> QED BY <2>1, <2>2, <2>3, <2>4 DEF Next
<1>3. Upserts \subseteq Upserts'
  BY <1>2 DEF Upserts
<1> QED BY <1>1, <1>2, <1>3 DEF Excused, Upserts

LEMMA WorkShownStep ==
  ASSUME TypeOK, WorkShown, [Next]_vars
  PROVE  WorkShown'
<1>1. CASE Upsert
  <2>1. /\ UNCHANGED <<staging, batch>> /\ Row' = Row /\ Row \in Rows
        /\ profile' = [value |-> Said(Row), said |-> staging[Row].said]
    BY <1>1, RowOfBatch DEF Upsert, Row, TypeOK, Said
  <2>2. Said(Row) \in Values /\ staging[Row].said \in Nat
    BY <2>1, RowType DEF StagingRow, Said, Values
  <2>3. profile' # Nothing /\ profile'.value = Said(Row)
    BY <2>1, <2>2, NothingAssumption
  <2> QED BY <2>1, <2>3 DEF WorkShown, Shown, Said
<1>2. CASE Insert
  <2>1. UNCHANGED <<staging, batch>> /\ Row' = Row /\ Row \notin Upserts
    BY <1>2 DEF Insert, Episodic, Row, Upserts
  <2> QED BY <2>1 DEF WorkShown, Upserts, Rows
<1>3. CASE at = "mark" /\ UNCHANGED <<staging, batch>> /\ ~Upsert /\ ~Insert /\ ~WipeStore /\ ~WipeFails
  <2>1. UNCHANGED profile /\ Row' = Row
    BY <1>3 DEF Next, Remember, LoopFree, BeginCycle, Lease, Skip, Mark, EntryFails, NextEntry,
       SyncIndex, SyncMark, Expire, Archive, Unindex, Bury, WipeIndex, Stop, Restart, Start, vars, tables, Row
  <2> QED BY <1>3, <2>1 DEF WorkShown, Shown, Said, Upserts, Rows
<1>4. CASE at' # "mark"
  BY <1>4 DEF WorkShown
<1>5. CASE WipeStore \/ WipeFails
  BY <1>5, WipeClears DEF cycle, TypeOK, WorkShown
<1> QED BY <1>1, <1>2, <1>3, <1>4, <1>5, AtMark

\* remember(): its row, if there is one, is the last, and its value is told.
LEMMA RememberLast ==
  ASSUME TypeOK, InOrder, Told, NEW s \in Statements, Remember(s)
  PROVE  InOrder' /\ Told'
<1>0. batch' = batch /\ batch \subseteq Rows
  BY DEF Remember, cycle, TypeOK
<1>1. Shown' = Shown \/ (Shown' = s.value /\ s.value \in told')
  <2>1. CASE Decision(s) = "upsert_profile"
    <3>1. profile' = [value |-> s.value, said |-> wipes] /\ s.value \in told'
      BY <2>1 DEF Remember, StoreFact
    <3>2. profile' # Nothing /\ profile'.value = s.value
      BY <3>1, NothingAssumption DEF Values, TypeOK
    <3> QED BY <3>1, <3>2 DEF Shown
  <2>2. CASE Decision(s) # "upsert_profile"
    BY <2>2 DEF Remember, StoreFact, Shown
  <2> QED BY <2>1, <2>2
<1>2. CASE StandsStill /\ told \subseteq told'
  <2>1. Told'
    <3>1. CASE Live = {}
      BY <1>1, <1>2, <3>1 DEF Told, StandsStill
    <3>2. CASE Live # {}
      BY <1>2, <3>2, ToldStays
    <3> QED BY <3>1, <3>2
  <2> QED BY <1>0, <1>2, <2>1, OrderStays
<1>3. CASE UNCHANGED staging
  <2>1. told \subseteq told'
    <3>1. Len(staging) # Len(Append(staging, NewRow(s, Decision(s))))
      BY DEF TypeOK
    <3> QED BY <1>3, <3>1 DEF Remember
  <2> QED BY <1>2, <1>3, <2>1, Unmoved
<1>4. ASSUME NEW n \in Nat \ {0}, n = Len(staging) + 1,
             Rows' = Rows \cup {n}, staging'[n] = NewRow(s, Decision(s)),
             told' = IF Decision(s) = "upsert_profile" THEN {s.value} ELSE told,
             \A r \in Rows : Stays(r) /\ r < n
      PROVE  InOrder' /\ Told'
  <2>1. /\ staging'[n].status = "pending" /\ staging'[n].decision = Decision(s) /\ staging'[n].text = s
    BY <1>4 DEF NewRow
  <2>2. n \notin Rows
    BY <1>4
  <2>3. \A r \in Rows : Said(r)' = Said(r)
    BY <1>4 DEF Stays, Moved, Said
  <2>4. CASE Decision(s) = "upsert_profile"
    <3>1. Upserts' = Upserts \cup {n}
      BY <1>4, <2>1, <2>4 DEF Stays, Moved, Upserts
    <3>2. Live' = Live \cup {n} /\ Done' = Done
      BY <1>4, <2>1, <3>1 DEF Stays, Moved, Live, Done, Upserts, Unprocessed
    <3>3. \A r \in Live \cup Done \cup batch : r < n
      BY <1>0, <1>4 DEF Live, Done, Upserts
    <3>4. InOrder'
      BY <1>0, <3>2, <3>3 DEF InOrder
    <3>5. Said(n)' \in told'
      BY <1>4, <2>1, <2>4 DEF Said
    <3>6. \A r \in Live' : r <= n
      BY <1>4, <3>2, <3>3 DEF Live, Upserts, Rows
    <3>7. Told'
      BY <3>2, <3>5, <3>6 DEF Told
    <3> QED BY <3>4, <3>7
  <2>5. CASE Decision(s) # "upsert_profile"
    <3>1. Upserts' = Upserts
      BY <1>4, <2>1, <2>5 DEF Stays, Moved, Upserts
    <3>2. Live' = Live /\ Done' = Done
      BY <1>4, <3>1 DEF Stays, Moved, Live, Done, Upserts
    <3> QED BY <1>2, <1>4, <2>3, <2>5, <3>1, <3>2 DEF StandsStill
  <2> QED BY <2>4, <2>5
<1> QED BY <1>3, <1>4, RememberMoves

\* A cycle takes the oldest pending rows; those leased stay behind, if not late.
LEMMA BeginLast ==
  ASSUME TypeOK, InOrder, Told, BeginCycle, ~Excused'
  PROVE  InOrder' /\ Told'
<1>1. /\ Rows' = Rows
      /\ \A r \in Rows : Stays(r) \/ (staging[r].status \in {"leased", "stale"} /\ Moved(r, "pending", 1))
  BY BeginMoves
<1>2. StandsStill
  BY <1>1, StandsIfStatus DEF Stays, Moved, Unprocessed
<1>3. Told'
  BY <1>2, ToldStays DEF BeginCycle, Shown
<1> DEFINE P == {r \in Rows : staging'[r].status = "pending"}
<1>4. batch' = Oldest(P) /\ P \in SUBSET (1 .. Len(staging)) /\ Len(staging) \in Nat
  BY DEF BeginCycle, Rows, TypeOK
<1>5. ASSUME NEW q \in Live, q \notin batch', NEW p \in batch' PROVE p < q
  <2>1. q \in Rows /\ q \in Upserts /\ q \in Nat /\ p \in Nat
    BY <1>4 DEF Live, Upserts, Rows, Oldest
  <2>2. staging'[q].status \in {"pending", "leased", "stale"}
    BY <1>1, <2>1 DEF Live, Stays, Moved, Unprocessed
  <2>3. CASE staging'[q].status = "pending"
    BY <1>4, <1>5, <2>1, <2>3, OldestFirst
  <2>4. CASE staging'[q].status \in {"leased", "stale"}
    <3>1. q \notin late'
      BY <1>2, <2>1 DEF Excused, StandsStill
    <3>2. ~(p > q)
      BY <1>5, <2>1, <2>4, <3>1 DEF BeginCycle
    <3>3. p # q
      BY <1>5
    <3> QED BY <2>1, <3>2, <3>3
  <2> QED BY <2>2, <2>3, <2>4
<1> QED BY <1>2, <1>3, <1>5 DEF InOrder, StandsStill

\* The mark of a row of the profile: it was the first of those live.
LEMMA MarkLast ==
  ASSUME TypeOK, BatchInv, WorkShown, InOrder, Told, ~Excused, Mark, Row \in Upserts
  PROVE  InOrder' /\ Told'
<1>1. Row \in batch /\ batch' = batch \ {Row} /\ batch \subseteq Rows /\ at = "mark"
  BY RowOfBatch DEF Mark, TypeOK
<1>2. staging[Row].status = "leased"
  BY <1>1 DEF BatchInv, AtWork, Excused
<1>3. Rows' = Rows /\ \A r \in Rows : Moved(r, StatusNow(r, "processed"), 0)
  BY StatusMoves DEF Mark
<1>4. Upserts' = Upserts /\ \A r \in Rows : Said(r)' = Said(r)
  BY <1>3 DEF Moved, Upserts, Said
<1>5. Live' = Live \ {Row} /\ Done' = Done \cup {Row} /\ Row \in Live
  BY <1>2, <1>3, <1>4 DEF Moved, StatusNow, Live, Done, Upserts, Unprocessed
<1>6. Shown' = Said(Row) /\ told' = told
  BY <1>1 DEF WorkShown, Mark, Shown, history
<1>7. \A q \in batch : Row <= q
  BY <1>1, RowLeast
<1>8. \A q \in Live' : Row < q
  <2>1. \A q \in Live : q \in Nat /\ Row \in Nat
    BY <1>1 DEF Live, Upserts, Rows
  <2> QED BY <1>1, <1>5, <1>7, <2>1 DEF InOrder
<1>9. InOrder'
  BY <1>1, <1>5, <1>8 DEF InOrder
<1>10. PICK q \in Live : Said(q) \in told /\ \A r \in Live : r <= q
  BY <1>5 DEF Told
<1>11. CASE q = Row
  <2>1. Live' = {}
    <3>1. \A r \in Live' : r \in Nat /\ Row \in Nat
      BY <1>1, <1>5 DEF Live, Upserts, Rows
    <3> QED BY <1>5, <1>8, <1>10, <1>11, <3>1
  <2> QED BY <1>6, <1>9, <1>10, <1>11, <2>1 DEF Told
<1>12. CASE q # Row
  <2>1. q \in Live' /\ Said(q)' \in told' /\ \A r \in Live' : r <= q
    BY <1>4, <1>5, <1>6, <1>10, <1>12 DEF Live, Upserts
  <2> QED BY <1>9, <2>1 DEF Told
<1> QED BY <1>11, <1>12

LEMMA LastStep == TypeOK /\ BatchInv /\ LastInv /\ [Next]_vars => LastInv'
<1> SUFFICES ASSUME TypeOK, BatchInv, LastInv, [Next]_vars, ~Excused' PROVE InOrder' /\ Told'
  BY WorkShownStep DEF LastInv
<1>1. CASE WipeStore \/ WipeFails
  <2>1. PICK cleared : /\ Cleared(cleared) /\ UNCHANGED <<cycle, late>>
                       /\ WipeStore => cleared = {"episodic", "staging", "profile", "tombstones"}
                       /\ "profile" \in cleared => "staging" \in cleared
                       /\ snatched' = IF "staging" \in cleared THEN snatched \cup batch ELSE snatched
    BY <1>1, WipeClears
  <2>2. CASE "staging" \in cleared
    <3>1. Rows' = Rows /\ \A r \in Rows : staging'[r].status = "wiped"
      BY <2>1, <2>2, ClearMoves, ClearKeepsRows
    <3>2. Live' = {} /\ Done' = {}
      BY <3>1 DEF Live, Done, Upserts, Unprocessed
    <3>3. Shown' \in told'
      BY <1>1, <2>1 DEF WipeStore, WipeFails, Cleared, Shown
    <3> QED BY <3>2, <3>3 DEF InOrder, Told
  <2>3. CASE "staging" \notin cleared
    <3>1. UNCHANGED <<staging, profile, late, snatched, batch>>
      BY <2>1, <2>3, ClearKeepsRows DEF Cleared, cycle
    <3>2. ~Excused
      BY <3>1 DEF Excused, Upserts, Rows
    <3>3. told \subseteq told'
      BY <1>1, <2>1, <2>3 DEF WipeFails
    <3> QED BY <3>1, <3>2, <3>3, Unmoved, ToldStays, OrderStays DEF LastInv, Shown
  <2> QED BY <2>2, <2>3
<1>2. CASE ~WipeStore /\ ~WipeFails
  <2>0. ~Excused /\ WorkShown /\ InOrder /\ Told
    BY <1>2, ExcuseStays DEF LastInv
  <2>1. ASSUME NEW s \in Statements, Remember(s) PROVE InOrder' /\ Told'
    BY <2>0, <2>1, RememberLast
  <2>2. CASE BeginCycle
    BY <2>0, <2>2, BeginLast
  <2>3. ASSUME Lease \/ Skip \/ (Mark /\ Row \notin Upserts) PROVE InOrder' /\ Told'
    <3>1. Row \in batch /\ batch \subseteq Rows
      BY <2>3, RowOfBatch DEF Lease, Skip, Episodic, Mark, TypeOK
    <3>2. PICK status \in {"leased", "processed"} :
            SetStatus(status) /\ (status = "leased" => Lease) /\ (status = "processed" => Row \notin Upserts)
      BY <2>3 DEF Lease, Skip, Episodic, Mark, Upserts
    <3>3. Rows' = Rows /\ \A r \in Rows : Moved(r, StatusNow(r, status), 0)
      BY <3>2, StatusMoves
    <3>4. Upserts' = Upserts /\ \A r \in Rows : Said(r)' = Said(r)
      BY <3>3 DEF Moved, Upserts, Said
    <3>5. Live' = Live /\ Done' = Done
      <4>1. CASE status = "processed"
        BY <3>2, <3>3, <3>4, <4>1 DEF Moved, StatusNow, Live, Done, Upserts
      <4>2. CASE status = "leased"
        <5>1. staging[Row].status \in {"pending", "leased", "wiped"}
          BY <3>1 DEF BatchInv
        <5> QED BY <3>3, <3>4, <4>2, <5>1 DEF Moved, StatusNow, Live, Done, Upserts, Unprocessed
      <4> QED BY <3>2, <4>1, <4>2
    <3>6. UNCHANGED <<profile, told>> /\ batch' \subseteq batch /\ \A q \in Live : q \in batch => q \in batch'
      BY <2>3 DEF Lease, Skip, Episodic, Mark, history, Live, Upserts
    <3> QED BY <2>0, <3>4, <3>5, <3>6, ToldStays, OrderStays DEF StandsStill, Shown
  <2>4. CASE Mark /\ Row \in Upserts
    BY <2>0, <2>4, MarkLast
  <2>5. CASE Upsert
    <3>1. StandsStill /\ UNCHANGED <<batch, told>>
      BY <2>5, Unmoved DEF Upsert, history
    <3>2. Row \in Live
      <4>1. Row \in batch /\ Row \in Upserts
        BY <2>5, RowOfBatch DEF Upsert, TypeOK, Upserts
      <4>2. staging[Row].status \in {"pending", "leased"}
        BY <2>0, <4>1 DEF BatchInv, Excused
      <4> QED BY <4>1, <4>2 DEF Live, Unprocessed
    <3> QED BY <2>0, <3>1, <3>2, ToldStays, OrderStays
  <2>6. ASSUME \/ Insert \/ EntryFails \/ NextEntry \/ SyncIndex \/ SyncMark \/ Archive \/ Unindex
               \/ Bury \/ WipeIndex \/ Stop \/ UNCHANGED vars
        PROVE  InOrder' /\ Told'
    <3>1. UNCHANGED <<staging, profile, told>> /\ (batch' = batch \/ batch' = {})
      BY <2>6 DEF Insert, EntryFails, NextEntry, SyncIndex, SyncMark, Archive, Unindex, Bury,
         WipeIndex, Stop, vars, tables, cycle, history
    <3> QED BY <2>0, <3>1, Unmoved, ToldStays, OrderStays DEF Shown
  <2>7. ASSUME NEW after, Start(after) PROVE InOrder' /\ Told'
    <3>1. StandsStill
      BY <2>7, StartMoves, StandsIfStatus DEF Stays, Moved, Unprocessed
    <3>2. UNCHANGED <<profile, told, batch>>
      BY <2>7 DEF Start, history
    <3> QED BY <2>0, <3>1, <3>2, ToldStays, OrderStays DEF Shown
  <2>8. CASE Expire
    <3>1. UNCHANGED <<profile, told, batch>>
      BY <2>8 DEF Expire, history
    <3>2. /\ Rows' = Rows
          /\ \A r \in Rows : Stays(r) \/ (staging[r].status \in Unprocessed /\ Moved(r, "expired", 0))
      BY <2>8, ExpireMoves
    <3>3. Upserts' = Upserts /\ \A r \in Rows : Said(r)' = Said(r)
      BY <3>2 DEF Stays, Moved, Upserts, Said
    <3>4. \A r \in Upserts : Stays(r)
      BY <3>2, <3>3 DEF Excused, Moved, Upserts
    <3>5. Live' = Live /\ Done' = Done
      BY <3>3, <3>4 DEF Stays, Moved, Live, Done
    <3> QED BY <2>0, <3>1, <3>3, <3>5, ToldStays, OrderStays DEF StandsStill, Shown
  <2> QED BY <1>2, <2>1, <2>2, <2>3, <2>4, <2>5, <2>6, <2>7, <2>8 DEF Next, Restart
<1> QED BY <1>1, <1>2

(***************************************************************************)
(* When the cycle has applied every profile row, the profile says what was *)
(* said last, whatever failed or stopped on the way: rows are replayed in  *)
(* the order they were said, unless a leased one was passed over, old ones *)
(* expired or a wipe met the batch (dreaming_cycle.py:201-266).            *)
(***************************************************************************)
THEOREM LastWordAlwaysStands == Spec => []LastWordStands
BY LastIsTold, TypeInit, TypeStep, BatchInit, BatchStep, LastInit, LastStep, PTL DEF Spec
=============================================================================
