------------------------------ MODULE SlotPool ------------------------------
(***************************************************************************)
(* What the engine gate promises to the doors of the server, and nothing   *)
(* of how: a pool of Slots tickets.  A request wants a slot, is granted    *)
(* one while fewer than Slots are out, and gives it back once.  A request  *)
(* may give up while it wants.  A user turn may tell the background        *)
(* holders to give theirs back; nobody else is ever told.                  *)
(***************************************************************************)
EXTENDS Naturals, FiniteSets

CONSTANTS UserTurns,   \* requests made with Priority.USER_TURN
          Jobs,        \* requests made with Priority.COMPACT or MEMORY_WRITE
          Slots        \* how many tickets may be out at once

VARIABLES wanting,     \* requests that asked and have no answer yet
          holding,     \* requests that hold a slot
          over,        \* requests that gave their slot back or gave up
          told         \* background requests told to give their slot back

poolVars == <<wanting, holding, over, told>>

Clients == UserTurns \cup Jobs

PoolInit ==
  /\ wanting = {}
  /\ holding = {}
  /\ over = {}
  /\ told = {}

\* A user turn may tell every job that holds a slot, or nobody.
MayTell == told' \in {told, told \cup (holding \cap Jobs)}

Ask(r) ==
  /\ r \notin wanting \cup holding \cup over
  /\ wanting' = wanting \cup {r}
  /\ IF r \in UserTurns THEN MayTell ELSE told' = told
  /\ UNCHANGED <<holding, over>>

Remind(r) ==
  /\ r \in wanting \cap UserTurns
  /\ MayTell
  /\ UNCHANGED <<wanting, holding, over>>

Grant(r) ==
  /\ r \notin holding \cup over
  /\ Cardinality(holding) < Slots
  /\ wanting' = wanting \ {r}
  /\ holding' = holding \cup {r}
  /\ IF r \in UserTurns THEN MayTell ELSE told' = told
  /\ UNCHANGED over

GiveUp(r) ==
  /\ r \in wanting
  /\ wanting' = wanting \ {r}
  /\ over' = over \cup {r}
  /\ UNCHANGED <<holding, told>>

GiveBack(r) ==
  /\ r \in holding
  /\ holding' = holding \ {r}
  /\ over' = over \cup {r}
  /\ UNCHANGED <<wanting, told>>

PoolNext == \E r \in Clients : Ask(r) \/ Remind(r) \/ Grant(r) \/ GiveUp(r) \/ GiveBack(r)

PoolSpec == PoolInit /\ [][PoolNext]_poolVars
=============================================================================
