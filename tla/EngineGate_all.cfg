\* Two slots, three turns and two jobs: a release, a barging call, a time-out
\* and a second waiter fit between a notification and its turn to run.
CONSTANTS
  u1 = u1  u2 = u2  u3 = u3  j1 = j1  j2 = j2
  UserTurns = {u1, u2, u3}
  Jobs = {j1, j2}
  Slots = 2
SPECIFICATION FairSpec
INVARIANTS NoSleeperBesideFreeSlot SleepingTurnHasTold
PROPERTIES ImplementsPool EveryWaitEnds
\* Every call has been answered and nobody calls any more.
CHECK_DEADLOCK FALSE
