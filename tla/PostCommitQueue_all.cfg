\* One session, two turns that overlap or not, two jobs of each on two workers;
\* the other sessions are GateSignal.
CONSTANTS
  s1 = s1
  Sessions = {s1}
  NoJob = NoJob
  MaxAttempts = 2
  MaxTurns = 2
SPECIFICATION FairSpec
INVARIANT PendingIsQueued
PROPERTIES ImplementsBoard NoDoneBehindATurn EveryJobLeaves
\* The turns are over and the queues are empty.
CHECK_DEADLOCK FALSE
