\* A stale job is dropped.
CONSTANTS
  s1 = s1  s2 = s2
  Sessions = {s1}
  NoJob = NoJob
  MaxAttempts = 2
  MaxTurns = 2
SPECIFICATION Spec
PROPERTY StaleIsDropped
\* The turns are over and the queues are empty.
CHECK_DEADLOCK FALSE
