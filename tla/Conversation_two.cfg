\* Three turns on two engines: the compactions of two turns at once.
CONSTANTS
  t1 = t1  t2 = t2  t3 = t3
  Turns = {t1, t2, t3}
  Engines = {"local", "cloud"}
  Keep = 2
  MaxAttempts = 2
  MaxTakeovers = 0
  MaxDeletes = 0
  MaxRestarts = 0
  SavesFail = FALSE
  None = None
SPECIFICATION Spec
SYMMETRY Symmetry
INVARIANT UserMessagesKept
\* The turns and their compactions are over.
CHECK_DEADLOCK FALSE
