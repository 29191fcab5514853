\* Two turns on two engines, a takeover, a deletion and a restart; one message is kept.
CONSTANTS
  t1 = t1  t2 = t2  t3 = t3
  Turns = {t1, t2}
  Engines = {"local", "cloud"}
  Keep = 1
  MaxAttempts = 2
  MaxTakeovers = 1
  MaxDeletes = 1
  MaxRestarts = 1
  SavesFail = TRUE
  None = None
SPECIFICATION Spec
SYMMETRY Symmetry
INVARIANTS HolderHolds FileIsCurrent
PROPERTIES JobsBringNothingBack ImplementsTranscript
\* The turns and their compactions are over.
CHECK_DEADLOCK FALSE
