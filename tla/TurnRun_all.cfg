\* One turn at either door, streamed or not, a Continue or not; pushed out of the ring up to twice.
CONSTANTS
  Doors = {"ui", "api"}
  MaxOthers = 2
  NoStep = NoStep
  NoRecord = NoRecord
SPECIFICATION Spec
INVARIANTS MemoryAfterDisk CommittedOnce CutSpendsNothing WholeTrace FinalIffOver LeaseEndsWithTurn
PROPERTY LateBringsNothingBack
\* The turn and its jobs are over.
CHECK_DEADLOCK FALSE
