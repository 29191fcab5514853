\* One turn with any request at any door, and another caller of the daemon that
\* never stops calling.  Turns meet at the gate (EngineGate) and at the breaker.
CONSTANTS
  mlx = mlx  ollama = ollama  api = api  None = None
  t1 = t1  o1 = o1
  Turns = {t1}
  Callers = {t1, o1}
  FailureThreshold = 2
  SuccessThreshold = 2
  Engines = {mlx, ollama, api}
  Rank <- EngineRank
  InProcess = {mlx}
  Guarded = {ollama}
  Cloud = {api}
  CanContinue = {mlx}
  OwnModel = {mlx, ollama}
  Sees = {mlx}
  Requests <- AskAnything
  Slots = 1
SPECIFICATION FairSpec
INVARIANTS StopReachesEngines DeadlineWatchesTheSilent NobodyLeftUnasked
PROPERTIES NothingLeavesUnasked EveryTurnEnds CircuitNeverWedges
CHECK_DEADLOCK FALSE
