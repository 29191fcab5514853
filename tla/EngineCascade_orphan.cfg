\* Is an engine whose turn is over told to stop?
CONSTANTS
  mlx = mlx  ollama = ollama  api = api  None = None
  t1 = t1  t2 = t2
  Turns = {t1, t2}
  Callers = {t1, t2}
  FailureThreshold = 2
  SuccessThreshold = 2
  Engines = {mlx, ollama, api}
  Rank <- EngineRank
  InProcess = {mlx}
  Guarded = {ollama}
  Cloud = {api}
  CanContinue = {mlx}
  OwnModel = {mlx, ollama}
  Sees = {mlx}
  Requests <- StreamFromMlx
  Slots = 1
SPECIFICATION Spec
INVARIANT StoppedWorkerIsTold
CHECK_DEADLOCK FALSE
