\* Three turns, three models: one of them reads images, one cannot trim its KV.
CONSTANTS
  p = p  q = q  v = v  None = None  Guess = Guess
  t1 = t1  t2 = t2  t3 = t3  t4 = t4
  Turns = {t1, t2, t3}
  Paths = {p, q, v}
  Vision = {v}
  Trimmable = {p}
  First = p
  Asking <- SomeAsking
  Reply = "a"
  Quiet = "quiet"
  Slots = 1
  MaxCaches = 2
SPECIFICATION FairSpec
INVARIANTS ReadsItsOwnKv LoadedIsConfigured CacheWhole GeneratesAsAsked
PROPERTIES EveryTurnEnds
CHECK_DEADLOCK FALSE
