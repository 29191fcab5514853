\* Four turns: two sessions in the pool, one of them used again, and a third.
CONSTANTS
  None = None
  t1 = t1  t2 = t2  t3 = t3  t4 = t4
  s1 = s1  s2 = s2  s3 = s3  h1 = h1  h2 = h2  p = p  q = q
  Turns = {t1, t2, t3, t4}
  Sessions = {s1, s2, s3}
  Hashes = {h1, h2}
  Models = {p, q}
  Requests <- SomeRequests
  First = p
  Slots = 1
  MaxSessions = 2
SYMMETRY TurnSymmetry
SPECIFICATION Spec
INVARIANTS PoolWhole GetsWhatItAsked KeepsItsInstance
PROPERTIES EvictsTheOldest
CHECK_DEADLOCK FALSE
