\* A turn that thinks, two switches, to and fro, and a turn after them, on two slots.
CONSTANTS
  p = p  q = q  v = v  None = None  Guess = Guess
  t1 = t1  t2 = t2  t3 = t3  t4 = t4
  Turns = {t1, t2, t3, t4}
  Paths = {p, q}
  Vision = {}
  Trimmable = {p}
  First = p
  Asking <- FourAsking
  Reply = "a"
  Quiet = "quiet"
  Slots = 2
  MaxCaches = 2
SPECIFICATION Spec
INVARIANTS ReadsItsOwnKv
CHECK_DEADLOCK FALSE
