SPECIFICATION ProcSpec
CONSTANTS
  Clients = {p1, p2}
  Managers = {m1, m2}
  p1 = p1
  p2 = p2
  m1 = m1
  m2 = m2
  NoWaiters = {p2}
  NoSeg = NoSeg
  Segs = {s1, s2}
  ProcMax = 2
  Casts <- MCCasts
  MaxObjects = 1
  MaxCrashes = 0
  MaxConnects = 4
INVARIANT DeletesForTheDead
CHECK_DEADLOCK FALSE
