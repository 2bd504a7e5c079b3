SPECIFICATION Spec
CONSTANTS
  Procs = {m, p1}
  Manager = m
  Nobody = Nobody
  Kinds <- MCTwo
  ObjMax = 2
  Blocks = {b1, b2, b3}
  NoBlock = NoBlock
  MaxOid = 3
  MaxDrift = 0
  MaxDeaths = 1
  HardRealtime = FALSE
INVARIANT LockIsReleased
CHECK_DEADLOCK FALSE
SYMMETRY MCSymmetry
