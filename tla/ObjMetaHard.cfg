SPECIFICATION Spec
CONSTANTS
  Procs = {m, p1}
  Manager = m
  Nobody = Nobody
  Kinds <- MCKinds
  ObjMax = 3
  Blocks = {b1, b2}
  NoBlock = NoBlock
  MaxOid = 4
  MaxDrift = 1
  MaxDeaths = 1
  HardRealtime = TRUE
INVARIANTS TypeOK BlocksHaveOneOwner MemoryIsAccounted LockIsReleased NoChildLeftBehind
PROPERTIES KeepTimeIsKept ImplementsRegistry
SYMMETRY MCSymmetry
