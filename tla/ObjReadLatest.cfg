SPECIFICATION Spec
CONSTANTS
  Writers = {w1}
  Creator = w1
  NoWriter = NoWriter
  WriteAllow = FALSE
  PtrWrites = TRUE
  HistorySize = 2
  Body = {}
  Sizes = {1}
  DataTimes = {0}
  Time <- MCTime5
  ClockStep = 1
  LowBase = 4
  MinCycle = 0
  SimMode = FALSE
  MaxBlocks = 5
  MaxReuse = 0
  Readers = {r1}
  Requests <- MCLatest
INVARIANTS TypeOK BlocksAreKept LatestIsFresh
PROPERTIES ValidSlotIsFrozen ImplementsHistory
