SPECIFICATION FairSpec
CONSTANTS
  Writers = {w1, w2}
  Creator = w1
  NoWriter = NoWriter
  WriteAllow = TRUE
  PtrWrites = FALSE
  HistorySize = 2
  Body = {}
  Sizes = {1}
  DataTimes = {0}
  Time <- MCTime4
  ClockStep = 1
  LowBase = 4
  MinCycle = 2
  SimMode = FALSE
  MaxBlocks = 4
  MaxReuse = 0
  Readers = {r1}
  Requests <- MCPublic
INVARIANT WritersAreOrdered
PROPERTY EveryReadReturns
