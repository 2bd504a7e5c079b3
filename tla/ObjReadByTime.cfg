SPECIFICATION Spec
CONSTANTS
  Writers = {w1}
  Creator = w1
  NoWriter = NoWriter
  WriteAllow = FALSE
  PtrWrites = FALSE
  HistorySize = 3
  Body = {}
  Sizes = {1}
  DataTimes = {0,6}
  Time <- MCTime4
  ClockStep = 1
  LowBase = 4
  MinCycle = 0
  SimMode = FALSE
  MaxBlocks = 4
  MaxReuse = 1
  Readers = {r1}
  Requests <- MCByTime
INVARIANT HistoryIsServed
