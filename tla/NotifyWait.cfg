SPECIFICATION FairSpec
CONSTANTS
  Owners = {p1}
  Manager = m
  Waiters = {w1, w2}
  Nobody = Nobody
  NoNotifies <- MCBoth
  Immediate <- MCBoth
  MaxOid = 2
  MaxTime = 2
  MaxDeaths = 1
INVARIANTS TypeOK NoLostWakeup NewerUntilRead
PROPERTIES WaitsEnd
CHECK_DEADLOCK FALSE
