SPECIFICATION FairSpec
CONSTANTS
  Owners = {p1}
  Manager = m
  Waiters = {w1}
  Nobody = Nobody
  NoNotifies <- MCNo
  Immediate <- MCYes
  MaxOid = 2
  MaxTime = 1
  MaxDeaths = 0
PROPERTY ListenersAreInformed
CHECK_DEADLOCK FALSE
