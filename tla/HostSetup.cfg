SPECIFICATION FairSpec
CONSTANTS
  MaxFaults = 3
  MaxCrashes = 2
CHECK_DEADLOCK FALSE
INVARIANT ContainersStay
INVARIANT UndoneAtFirst
PROPERTY GetsReady
