SPECIFICATION FairSpec
CONSTANTS
  Disks = {d1, d2}
  SaveAsked = TRUE
  StallAfter = 2
  MaxWrites = 2
  MaxFaults = 3
CHECK_DEADLOCK FALSE
INVARIANT SyncedIsComplete
INVARIANT OffIsAnnounced
PROPERTY Concludes
PROPERTY StatesHold
