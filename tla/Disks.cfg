SPECIFICATION FairSpec
CONSTANTS
  Drives = {d1, d2}
  FlushLimit = 2
  UnmountGap = 1
  KeyRetry = 1
  MaxWishes = 1
  MaxDeaths = 1
  MaxFaults = 1
INVARIANT PortsAreOwn
PROPERTY UploadsHold
PROPERTY Settles
