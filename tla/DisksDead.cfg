SPECIFICATION Spec
CONSTANTS
  Drives = {d1}
  FlushLimit = 2
  UnmountGap = 1
  KeyRetry = 1
  MaxWishes = 1
  MaxDeaths = 1
  MaxFaults = 0
PROPERTY KeyOutlastsUploads
