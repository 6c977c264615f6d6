SPECIFICATION FairSpec
CONSTANTS
  a = a
  b = b
  short = short
  empty = empty
  NoSum = NoSum
  Versions = {a, b, short, empty}
  SizeOf <- Sizes
  Tasks <- SomeTasks
  RangeParts = 2
  RangeMin = 4
  RangeAttempts = 3
  FetchAttempts = 2
  MaxChanges = 1
  MaxCrashes = 1
CHECK_DEADLOCK FALSE
PROPERTY BlocksHold
PROPERTY Arrives
PROPERTY DownloadEnds
INVARIANT PlacedIsSound
