SPECIFICATION FairSpec
CONSTANTS
  h1 = h1
  h2 = h2
  Containers = {h1, h2}
  None = None
  Wishes <- SomeWishes
  MaxChanges = 1
  MaxTroubles = 2
CHECK_DEADLOCK FALSE
INVARIANT ReadyIsEarned
PROPERTY StartsOnDisks
PROPERTY NoneAfterDeletion
PROPERTY RunningIsKept
PROPERTY RemountsAreFollowed
PROPERTY GetsThere
