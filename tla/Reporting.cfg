SPECIFICATION FairSpec
CONSTANTS
  MaxGen = 2
  MaxFaults = 1
INVARIANT ConfirmedIsEarned
PROPERTY NeverBack
PROPERTY Converges
