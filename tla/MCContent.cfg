SPECIFICATION FairSpec
CONSTANTS
  f = f  m = m  r = r
  v1 = v1  v2 = v2
  Files = {f}
  Models = {m}
  Repos = {r}
  Order <- PlanOrder
  Versions = {v1, v2}
  Specs <- AllSpecs
  Flawed <- RepoOnly
  NoSpec = NoSpec
  Saved = {r}
  FetchAttempts = 2
  MaxChanges = 1
  MaxEdits = 1
  MaxCrashes = 1
INVARIANT SettledIsComplete
INVARIANT StampsHold
INVARIANT RetriesEnd
INVARIANT SavesQuiet
PROPERTY StartsComplete
PROPERTY Settles
PROPERTY StopEnds
