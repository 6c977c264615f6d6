SPECIFICATION Spec
CONSTANTS
  f = f  m = m  r = r
  v1 = v1  v2 = v2
  Files = {f}
  Models = {m}
  Repos = {r}
  Order <- PlanOrder
  Versions = {v1, v2}
  Specs <- RepoOnly
  Flawed = {}
  NoSpec = NoSpec
  Saved = {r}
  FetchAttempts = 2
  MaxChanges = 0
  MaxEdits = 0
  MaxCrashes = 0
PROPERTY RestoredIsInPlace
