SPECIFICATION FairSpec
CONSTANTS
  a = a
  b = b
  w1 = w1
  w2 = w2
  e1 = e1
  s1 = s1
  r1 = r1
  NoConfig = NoConfig
  Free = Free
  Orphan = Orphan
  NoRequest = NoRequest
  PageSizes = {1}
  DefaultPageSize = 1
  Docs = {1, 2}
  Sources = {a}
  SourceOf <- TwoOfOne
  Published <- TwoDates
  Orderings = {"desc"}
  Windows <- TwoWindows
  Workers = {w1}
  ExistingLimit = 2
  Editors = {e1}
  Scorers = {}
  Roles = {r1}
  Allowed = {a}
  Faults = {"crash", "stop", "turn", "run", "lock", "overrun", "listener", "api", "redis"}
  MaxFaults = 1
PROPERTIES
  DirtyServed
  FreshDocumentsListed
  UnlockedAgain
  ListKept
