SPECIFICATION Spec
CONSTANTS
  a = a
  b = b
  w1 = w1
  w2 = w2
  e1 = e1
  s1 = s1
  r1 = r1
  NoConfig = NoConfig
  Free = Free
  Orphan = Orphan
  NoRequest = NoRequest
  PageSizes = {1}
  DefaultPageSize = 1
  Docs = {1, 2}
  Sources = {a}
  SourceOf <- TwoOfOne
  Published <- TwoDates
  Orderings = {"asc", "desc"}
  Windows <- LateWindows
  Workers = {w1}
  ExistingLimit = 1
  Editors = {e1}
  Scorers = {}
  Roles = {r1}
  Allowed = {a}
  Faults = {"crash", "stop", "turn", "run", "lock"}
  MaxFaults = 1
INVARIANTS
  TypeOK
  PositionsUnique
  RebuildIsClean
  RebuildIsOrdered
  RebuildStaysMarked
PROPERTIES
  PositionsStable
