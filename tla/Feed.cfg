SPECIFICATION FairFeedSpec
CONSTANTS
  a = a
  w1 = w1
  e1 = e1
  s1 = s1
  r1 = r1
  c1 = c1
  NoConfig = NoConfig
  Free = Free
  Orphan = Orphan
  NoRequest = NoRequest
  Reader = Reader
  PageSizes = {1}
  DefaultPageSize = 1
  Docs = {1}
  Sources = {a}
  SourceOf <- OneOfOne
  Published <- OneDate
  Orderings = {"desc"}
  Windows <- OneWindow
  Workers = {w1}
  ExistingLimit = 1
  Editors = {e1}
  Scorers = {s1}
  Roles = {r1}
  Allowed = {a}
  Sockets = {c1}
  Faults = {"crash", "stop", "run", "lock", "turn", "listener", "api"}
  MaxFaults = 1
  MaxBusy = 1
INVARIANTS
  FeedTypeOK
  AnnouncedIsThere
PROPERTIES
  ServiceKept
  ArrivalsTold
  NobodyToldLocked
  SocketsFreed
