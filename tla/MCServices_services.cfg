SPECIFICATION ServicesSpec
CONSTANTS
  Items = {i1}
  Documents = {d1}
  Bodies = {x1, x2, x3}
  Ready = {x1, x2}
  Threads = {p1, p2}
  MaxVersion = 3
  MaxRequests = 5
  None = None
  Alerts = {x1, x2}
  Cases = {c1, c2, c3}
  Desks = {p1, p2}
  MaxEdits = 3
  MaxStops = 1
  Clerks = {p1, p2}
  JobContents <- WrittenJobs
  MaxJobVersion = 9
  Runs = {p1, p2}
  Texts = {x3}
  MaxPosts = 2
  Events = {x1, x2, x3}
  MaxEntries = 2
  MaxInflight = 2
  MaxDeliveries = 3
  Releases = {1, 2, 3}
  Absent = Absent
  MaxGenerations = 3
  MaxLosses = 1
  Wire <- Wires
  AiCalls = {c1, c2}
  Searches = {d1}
  Days = 2
  Limits = {1, 2}
  MaxAmount = 2
  Parts = {"publication", "casework", "jobs", "wechat", "webhook", "release", "budgets"}
  Symmetric = {{p1, p2}, {x1, x2}}
SYMMETRY Symmetry
INVARIANTS
  AuditComplete
  SnapshotsReady
  OneCasePerAlert
  NothingSkipped
  Recoverable
  CompatibleServed
  LedgerMatches
PROPERTIES
  ClaimIsItsOwners
  LeaseIsItsHolders
  LineageKept
CHECK_DEADLOCK FALSE
