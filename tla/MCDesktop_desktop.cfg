SPECIFICATION DesktopSpec
CONSTANTS
  Records = {r1}
  Devices = {d0, d1}
  Desktop = d0
  Owner = o
  Members = {m}
  Requests = {p1, p2}
  MaxKeys = 3
  MaxBodies = 2
  Nil = Nil
  Existing = {a}
  New = {n}
  Theirs = {t}
  Importers = {p1, p2}
  MaxWritten = 3
  MaxImports = 2
  MaxLost = 2
  Jobs = {j1, j2}
  Owners = {e}
  JobKeys = {k}
  NoKey = NoKey
  Callers = {p1, p2}
  Threads = {w1, w2}
  Stripes = {s}
  StripeOf <- OneStripe
  Nobody = Nobody
  NoJob = NoJob
  Capacity = 2
  MaxPhases = 2
  FailureRetryable = {TRUE, FALSE}
  Objects = {o1}
  Admins = {a1, a2}
  MaxRecordVersions = 3
  MaxUploads = 2
  MaxTickets = 2
  Persons = {u1, u2}
  Machines = {h1, h2}
  Asks = {p1, p2}
  MaxCredential = 2
  MaxEntered = 1
  Nothing = Nothing
  Parts = {"keys", "import", "jobs", "objects", "credentials"}
  Symmetric = {{p1, p2}, {a1, a2}}
SYMMETRY Symmetry
INVARIANTS
  SignedObjectsKept
  StrayIsHeld
  KeysUsable
  CodesStayGood
  ImportFaithful
  FrozenCanResume
  BarrierHolds
  KeyStaysWithPerson
CHECK_DEADLOCK FALSE
