SPECIFICATION RetentionSpec
CONSTANTS
  Users = {o, u}
  Founder = o
  Applicant = u
  Workers = {w1}
  MaxAttempts = 1
  MaxFilings = 2
  EmailLimit = 1
  Invitations = {r1, r2}
  Devices = {d0, d1}
  FounderDevice = d0
  Sessions = {s0}
  FounderSession = s0
  MaxSeats = 2
  MaxPending = 2
  Nobody = Nobody
CONSTRAINT NothingExpires
INVARIANTS
  SparesMembers
CHECK_DEADLOCK FALSE
