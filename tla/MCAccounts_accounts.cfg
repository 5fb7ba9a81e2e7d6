SPECIFICATION AccountsSpec
CONSTANTS
  Users = {o, u}
  Founder = o
  Applicant = u
  Workers = {w1, w2}
  MaxAttempts = 2
  MaxFilings = 2
  EmailLimit = 1
  Invitations = {r1, r2}
  Devices = {d0, d1}
  FounderDevice = d0
  Sessions = {s0, s1}
  FounderSession = s0
  MaxSeats = 2
  MaxPending = 2
  Nobody = Nobody
SYMMETRY Symmetry
CONSTRAINT AccountsBound
INVARIANTS
  LedgerExact
  SeatsFollow
  OwnerRemains
  AccessFollowsMembership
  InvitedWasInvited
PROPERTIES
  LeaseIsItsWorkers
  AddressIsForgotten
CHECK_DEADLOCK FALSE
