SPECIFICATION DevicesSpec
CONSTANTS
  d1 = d1
  d2 = d2
  Devices = {d1, d2}
  Cycles = {d1, d2}
  DeviceOf <- OwnDevice
  Records = {r1}
  VersionIds = {1, 2, 3, 4, 5}
  EventIds = {1, 2, 3, 4, 5}
  Null = 0
  MaxVersion = 3
  MaxCursor = 5
  MaxKey = 1
  MaxAttempts = 0
  PageSize = 2
  MaxFaults = 1
  Threaded = FALSE
  Corrupt = {}
  Desktops = {f, m}
  First = f
  Calls = {w1, w2}
  MaxCloudKey = 2
  MaxLocalKey = 2
  NoKeyYet = NoKeyYet
  Threads = {w1, w2}
  People = {b1}
  MaxLogins = 2
  Parts = {"cycles", "enrollment", "session"}
  Symmetric = {{w1, w2}, {d1, d2}}
SYMMETRY Symmetry
INVARIANTS
  SeenIsStored
  OutboxTruthful
  Converged
  RowNamesItsVersion
  ActiveHoldsKey
  SignedOutStaysOut
PROPERTIES
  NoStaleOverwrite
  NeverRollsBack
CHECK_DEADLOCK FALSE
