SPECIFICATION SystemSpec
CONSTANTS
  d1 = d1
  d2 = d2
  again = again
  Devices = {d1, d2}
  Cycles = {d1, d2}
  DeviceOf <- OwnDevice
  Records = {r1, r2}
  VersionIds = {1, 2}
  EventIds = {1, 2}
  Null = 0
  MaxVersion = 3
  MaxCursor = 2
  MaxKey = 1
  MaxAttempts = 1
  PageSize = 2
  MaxFaults = 0
  Threaded = FALSE
  Corrupt = {}
SYMMETRY DeviceSymmetry
INVARIANT NoSkippedEvent
CHECK_DEADLOCK FALSE
