SPECIFICATION SystemSpec
CONSTANTS
  d1 = d1
  d2 = d2
  again = again
  Devices = {d1, d2}
  Cycles = {d1, again, d2}
  DeviceOf <- TwoOnFirst
  Records = {r1}
  VersionIds = {1, 2}
  EventIds = {1, 2}
  Null = 0
  MaxVersion = 3
  MaxCursor = 3
  MaxKey = 1
  MaxAttempts = 1
  PageSize = 2
  MaxFaults = 1
  Threaded = TRUE
  Corrupt = {1}
INVARIANTS
  NoSkippedEvent
CHECK_DEADLOCK FALSE
