SPECIFICATION LiveSpec
CONSTANTS
  d1 = d1
  d2 = d2
  again = again
  Devices = {d1, d2}
  Cycles = {d1, d2}
  DeviceOf <- OwnDevice
  Records = {r1}
  VersionIds = {1, 2, 3}
  EventIds = {1, 2, 3}
  Null = 0
  MaxVersion = 3
  MaxCursor = 3
  MaxKey = 1
  MaxAttempts = 0
  PageSize = 2
  MaxFaults = 1
  Threaded = FALSE
  Corrupt = {}
PROPERTIES
  CycleEnds
CHECK_DEADLOCK FALSE
