SPECIFICATION Spec
CONSTANTS
  a1 = a1
  a2 = a2
  Address <- MCAddress
  NoAddress = NoAddress
  ClockRange = 64
  MaxDelay = 4
  MaxStep = 2
  Uptime = 31
INVARIANT RetryInTime
INVARIANT AdaptersFollowAddress
CHECK_DEADLOCK FALSE
