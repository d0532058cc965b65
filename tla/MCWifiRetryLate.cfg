SPECIFICATION Spec
CONSTANTS
  a1 = a1
  a2 = a2
  Address <- MCAddress
  NoAddress = NoAddress
  ClockRange = 32
  MaxDelay = 4
  MaxStep = 2
  Uptime = 40
INVARIANT RetryInTime
CHECK_DEADLOCK FALSE
