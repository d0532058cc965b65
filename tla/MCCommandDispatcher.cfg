SPECIFICATION Spec
CONSTANTS
  Capacity = 3
  MaxPresses = 5
  ac = ac
  setPower = setPower
  setTemperature = setTemperature
  toggleSwing = toggleSwing
  toggleEco = toggleEco
  Device <- MCDevice
  Kind <- MCKind
  CoalescableKind <- MCCoalescable
INVARIANT TypeOK
INVARIANT OneWaitingOneActive
INVARIANT LatestIsNewestPress
PROPERTY ImplementsMailbox
PROPERTY RefusedOnlyWhenBusy
CHECK_DEADLOCK FALSE
