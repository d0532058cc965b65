SPECIFICATION LifecycleSpec
CONSTANTS
  Capacity = 2
  MaxPresses = 3
  PendingSlots = 1
  EventSlots = 1
  UiSlots = 2
  Patience = 1
  dyson = dyson
  light = light
  setPower = setPower
  togglePower = togglePower
  Device <- MCDevice
  Kind <- MCKind
  CoalescableKind <- MCCoalescable
INVARIANT InflightHasOneOwner
INVARIANT LastExecutedIsNewest
INVARIANT IconSettles
PROPERTY ExecutionFollowsPresses
PROPERTY EveryPressSettles
CHECK_DEADLOCK FALSE
