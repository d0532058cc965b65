SPECIFICATION Spec
CONSTANTS
  power = power
  night = night
  Value <- MCValue
  Kind <- MCOneKind
  MaxCommands = 1
  PendingSlots = 1
  Patience = 1
  StaleAfter = 2
  PollEvery = 2
  MaxDelay = 2
  RediscoverAfter = 3
  FanLag = 1
  InboxSize = 4
  MaxLeaves = 0
  MaxOutage = 1
  RemoteChanges = 0
INVARIANT SuccessMeansApplied
CHECK_DEADLOCK FALSE
