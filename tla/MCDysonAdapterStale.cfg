SPECIFICATION Spec
CONSTANTS
  power = power
  night = night
  Value <- MCValue
  Kind <- MCOneKind
  MaxCommands = 0
  PendingSlots = 1
  Patience = 1
  StaleAfter = 6
  PollEvery = 4
  MaxDelay = 2
  RediscoverAfter = 3
  FanLag = 0
  InboxSize = 6
  MaxLeaves = 1
  MaxOutage = 0
  RemoteChanges = 0
PROPERTY FanIsHeardAgain
CHECK_DEADLOCK FALSE
