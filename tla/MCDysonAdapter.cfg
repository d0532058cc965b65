SPECIFICATION Spec
CONSTANTS
  power = power
  night = night
  Value <- MCValue
  Kind <- MCOneKind
  MaxCommands = 2
  PendingSlots = 1
  Patience = 2
  StaleAfter = 3
  PollEvery = 3
  MaxDelay = 2
  RediscoverAfter = 3
  FanLag = 0
  InboxSize = 7
  MaxLeaves = 1
  MaxOutage = 0
  RemoteChanges = 1
INVARIANT TypeOK
INVARIANT CacheTracksFan
PROPERTY ImplementsContract
PROPERTY EveryPendingAnswered
PROPERTY FanIsReconnected
CHECK_DEADLOCK FALSE
