SPECIFICATION PortalSpec
CONSTANTS
  Config <- MCConfig
  NoConfig = NoConfig
  Invalid = Invalid
  MaxSaves = 3
  LoadMayFail = FALSE
  MaxSubmits = 3
  PortalTimeout = 2
  MaxBoots = 3
  SoftApMayFail = FALSE
INVARIANT PortalInOrder
INVARIANT StoredHasNoWrongSecret
PROPERTY ImplementsRegister
PROPERTY SetupEnds
CHECK_DEADLOCK FALSE
