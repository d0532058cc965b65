SPECIFICATION PortalSpec
CONSTANTS
  Config <- MCConfig
  NoConfig = NoConfig
  Invalid = Invalid
  MaxSaves = 4
  LoadMayFail = TRUE
  MaxSubmits = 4
  PortalTimeout = 2
  MaxBoots = 2
  SoftApMayFail = FALSE
PROPERTY SuccessIsDurable
CHECK_DEADLOCK FALSE
