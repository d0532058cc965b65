SPECIFICATION PortalSpec
CONSTANTS
  Config <- MCConfig
  NoConfig = NoConfig
  Invalid = Invalid
  MaxSaves = 2
  LoadMayFail = FALSE
  MaxSubmits = 2
  PortalTimeout = 2
  MaxBoots = 2
  SoftApMayFail = TRUE
PROPERTY SetupEnds
CHECK_DEADLOCK FALSE
