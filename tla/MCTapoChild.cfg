SPECIFICATION Spec
CONSTANTS
  Command <- MCCommand
  LampPresets <- MCPresets
  Lamps <- MCLamps
  MaxCommands = 2
  Slots = 2
  MaxFaults = 2
INVARIANT TypeOK
INVARIANT SessionLossIsInvisible
INVARIANT ConfirmedWasShown
PROPERTY ImplementsLampRequest
PROPERTY LampComesBack
CHECK_DEADLOCK FALSE
