SPECIFICATION Spec
CONSTANTS
  Command <- MCCommand
  NoState = NoState
  MaxSends = 3
  MaxBoots = 1
  Debounce = 2
INVARIANT TypeOK
INVARIANT PersistedIsStored
INVARIANT UnitMatchesAssumption
PROPERTY LastStateIsSaved
CHECK_DEADLOCK FALSE
