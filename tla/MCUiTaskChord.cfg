SPECIFICATION UiSpec
CONSTANTS
  Key <- MCKey
  Items <- MCItems
  MaxHeld = 2
  ClockRange = 6
  DimAfter = 2
  SleepAfter = 4
INVARIANT WakeKeyOperatesNothing
