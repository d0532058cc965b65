SPECIFICATION Spec
CONSTANTS
  NoCommand = NoCommand
  Start <- MCStart
  PresetCount = 2
  MaxPresses = 3
INVARIANT UnlessStale
INVARIANT RefusedOnlyOutOfReach
