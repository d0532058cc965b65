SPECIFICATION Spec
CONSTANTS
  NoCommand = NoCommand
  Start <- MCSpeed
  PresetCount = 7
  MaxPresses = 4
INVARIANT EveryPressCounts
