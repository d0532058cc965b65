SPECIFICATION Spec
CONSTANTS
  NoCommand = NoCommand
  Start <- MCSweep
  PresetCount = 7
  MaxPresses = 4
INVARIANT ShiftKeepsWidth
