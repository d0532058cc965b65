SPECIFICATION Spec
CONSTANTS
  NoCommand = NoCommand
  Start <- MCPreset
  PresetCount = 2
  MaxPresses = 3
INVARIANT AsksForWhatIsTaken
