SPECIFICATION Spec
CONSTANTS
  desk = desk
  shelf = shelf
  Lamp <- MCLamp
  Value <- MCValue
  MaxCommands = 1
  ChildSlots = 1
  GroupSlots = 1
  Patience = 1
  MaxChanges = 2
SYMMETRY MCSymmetry
INVARIANT FullSuccessMeansEveryLamp
CHECK_DEADLOCK FALSE
