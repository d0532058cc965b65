SPECIFICATION Spec
CONSTANTS
  desk = desk
  shelf = shelf
  Lamp <- MCLamp
  Value <- MCValue
  MaxCommands = 2
  ChildSlots = 1
  GroupSlots = 2
  Patience = 2
  MaxChanges = 1
SYMMETRY MCSymmetry
INVARIANT CountsEachLampOnce
INVARIANT FullSuccessIsReal
INVARIANT GroupAnsweredInTime
PROPERTY ImplementsContract
CHECK_DEADLOCK FALSE
