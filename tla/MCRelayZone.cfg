SPECIFICATION Spec
CONSTANTS
  Step = 3
  Width = 8
  Vehicle = {1, 2}
  Heading = {44, 45, 224, 225}
  World = 16
  Center <- MCCenter
  Start <- MCStart
  None = None
  MaxTurns = 1
  MaxTicks = 3
CHECK_DEADLOCK FALSE
INVARIANTS  ZoneLaidOut 
PROPERTY DrivesOneBlock
