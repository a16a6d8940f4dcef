SPECIFICATION Spec
CONSTANTS
  Suspending = {TRUE, FALSE}
  MaxCommands = 2
  MaxRSS = 2
INVARIANTS
  KillsReachTheirCommand
  NothingEscapes
  FloorCoversInherited
PROPERTIES
  Implements
  CallsReturn
CHECK_DEADLOCK FALSE
