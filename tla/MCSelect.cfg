SPECIFICATION Spec
CONSTANTS
  Fds = {3, 5}
  MaxFd = 5
  DeadTime = 3
  MaxTurn = 1
INVARIANTS
  TypeOK
  SetsAreFresh
  SilentAreDropped
PROPERTIES
  DropIsDue
CHECK_DEADLOCK FALSE
