SPECIFICATION FairSpec
CONSTANTS
  nThread = 3
  nClient = 2
  MaxFails = 1
INVARIANTS
  CountIsExact
  ReadyToSend
PROPERTIES
  MainReturns
CHECK_DEADLOCK FALSE
