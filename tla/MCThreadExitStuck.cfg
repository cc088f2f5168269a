SPECIFICATION FairSpec
CONSTANTS
  Callers = {c1, c2}
  MaxLives = 1
PROPERTIES
  CloseReturns

