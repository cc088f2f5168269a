SPECIFICATION FairSpec
CONSTANTS
  Callers = {c1, c2, c3}
  MaxLives = 3
INVARIANTS
  CloseJoins
  FlagIsFaithful
  JoinIsPending
PROPERTIES
  CloseReturnsUnlessExit

