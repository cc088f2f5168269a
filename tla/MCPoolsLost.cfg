SPECIFICATION MCSpec
CONSTANTS
  Threads = {t1, t2}
  Mem64Blocks = 2
  Mem128Blocks = 3
  ObjBlocks = 3
  Sizes = {64, 129}
  ObjSize = 65
  MaxHeld = 3
  NCell = 2
  Conns = {c1, c2, c3}
  Sockets = {1, 2, 3}
  FdSetSize = 1
  MaxAsked = 2
  AnswerLen = 2
  SendBuffSize = 3
SYMMETRY ThreadSymmetry
INVARIANTS
  HeapOnlyWhenFull
