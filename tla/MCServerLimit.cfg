SPECIFICATION FairSpec
CONSTANTS
  NServers = 1
  Clients = {c1, c2}
  Fds = {f1, f2}
  MaxClient = 1
  NoClient = NoClient
  InvalidSocket = InvalidSocket
INVARIANTS
  WithinLimit
CHECK_DEADLOCK FALSE
