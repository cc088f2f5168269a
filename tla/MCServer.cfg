SPECIFICATION FairSpec
CONSTANTS
  NServers = 2
  Clients = {c1, c2, c3}
  Fds = {f1, f2}
  MaxClient = 2
  NoClient = NoClient
  InvalidSocket = InvalidSocket
INVARIANTS
  NoDanglingClient
  OneOwner
  JoinNeverOverwrites
  CountIsAccurate
  HandedToTheLiving
  CloseReleasesAll
PROPERTIES
  ImplementsLifecycle
  QueuedIsServed
  CloseTerminates
CHECK_DEADLOCK FALSE
