SPECIFICATION FairSpec
CONSTANTS
  MsgLen = 2
  SendSize = 4
  RecvSize = 2
  WireCap = 2
  nMsg = 2
  MaxLogins = 5
PROPERTIES
  SendNeverSticks
CHECK_DEADLOCK FALSE
