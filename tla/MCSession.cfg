SPECIFICATION MCFairSpec
CONSTANTS
  MsgLen = 2
  SendSize = 3
  RecvSize = 4
  WireCap = 4
  nMsg = 2
  MaxLogins = 4
  Fields <- MCFields
  Logouts <- MCLogouts
  MaxFields = 3
  BuffSizes = {16, 160}
INVARIANTS
  TypeOK
  StreamIsWhole
  RoomToRecv
  FieldsArrive
  ReadsStayInside
  AnswerIsWhole
PROPERTIES
  LoginsArrive
CHECK_DEADLOCK FALSE
