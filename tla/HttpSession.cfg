\* Requests of one session, the connection ending at any moment.
SPECIFICATION Spec
CONSTANTS
  Responses <- MCResponses
  BufSize = 4
  ReadSize = 2
  PartLen = 2
  MaxConn = 2
  MaxReq = 3
INVARIANTS TypeOK Delivered StatusOwn BufferClean RequestWhole
PROPERTY CallsReturn
CHECK_DEADLOCK FALSE
