SPECIFICATION GatewaySpec
CONSTANTS
  NumRelays = 2
  BufSize = 2
  MaxDatagrams = 4
  None = None
INVARIANTS GatewayTypeOK AnswerAlmostCurrent
PROPERTIES FramesInOrder LastGetsThrough
