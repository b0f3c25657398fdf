SPECIFICATION RelaySpec
CONSTANTS
  Item <- RelayItem
  Msg <- RelayMsg
  IsResponse <- RelaySameOpcode
  Unqueued <- RelayUnqueued
  NumRetries = 1
  QueueSize = 2
  InboundSize = 1
  None = None
  Lossy = FALSE
  Prompt = FALSE
  TransitBound = 2
  NumChannels = 2
  Kinds = {"zonebeast"}
  Refuses = FALSE
  MaxSets = 3
  MaxToggles = 0
CHECK_DEADLOCK FALSE
INVARIANTS RelayTypeOK LastSetWins
PROPERTIES NoFlicker
