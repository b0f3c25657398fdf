SPECIFICATION RelayFairSpec
CONSTANTS
  Item <- RelayItem
  Msg <- RelayMsg
  IsResponse <- RelaySameOpcode
  Unqueued <- RelayUnqueued
  NumRetries = 1
  QueueSize = 2
  InboundSize = 1
  None = None
  Lossy = TRUE
  Prompt = TRUE
  TransitBound = 2
  NumChannels = 1
  Kinds = {"zonebeast", "hmix12"}
  Refuses = TRUE
  MaxSets = 2
  MaxToggles = 1
CHECK_DEADLOCK FALSE
PROPERTIES Converges
