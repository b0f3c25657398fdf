SPECIFICATION PanelFairSpec
CONSTANTS
  Item <- PanelItem
  Msg <- PanelMsg
  IsResponse <- SameOpcode
  NumRetries = 1
  QueueSize = 1
  InboundSize = 1
  None = None
  Unqueued <- PanelUnqueued
  Panel = {p1}
  NumButtons = 2
  NumRelays = 1
  Lossy = FALSE
  Prompt = FALSE
  TransitBound = 6
  MaxGreetings = 1
  MaxUserCalls = 2
CHECK_DEADLOCK FALSE
PROPERTIES DiscoveryCompletes 
