SPECIFICATION PanelSpec
CONSTANTS
  Item <- PanelItem
  Msg <- PanelMsg
  IsResponse <- SameOpcode
  NumRetries = 1
  QueueSize = 2
  InboundSize = 2
  None = None
  Unqueued <- PanelUnqueued
  Panel = {p1}
  NumButtons = 2
  NumRelays = 1
  Lossy = FALSE
  Prompt = FALSE
  TransitBound = 2
  MaxGreetings = 1
  MaxUserCalls = 1
CHECK_DEADLOCK FALSE
PROPERTIES AssignsPendingOnly
