SPECIFICATION PanelSpec
CONSTANTS
  Item <- PanelItem
  Msg <- PanelMsg
  IsResponse <- SameOpcode
  NumRetries = 1
  QueueSize = 1
  InboundSize = 1
  None = None
  Unqueued <- PanelUnqueued
  Panel = {p1, p2}
  NumButtons = 2
  NumRelays = 1
  Lossy = TRUE
  Prompt = TRUE
  TransitBound = 2
  MaxGreetings = 2
  MaxUserCalls = 2
SYMMETRY PanelSymmetry
CHECK_DEADLOCK FALSE
INVARIANTS
  PanelTypeOK AnnouncedFirst ShownIsTrue AssignedIsTrue
  StuckOnlyByFailure RoomForAll
