SPECIFICATION ForeignSpec
CONSTANTS
  Messages = {"SetPanelButtonModesResponse", "ReadTemperatureValues"}
  Sample <- MCSample
INVARIANT UnknownByteRefused
CHECK_DEADLOCK FALSE
