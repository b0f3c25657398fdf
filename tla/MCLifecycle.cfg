SPECIFICATION LifeFairSpec
CONSTANTS
  Senders <- MCSenders
  Handler = "handler"
  NumRetries = 1
  QueueSize = 1
  InboundSize = 1
  None = None
CHECK_DEADLOCK FALSE
INVARIANTS LifeTypeOK OnlyGatewayPanics HalfDuplex ReaderReleases
PROPERTIES DriverReturns
