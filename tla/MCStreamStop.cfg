SPECIFICATION FairSpec
CONSTANTS
  Senders <- MCSenders
  Handler = "handler"
CHECK_DEADLOCK FALSE
PROPERTIES CloseKillsReader
