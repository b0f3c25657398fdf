SPECIFICATION FairSpec
CONSTANTS
  Item <- MCItem
  Msg <- MCMsg
  IsResponse <- MCIsResponse
  NumRetries = 2
  QueueSize = 2
  InboundSize = 2
  None = None
INVARIANTS TypeOK QuietWhenStopped SingleWorker TimerDiscipline
PROPERTIES ImplementsChannel StopReturns InFlightSettles InboundDrains AcceptedIsServed
