SPECIFICATION FairSpec
CONSTANTS
  Addr = {a1}
  Field = {"Temperature", "Movement"}
  MaxChannels = 3
  MaxTemps = 3
  MaxSwaps = 1
  None = None
INVARIANTS RegistryTypeOK AnnouncedOnce ShownIsKnown
PROPERTIES PolledIsShown
