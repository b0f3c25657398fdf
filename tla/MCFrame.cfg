SPECIFICATION FrameSpec
CONSTANTS
  Messages <- MCMessages
  Sample <- MCSample
  Headers <- MCHeaders
  Noisy <- MCNoisy
INVARIANTS TypeOK RoundTrip FrameTrusted CrcDetects CrcIsRemainder
CHECK_DEADLOCK FALSE
