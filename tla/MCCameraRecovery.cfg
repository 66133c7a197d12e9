SPECIFICATION FairSpec
CONSTANTS
  Encoders = {e1, e2}
  None = None
  MaxAttempt = 2
  MaxEvents = 2
CHECK_DEADLOCK FALSE
INVARIANTS TypeOK RecoveryComing EveryEncoderTracked KeyFrameComing
PROPERTIES Recovers
