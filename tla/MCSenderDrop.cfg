SPECIFICATION Spec
CONSTANTS
  Listeners = {l1}
  Connections = {c1}
  Paths = {p1}
  None = None
  MaxQueuedPackets = 1
  MaxFrames = 4
  MaxTimers = 1
  MaxBacklog = 0
CHECK_DEADLOCK FALSE
INVARIANTS DeltaHasItsIdr
