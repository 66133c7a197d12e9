SPECIFICATION FairSpec
CONSTANTS
  Listeners = {l1}
  Connections = {c1}
  Paths = {p1}
  None = None
  MaxQueuedPackets = 2
  MaxFrames = 4
  MaxTimers = 1
  MaxBacklog = 0
CHECK_DEADLOCK FALSE
INVARIANT InOrder
PROPERTIES PendingDrains
