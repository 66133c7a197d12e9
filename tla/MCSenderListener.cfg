SPECIFICATION FairSpec
CONSTANTS
  Listeners = {l1, l2}
  Connections = {c1}
  Paths = {p1, p2}
  None = None
  MaxQueuedPackets = 1
  MaxFrames = 0
  MaxTimers = 1
  MaxBacklog = 1
CHECK_DEADLOCK FALSE
INVARIANTS TypeOK OneLiveListener NeverStranded NeverBoundToOldPath
PROPERTIES Relisten
