SPECIFICATION Spec
CONSTANTS
  Listeners = {l1}
  Connections = {c1, c2}
  Paths = {p1}
  None = None
  MaxQueuedPackets = 2
  MaxFrames = 3
  MaxTimers = 1
  MaxBacklog = 0
CHECK_DEADLOCK FALSE
SYMMETRY PeerSymmetry
INVARIANTS OneSendInFlight NoStalledQueue JoinAtIdr OneLiveConnection
PROPERTIES ImplementsLiveFeed
