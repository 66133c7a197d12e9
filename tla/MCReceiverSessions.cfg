SPECIFICATION FairSpec
CONSTANTS
  RelayModes <- BothModes
  Hosts <- TwoHosts
  NamedHosts = {}
  DefaultHost = "h1"
  MaxPackets = 4
  MaxUnread = 2
INVARIANTS TypeOK StartsAtIdr RelayedWithoutGap SessionLeavesNothing
PROPERTIES NeverWedged Reconnects
