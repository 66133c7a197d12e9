SPECIFICATION Spec
CONSTANTS
  RelayModes <- BothModes
  Hosts <- TwoHosts
  NamedHosts = {}
  DefaultHost = "h1"
  MaxPackets = 2
  MaxUnread = 1
INVARIANT DecoderJoinsAtIdr
