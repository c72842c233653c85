CONSTANTS
  Clients = {c1, c2}
  Packets = {p1}
  NoPacket = NoPacket
  MaxPeers = 2
  MaxRetries = 2
  Modes = {TRUE}
  Leftovers = {"none"}
  MaxRelayed = 2
SPECIFICATION FairSpec
PROPERTIES CleansUp StartResolves PeersSettled
CHECK_DEADLOCK FALSE
