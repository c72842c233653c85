CONSTANTS
  Clients = {c1, c2, c3}
  Packets = {p1, p2}
  NoPacket = NoPacket
  MaxPeers = 2
  MaxRetries = 2
  Modes = {TRUE, FALSE}
  Leftovers = {"none", "stale"}
  MaxRelayed = 3
SPECIFICATION Spec
INVARIANTS TypeOK OnlyVerifiedServer PublishedStateTrue
PROPERTIES RelayImplemented FileNeverRegresses
CHECK_DEADLOCK FALSE
SYMMETRY ClientPacketSymmetry
