CONSTANTS
  PartsRun = {"launch", "loader", "guard", "code", "scan", "dump",
              "keys", "stream", "services", "lobby"}
  Clients = {"c1"}
  Packets <- SomePackets
  Noise <- Garbage
  CH2_DUMP_LIMIT = 3
  OTHER_CHANNEL_EARLY_DUMP_LIMIT = 2
  MaxBunches = 4
SPECIFICATION PartSpec
INVARIANTS DatesFixed StubFirst TclsRestored NotLeftHeld ResultsAreOwn ThreadRestored CallsRight ScanSound PacketsDecoded BunchesDumped KeysRight RequestsOnce ToldOnce ClanKept
PROPERTIES GuardRestores AllEnd
CHECK_DEADLOCK FALSE
