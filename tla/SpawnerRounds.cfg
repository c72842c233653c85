CONSTANTS
  MaxInstances = 1
  Players = {1}
  Settings = {"s1", "s2"}
  Workers = {w1, w2}
  Main = main
  Requests = {"reserve", "update", "prepare", "arm", "begin", "quit", "end"}
  MaxRooms = 1
  MaxObj = 2
  MaxProc = 1
SPECIFICATION Spec
INVARIANTS TypeOK SettingsFrozen
CHECK_DEADLOCK FALSE
PROPERTIES RearmKeepsLobby
