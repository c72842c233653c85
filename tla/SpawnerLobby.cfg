CONSTANTS
  MaxInstances = 2
  Players = {1, 2}
  Settings = {"s1"}
  Workers = {w1, w2}
  Main = main
  Requests = {"reserve", "register", "begin", "mark", "end", "quit", "remove", "release", "shutdown"}
  MaxRooms = 2
  MaxObj = 2
  MaxProc = 0
SPECIFICATION Spec
INVARIANTS MatchInRoom OwnerMapSound
CHECK_DEADLOCK FALSE
SYMMETRY WorkerSymmetry
