CONSTANTS
  MaxInstances = 2
  Players = {1,2}
  Settings = {"s1"}
  Workers = {w1}
  Main = main
  Requests = {"reserve", "arm", "release", "end"}
  MaxRooms = 2
  MaxObj = 3
  MaxProc = 1
SPECIFICATION Spec
INVARIANTS FreshSlotsExclusive
CHECK_DEADLOCK FALSE
