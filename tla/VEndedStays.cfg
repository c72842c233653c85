CONSTANTS
  MaxInstances = 1
  Players = {1}
  Settings = {"s1"}
  Workers = {w1}
  Main = main
  Requests = {"reserve", "arm", "end"}
  MaxRooms = 1
  MaxObj = 1
  MaxProc = 1
SPECIFICATION Spec
PROPERTIES EndedRoundStays
CHECK_DEADLOCK FALSE
