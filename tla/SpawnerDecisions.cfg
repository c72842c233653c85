CONSTANTS
  MaxInstances = 1
  Players = {1}
  Settings = {"s1"}
  Workers = {w1,w2}
  Main = main
  Requests = {"reserve", "arm", "prepare", "remove", "release"}
  MaxRooms = 1
  MaxObj = 2
  MaxProc = 1
SPECIFICATION FairSpec
PROPERTIES DecisionsTakeEffect CallsReturn MonitorsStop
CHECK_DEADLOCK FALSE
