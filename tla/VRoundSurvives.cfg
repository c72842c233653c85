CONSTANTS
  MaxInstances = 1
  Players = {1, 2}
  Settings = {"s1"}
  Workers = {w1, w2}
  Main = main
  Requests = {"reserve", "arm", "begin", "quit", "mark"}
  MaxRooms = 1
  MaxObj = 1
  MaxProc = 1
SPECIFICATION Spec
PROPERTIES RoundSurvivesItsPlayers
CHECK_DEADLOCK FALSE
